------------------------------ MODULE MCUpkeep ------------------------------
(***************************************************************************)
(* What has to happen in the end, over one instance of each program: a     *)
(* behaviour is of one of them, under its fairness, and the others stay as *)
(* they were at the start.                                                 *)
(***************************************************************************)
EXTENDS MCIdeaArchive, Jobs, Plan, Requests

Planned3 == <<"a", "b", "h">>
(* One request for each check that stops it, and for each kind of body. *)
Plainly == [verb |-> "post", wall |-> "none", framing |-> "length", body |-> 1, object |-> TRUE,
            migrate |-> FALSE]
Stopped == {[Plainly EXCEPT !.wall = w] : w \in {"host", "origin", "readonly", "token", "path"}}
Bodies == {[Plainly EXCEPT !.body = n] : n \in {0, 2, 3}}
Reads == {[Plainly EXCEPT !.verb = "get", !.body = 0, !.wall = w] : w \in {"none", "host", "token",
            "path"}}
Odd == {[Plainly EXCEPT !.framing = f] : f \in {"chunked", "unreadable"}}
       \cup {[Plainly EXCEPT !.object = FALSE], [Plainly EXCEPT !.migrate = TRUE]}
Callable == {Plainly} \cup Stopped \cup Bodies \cup Reads \cup Odd

VARIABLE part  \* the program this behaviour is of

UpkeepInit ==
    /\ part \in {"archive", "jobs", "plan", "requests"}
    /\ Init
    /\ JobsInit
    /\ PlanInit
    /\ RequestsInit

Others ==
    /\ IF part = "archive" THEN TRUE ELSE UNCHANGED vars
    /\ IF part = "jobs" THEN TRUE ELSE UNCHANGED jobsVars
    /\ IF part = "plan" THEN TRUE ELSE UNCHANGED planVars
    /\ IF part = "requests" THEN TRUE ELSE UNCHANGED requestVars
    /\ UNCHANGED part

UpkeepNext ==
    /\ \/ part = "archive" /\ Next
       \/ part = "jobs" /\ JobsNext
       \/ part = "plan" /\ PlanNext
       \/ part = "requests" /\ RequestsNext
    /\ Others

allVars == <<part, vars, jobsVars, planVars, requestVars>>
UpkeepSpec == UpkeepInit /\ [][UpkeepNext]_allVars

(* The fairness of each program, in the behaviours that are its own. *)
OfArchive == part = "archive" /\ UNCHANGED <<part, jobsVars, planVars, requestVars>>
OfJobs == part = "jobs" /\ UNCHANGED <<part, vars, planVars, requestVars>>
OfPlan == part = "plan" /\ UNCHANGED <<part, vars, jobsVars, requestVars>>
OfRequests == part = "requests" /\ UNCHANGED <<part, vars, jobsVars, planVars>>
UpkeepFairSpec ==
    /\ UpkeepSpec
    /\ \A w \in Worker :
          /\ WF_vars(OfArchive /\ (StartRun(w) \/ Synthesize(w) \/ Rescore(w) \/ Finish(w)))
          /\ SF_vars(OfArchive /\ SelectPending(w) /\ queue'[w] # {})
    /\ \A i \in 1..Cardinality(Nugget) : WF_vars(OfArchive /\ i \in Id /\ AgeClaim(i))
    /\ \A c \in Console : WF_jobsVars(OfJobs /\ End(c))
    /\ \A j \in 1..JobBound : WF_jobsVars(OfJobs /\ j \in DOMAIN jobs /\ GrowOld(j))
    /\ WF_jobsVars(OfJobs /\ CycleReap)
    /\ WF_planVars(OfPlan /\ PlannedNext)
    /\ \A s \in PlanNames : WF_planVars(OfPlan /\ TreatSource(s))
    /\ \A k \in Conns : WF_requestVars(OfRequests /\ Serve(k))
=============================================================================
