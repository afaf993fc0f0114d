-------------------------------- MODULE Plan --------------------------------
(***************************************************************************)
(* The allocation of sources to ingest runs by measured yield: what the    *)
(* ledger says of each source, the plan of a run, the run that walks it,   *)
(* other runs, and the extraction that turns threads into nuggets.         *)
(* src/python/jester/scheduler.py                                          *)
(***************************************************************************)
EXTENDS Naturals, Sequences, FiniteSets, FiniteSetsExt, SequencesExt

CONSTANTS Planned,    \* the names of the enabled sources, sorted
          MinZero,    \* MIN_ZERO_YIELD_THREADS
          Worthy,     \* sources out of whose threads nuggets may come
          Springs,    \* sources that have something new for every run
          OtherRuns   \* whether runs that the plan did not choose may come between

ASSUME PlanAssumption ==
    /\ Planned \in Seq(STRING) /\ MinZero \in Nat /\ OtherRuns \in BOOLEAN
    /\ Worthy \subseteq ToSet(Planned) /\ Springs \subseteq ToSet(Planned)

VARIABLES news,      \* external: sources with a thread nobody walked
          threads,   \* distinct threads of a source in its window, MinZero standing for more
          nuggets,   \* sources with nuggets out of those threads
          untreated, \* sources with batches no extraction has read
          seq,       \* runs with a batch in the ledger; only its remainders count
          plan       \* the run under way

planVars == <<news, threads, nuggets, untreated, seq, plan>>

PlanNames == ToSet(Planned)
NoPlan == [step |-> "none", walk |-> {}, walked |-> {}, brought |-> FALSE]
Turns == FoldSet(LAMBDA n, m : n * m, 1, 1..Len(Planned))

PlanInit ==
    /\ news = Springs /\ threads = [s \in PlanNames |-> 0]
    /\ nuggets = {} /\ untreated = {} /\ seq = 0 /\ plan = NoPlan

(* _group: walked and barren.  With fewer threads it is measured further. *)
Barren == {s \in PlanNames : s \notin nuggets /\ threads[s] >= MinZero}
ZeroNames == SelectSeq(Planned, LAMBDA s : s \in Barren)

ProbeMutant(q) == IF ZeroNames = <<>> THEN {} ELSE {Head(ZeroNames)}
(* One barren source a run, in turn. *)
Probe(q) == IF ZeroNames = <<>> THEN {} ELSE {ZeroNames[(q % Len(ZeroNames)) + 1]}

(* source_plan: whatever is not barren, and the probe.  No plan, an empty
   one, or a scheduler that is off walks every source.                      *)
SourcePlan == (PlanNames \ Barren) \cup Probe(seq)
Allocated(on) == IF ~on \/ SourcePlan = {} THEN PlanNames ELSE SourcePlan

StartPlanned(on) ==
    /\ plan.step = "none"
    /\ plan' = [NoPlan EXCEPT !.step = "walking", !.walk = Allocated(on)]
    /\ UNCHANGED <<news, threads, nuggets, untreated, seq>>

(* A source with something new leaves a batch; the window may slide past the
   threads its nuggets came from.                                           *)
WalkSource(s, slides) ==
    /\ plan.step = "walking" /\ s \in plan.walk
    /\ plan' = [plan EXCEPT !.walk = @ \ {s}, !.walked = @ \cup {s}, !.brought = @ \/ s \in news]
    /\ IF s \in news
       THEN /\ threads' = [threads EXCEPT ![s] = IF @ < MinZero THEN @ + 1 ELSE @]
            /\ untreated' = untreated \cup {s}
            /\ news' = news \ ({s} \ Springs)
            /\ nuggets' = IF slides THEN nuggets \ {s} ELSE nuggets
       ELSE UNCHANGED <<threads, untreated, news, nuggets>>
    /\ UNCHANGED seq

EndPlanned ==
    /\ plan.step = "walking" /\ plan.walk = {}
    /\ plan' = NoPlan
    /\ seq' = IF plan.brought THEN (seq + 1) % Turns ELSE seq
    /\ UNCHANGED <<news, threads, nuggets, untreated>>

(* A run of one source, from the console or the command line. *)
OtherRun(s) ==
    /\ OtherRuns /\ plan.step = "none" /\ s \in news
    /\ seq' = (seq + 1) % Turns
    /\ threads' = [threads EXCEPT ![s] = IF @ < MinZero THEN @ + 1 ELSE @]
    /\ untreated' = untreated \cup {s} /\ news' = news \ ({s} \ Springs)
    /\ UNCHANGED <<nuggets, plan>>

NewThread(s) ==
    /\ s \notin news /\ news' = news \cup {s}
    /\ UNCHANGED <<threads, nuggets, untreated, seq, plan>>

TreatSource(s) ==
    /\ s \in untreated /\ untreated' = untreated \ {s}
    /\ nuggets' = IF s \in Worthy THEN nuggets \cup {s} ELSE nuggets
    /\ UNCHANGED <<news, threads, seq, plan>>

PlannedNext ==
    \/ StartPlanned(TRUE)
    \/ \E s \in PlanNames, slides \in BOOLEAN : WalkSource(s, slides)
    \/ EndPlanned
PlanNext ==
    \/ PlannedNext \/ StartPlanned(FALSE)
    \/ \E s \in PlanNames : OtherRun(s) \/ NewThread(s) \/ TreatSource(s)

PlanSpec == PlanInit /\ [][PlanNext]_planVars
(* The schedule fires, a run that has started goes on to its end, and what is
   queued is treated.                                                       *)
PlanFair == /\ WF_planVars(PlannedNext)
            /\ \A s \in PlanNames : WF_planVars(TreatSource(s))
PlanFairSpec == PlanSpec /\ PlanFair

(* Whenever a planned run starts, every source is walked then or later: the
   barren ones when their turn comes round.                                 *)
ProbedInTurn == \A s \in PlanNames : plan.step = "walking" ~> s \in plan.walked
=============================================================================
