-------------------------------- MODULE Jobs --------------------------------
(***************************************************************************)
(* Long operations started from a console: one thread per console process, *)
(* a row in the jobs table, and the reaping of rows nobody works on, by    *)
(* the next start in any console and by every tick of `cycle`.             *)
(***************************************************************************)
EXTENDS Naturals, Sequences

CONSTANTS Console,     \* console processes over one archive
          SlowJob,     \* may a live job outlast the reap window?
          JobBound,    \* bound: rows
          RestartBound   \* bound: restarts, and threads that could not write

ASSUME JobsAssumption == SlowJob \in BOOLEAN /\ {JobBound, RestartBound} \subseteq Nat

VARIABLES jobs,      \* the jobs table, and whether a row is past the window
          jobThread, \* the row each console's live thread works on; 0: no thread
          starting,  \* consoles inside start_job, past its reaping
          restarts

jobsVars == <<jobs, jobThread, starting, restarts>>

WorkedOn(j) == \E c \in Console : jobThread[c] = j
UpdateRow(j, status) == jobs' = [jobs EXCEPT ![j].status = status]

(* reap_stale_jobs *)
Reaped(table) ==
    [j \in DOMAIN table |->
        IF table[j].status = "running" /\ table[j].old
        THEN [table[j] EXCEPT !.status = "gone"] ELSE table[j]]

JobsInit ==
    /\ jobs = <<>> /\ starting = {} /\ restarts = 0
    /\ jobThread = [c \in Console |-> 0]

(* start_job: refused while this console's thread is alive; reaping and the *)
(* new row are commits of their own, under the process lock.                *)
StartReap(c) ==
    /\ jobThread[c] = 0 /\ c \notin starting
    /\ starting' = starting \cup {c}
    /\ jobs' = Reaped(jobs)
    /\ UNCHANGED <<jobThread, restarts>>

StartThread(c) ==
    /\ c \in starting /\ starting' = starting \ {c}
    /\ Len(jobs) < JobBound
    /\ jobs' = Append(jobs, [status |-> "running", old |-> FALSE])
    /\ jobThread' = [jobThread EXCEPT ![c] = Len(jobs) + 1]
    /\ UNCHANGED restarts

(* The operation returned or raised; the row is closed whatever it says.    *)
End(c) ==
    /\ jobThread[c] # 0
    /\ \E status \in {"done", "error"} : UpdateRow(jobThread[c], status)
    /\ jobThread' = [jobThread EXCEPT ![c] = 0]
    /\ UNCHANGED <<starting, restarts>>

(* The archive stays locked past both updates: the thread ends without one. *)
EndUnwritten(c) ==
    /\ jobThread[c] # 0 /\ restarts < RestartBound
    /\ restarts' = restarts + 1
    /\ jobThread' = [jobThread EXCEPT ![c] = 0]
    /\ UNCHANGED <<jobs, starting>>

(* The console is restarted; its daemon thread dies with it.               *)
Restart(c) ==
    /\ restarts < RestartBound /\ restarts' = restarts + 1
    /\ jobThread' = [jobThread EXCEPT ![c] = 0]
    /\ starting' = starting \ {c}
    /\ UNCHANGED jobs

CycleReapMutant == UNCHANGED jobsVars
(* cmd_cycle, _reap_stale_jobs *)
CycleReap ==
    /\ jobs' = Reaped(jobs)
    /\ UNCHANGED <<jobThread, starting, restarts>>

(* Two hours go by. *)
GrowOld(j) ==
    /\ ~jobs[j].old /\ (SlowJob \/ ~WorkedOn(j))
    /\ jobs' = [jobs EXCEPT ![j].old = TRUE]
    /\ UNCHANGED <<jobThread, starting, restarts>>

JobsNext ==
    \/ \E c \in Console :
          StartReap(c) \/ StartThread(c) \/ End(c) \/ EndUnwritten(c) \/ Restart(c)
    \/ CycleReap
    \/ \E j \in DOMAIN jobs : GrowOld(j)

JobsSpec == JobsInit /\ [][JobsNext]_jobsVars

(* Threads end, time goes by, and the schedule ticks.                       *)
JobsFair ==
    /\ \A c \in Console : WF_jobsVars(End(c))
    /\ \A j \in 1..JobBound : WF_jobsVars(j \in DOMAIN jobs /\ GrowOld(j))
    /\ WF_jobsVars(CycleReap)
JobsFairSpec == JobsSpec /\ JobsFair

----------------------------------------------------------------------------
(* Properties *)

(* Every row the console shows as running is closed in the end, by its       *)
(* thread or by a reaping, whatever restarts or could not write.           *)
JobsSettle == \A j \in 1..JobBound :
    (j \in DOMAIN jobs ~> j \in DOMAIN jobs /\ jobs[j].status # "running")
=============================================================================
