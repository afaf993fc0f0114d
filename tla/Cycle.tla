------------------------------- MODULE Cycle -------------------------------
(***************************************************************************)
(* One turn of the loop: a scheduled cycle or ingest, or a press of the    *)
(* console's button, fetches with the worker, exports what was seen, and   *)
(* processes what is queued; turns overlap, a worker is killed at its      *)
(* timeout, and a turn may be killed anywhere.                             *)
(* src/python/jester/cli.py, worker.py, console/api.py                     *)
(***************************************************************************)
EXTENDS Naturals, FiniteSets

CONSTANTS Turns,        \* processes that may be at a turn
          QueueCeiling, \* batches that stand an ingest down
          FetchBound,   \* batches one fetch may bring
          CycleBound, CycleKills

ASSUME CycleAssumption == {QueueCeiling, FetchBound, CycleBound, CycleKills} \subseteq Nat

VARIABLES waiting,   \* pending batches
          atWork,    \* per process: its verb, whether it fetches and live, how far it is
          holder,    \* the process whose run is 'running'; {} for none
          started, killed,
          seedings,  \* ghost: the turns that have queued the canned fixture
          unsheeted  \* ghost: processes whose fetch failed on rows no sheet shows yet

cycleVars == <<waiting, atWork, holder, started, killed, seedings, unsheeted>>

NoWork == [verb |-> "none", step |-> "rest", fetches |-> FALSE, live |-> FALSE, brought |-> 0]
CycleInit ==
    /\ waiting = 0 /\ atWork = [p \in Turns |-> NoWork] /\ holder = {}
    /\ started = 0 /\ killed = 0 /\ seedings = {} /\ unsheeted = {}

In(p, step) == atWork[p].step = step
GoesTo(p, step) == atWork' = [atWork EXCEPT ![p].step = step]
Rests(p) == atWork' = [atWork EXCEPT ![p] = NoWork]
Takes(p, turn) == /\ In(p, "rest") /\ started < CycleBound /\ started' = started + 1
                  /\ atWork' = [atWork EXCEPT ![p] = turn]

(* A cycle reaps the run of a process that is gone, and stands down while
   another is at work: before it fetches.                                    *)
CycleStands(p) == holder # {}
StartTick(p, live) ==
    /\ ~CycleStands(p)
    /\ Takes(p, [NoWork EXCEPT !.verb = "cycle", !.step = "fetch", !.fetches = TRUE, !.live = live])
    /\ UNCHANGED <<waiting, holder, killed, seedings, unsheeted>>

(* An ingest stands down when the queue is too deep; a queue that could not be
   measured does not keep it from collecting.                                  *)
StartIngest(p, live, measured) ==
    /\ measured => waiting < QueueCeiling
    /\ Takes(p, [NoWork EXCEPT !.verb = "ingest", !.step = "fetch", !.fetches = TRUE, !.live = live])
    /\ UNCHANGED <<waiting, holder, killed, seedings, unsheeted>>

(* run_pipeline: with a fetch of the sources that were named, or without. *)
Press(p, fetches, live) ==
    /\ Takes(p, [NoWork EXCEPT !.verb = "press", !.fetches = fetches, !.live = live,
                                !.step = IF fetches THEN "fetch" ELSE "run"])
    /\ UNCHANGED <<waiting, holder, killed, seedings, unsheeted>>

-----------------------------------------------------------------------------
(* The fetch: worker.ingest                                                *)

(* The worker queues batches and writes what it sees as it walks. *)
WorkerBrings(p) ==
    /\ In(p, "fetch") /\ atWork[p].brought < FetchBound
    /\ atWork' = [atWork EXCEPT ![p].brought = @ + 1]
    /\ waiting' = waiting + 1
    /\ UNCHANGED <<holder, started, killed, seedings, unsheeted>>

(* It ends well; a cycle goes on to its run, which exports at its end. *)
WorkerEnds(p) ==
    /\ In(p, "fetch") /\ GoesTo(p, IF atWork[p].verb = "ingest" THEN "export" ELSE "run")
    /\ UNCHANGED <<waiting, holder, started, killed, seedings, unsheeted>>

(* It could not be started, failed, or was killed at its timeout: no run is
   made of it, but what it had seen is exported, by the commands.            *)
FailedFetchMutant(p) == IF atWork[p].verb = "ingest" THEN "export" ELSE "rest"
FailedFetch(p) == IF atWork[p].verb = "press" THEN "rest" ELSE "export"
WorkerFails(p) ==
    /\ In(p, "fetch")
    /\ IF FailedFetch(p) = "rest" THEN Rests(p) ELSE GoesTo(p, FailedFetch(p))
    /\ unsheeted' = IF atWork[p].brought > 0 /\ atWork[p].verb # "press" THEN unsheeted \cup {p} ELSE unsheeted
    /\ UNCHANGED <<waiting, holder, started, killed, seedings>>

(* _export_csvs: of the whole archive, whoever wrote it; it never fails its caller. *)
ExportCsvs(p) ==
    /\ In(p, "export") /\ Rests(p) /\ unsheeted' = {}
    /\ UNCHANGED <<waiting, holder, started, killed, seedings>>

-----------------------------------------------------------------------------
(* The run: cmd_run                                                        *)

(* A run that meets another is refused, and its turn ends in an error. *)
StartPipeline(p) ==
    /\ In(p, "run")
    /\ IF holder # {} THEN Rests(p) /\ UNCHANGED holder
       ELSE GoesTo(p, "queue") /\ holder' = {p}
    /\ UNCHANGED <<waiting, started, killed, seedings, unsheeted>>

(* The canned fixture stands in for an empty queue, but never for a live fetch
   that brought nothing.                                                       *)
MaySeedFixtures(p) == IF atWork[p].verb = "cycle" THEN ~atWork[p].live ELSE ~atWork[p].fetches
ReadQueue(p) ==
    /\ In(p, "queue") /\ GoesTo(p, "settle")
    /\ IF waiting = 0 /\ MaySeedFixtures(p)
       THEN waiting' = 1 /\ seedings' = seedings \cup {atWork[p]}
       ELSE UNCHANGED <<waiting, seedings>>
    /\ UNCHANGED <<holder, started, killed, unsheeted>>

(* The bite it takes is settled, the run closed, and the archive exported. *)
SettleQueue(p, left) ==
    /\ In(p, "settle") /\ left <= waiting /\ waiting' = left
    /\ holder' = {} /\ GoesTo(p, "export")
    /\ UNCHANGED <<started, killed, seedings, unsheeted>>

(* A turn is killed; its run stays 'running' until it is reaped. *)
TurnKilled(p) ==
    /\ ~In(p, "rest") /\ killed < CycleKills /\ killed' = killed + 1
    /\ Rests(p) /\ unsheeted' = unsheeted \ {p} /\ UNCHANGED <<waiting, holder, started, seedings>>
ReapRun == /\ \E p \in holder : In(p, "rest")
           /\ holder' = {} /\ UNCHANGED <<waiting, atWork, started, killed, seedings, unsheeted>>

CycleNext ==
    \/ ReapRun
    \/ \E p \in Turns :
          \/ \E live \in BOOLEAN :
                \/ StartTick(p, live)
                \/ \E measured \in BOOLEAN : StartIngest(p, live, measured)
                \/ \E fetches \in BOOLEAN : Press(p, fetches, live)
          \/ WorkerBrings(p) \/ WorkerEnds(p) \/ WorkerFails(p) \/ ExportCsvs(p)
          \/ StartPipeline(p) \/ ReadQueue(p) \/ TurnKilled(p)
          \/ \E left \in 0..waiting : SettleQueue(p, left)

(* What a turn leaves behind is what it did: the canned fixture is never queued
   by a turn that had fetched live, whatever other turns drained the queue
   meanwhile, and a command whose fetch failed ends only when the rows the
   fetch had seen are in the sheets.                                           *)
TickIsHonest ==
    /\ \A t \in seedings : ~(t.fetches /\ t.live)
    /\ \A p \in unsheeted : ~In(p, "rest")

CycleSpec == CycleInit /\ [][CycleNext]_cycleVars
=============================================================================
