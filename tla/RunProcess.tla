----------------------------- MODULE RunProcess -----------------------------
(***************************************************************************)
(* `jester run` (also as the second half of `cycle` and `treat`) over the  *)
(* queue, and `reembed`: the run ledger with its reaping, a bounded bite   *)
(* of the queue, extraction with a stand-in, the archivist with its vector *)
(* collection, and the settling of the batches.  Synthesis, which follows  *)
(* in the same process, is module IdeaArchive.                             *)
(***************************************************************************)
EXTENDS Queue

CONSTANTS Process,     \* processes the schedules start
          Droppable,   \* comments the second prefilter may drop
          TextOf,      \* the text of a comment, up to semantic similarity
          BiteBudget,  \* comments a run may claim; 0 is no limit
          SlowRun,     \* may a live run outlast the reap window?
          Backlog,     \* the batches queued at the start, as sets of comments
          CrashBound,  \* bound: processes that die without a word
          OutageBound  \* bound: model calls and vector calls that fail

ASSUME RunAssumption ==
    /\ Droppable \subseteq Comment /\ DOMAIN TextOf = Comment
    /\ {BiteBudget, CrashBound, OutageBound} \subseteq Nat
    /\ SlowRun \in BOOLEAN /\ Backlog \in Seq(SUBSET Comment)

VARIABLES runs,     \* the run row each process opened last, and whether it is old
          rows,     \* the nuggets table: absent, embedded, or needs_reembed
          points,   \* keys with a point in the vector collection
          dropped,  \* comments the prefilter counted out (ghost)
          bare,     \* rows inserted without a vector, ever (ghost)
          crashes, outages,
          rpc,      \* where each process is
          bite,     \* batches taken
          todo,     \* <<batch, comment>> pairs not extracted yet
          found,    \* <<batch, comment>> pairs that gave a nugget
          batchOf,  \* batch_of: the last batch a nugget's key came from
          degraded, \* degraded_batches
          deferred, \* nuggets the archivist could not check
          writing   \* the nugget being archived or re-embedded, as a set

localVars == <<rpc, bite, todo, found, batchOf, degraded, deferred, writing>>
storeVars == <<runs, rows, points, dropped, bare>>
bounds == <<crashes, outages>>
runOnly == <<storeVars, bounds, localVars>>
runVars == <<batches, skip, runOnly>>

Working == {"queue", "extract", "archive", "upsert", "insert", "insert bare", "settle",
            "skip"}
RunStage == Working \cup {"idle", "reaped", "reembed", "unflag"}
RunStatus == {"none", "running", "completed", "aborted", "error"}
Pair == (DOMAIN batches) \X Comment

Running == {p \in Process : runs[p].status = "running"}
Owned(p) == rpc[p] \in Working
Archived == {c \in Comment : rows[c] # "absent"}
SameText(c) == {d \in Comment \ {c} : TextOf[d] = TextOf[c]}

RunGoto(p, stage) == rpc' = [rpc EXCEPT ![p] = stage]
Close(p, status) == runs' = [runs EXCEPT ![p].status = status]
Fails == outages < OutageBound /\ outages' = outages + 1

LetGo(p) ==
    /\ RunGoto(p, "idle")
    /\ bite' = [bite EXCEPT ![p] = {}]
    /\ todo' = [todo EXCEPT ![p] = {}]
    /\ found' = [found EXCEPT ![p] = {}]
    /\ batchOf' = [batchOf EXCEPT ![p] = [c \in Comment |-> 0]]
    /\ degraded' = [degraded EXCEPT ![p] = {}]
    /\ deferred' = [deferred EXCEPT ![p] = {}]
    /\ writing' = [writing EXCEPT ![p] = {}]

RunInit ==
    /\ batches = [b \in DOMAIN Backlog |-> [comments |-> Backlog[b], status |-> "pending"]]
    /\ skip = UNION {Backlog[b] : b \in DOMAIN Backlog}
    /\ runs = [p \in Process |-> [status |-> "none", old |-> FALSE]]
    /\ points = {} /\ dropped = {} /\ bare = {} /\ crashes = 0 /\ outages = 0
    /\ rows = [c \in Comment |-> "absent"]
    /\ rpc = [p \in Process |-> "idle"]
    /\ bite = [p \in Process |-> {}]
    /\ todo = [p \in Process |-> {}]
    /\ found = [p \in Process |-> {}]
    /\ batchOf = [p \in Process |-> [c \in Comment |-> 0]]
    /\ degraded = [p \in Process |-> {}]
    /\ deferred = [p \in Process |-> {}]
    /\ writing = [p \in Process |-> {}]

----------------------------------------------------------------------------
(* The run ledger. *)

(* reap_running: rows still 'running' and old are taken for dead. *)
Reap(p) ==
    /\ rpc[p] = "idle" /\ RunGoto(p, "reaped")
    /\ runs' = [q \in Process |->
                  IF q \in Running /\ runs[q].old
                  THEN [runs[q] EXCEPT !.status = "aborted"] ELSE runs[q]]
    /\ UNCHANGED <<batches, skip, rows, points, dropped, bare, bounds, bite, todo, found,
                   batchOf, degraded, deferred, writing>>

StartMutant(p) ==
    /\ rpc[p] = "reaped" /\ RunGoto(p, "queue")
    /\ runs' = [runs EXCEPT ![p] = [status |-> "running", old |-> FALSE]]
    /\ UNCHANGED <<batches, skip, rows, points, dropped, bare, bounds, bite, todo, found,
                   batchOf, degraded, deferred, writing>>

(* start_run: the check and the insert are one transaction. *)
Start(p) ==
    /\ rpc[p] = "reaped" /\ RunGoto(p, "queue")
    /\ Running = {}
    /\ runs' = [runs EXCEPT ![p] = [status |-> "running", old |-> FALSE]]
    /\ UNCHANGED <<batches, skip, rows, points, dropped, bare, bounds, bite, todo, found,
                   batchOf, degraded, deferred, writing>>

(* ConcurrentRunError, or the earlier stand-down of cycle and treat. *)
Refused(p) ==
    /\ rpc[p] = "reaped" /\ RunGoto(p, "idle")
    /\ Running # {}
    /\ UNCHANGED <<batches, skip, storeVars, bounds, bite, todo, found, batchOf,
                   degraded, deferred, writing>>

----------------------------------------------------------------------------
(* A bounded bite of the queue, and its extraction. *)

(* bounded_bite: whole batches in id order, until the budget is met. *)
Before(b) == UNION {batches[a].comments \X {a} : a \in {x \in Pending : x < b}}
Bitten == {b \in Pending : BiteBudget = 0 \/ Cardinality(Before(b)) < BiteBudget}

(* What run_prefilter keeps of a batch when it drops the comments of drop.  *)
Prefiltered(b, drop) == batches[b].comments \ drop

(* The bite is read and prefiltered; both happen in memory. *)
ReadQueue(p) ==
    /\ rpc[p] = "queue" /\ RunGoto(p, "extract")
    /\ bite' = [bite EXCEPT ![p] = Bitten]
    /\ \E drop \in SUBSET Droppable :
          /\ todo' = [todo EXCEPT ![p] =
                        {e \in Pair : e[1] \in Bitten /\ e[2] \in Prefiltered(e[1], drop)}]
          /\ dropped' = dropped \cup
                (drop \cap UNION {batches[b].comments : b \in Bitten})
    /\ UNCHANGED <<batches, skip, runs, rows, points, bare, bounds, found, batchOf,
                   degraded, deferred, writing>>

Extract(p, e) ==
    /\ rpc[p] = "extract" /\ e \in todo[p] /\ \A o \in todo[p] : e[1] <= o[1]
    /\ todo' = [todo EXCEPT ![p] = @ \ {e}]
    /\ found' = [found EXCEPT ![p] = @ \cup {e}]
    /\ batchOf' = [batchOf EXCEPT ![p][e[2]] = e[1]]
    /\ UNCHANGED <<batches, skip, storeVars, bounds, rpc, bite, degraded, deferred,
                   writing>>

ExtractFailedMutant(p, e) ==
    /\ rpc[p] = "extract" /\ e \in todo[p] /\ \A o \in todo[p] : e[1] <= o[1]
    /\ Fails
    /\ todo' = [todo EXCEPT ![p] = @ \ {e}]
    /\ UNCHANGED <<batches, skip, storeVars, crashes, rpc, bite, found, batchOf,
                   degraded, deferred, writing>>

(* The stand-in answered for the model: its batch stays queued, and on a    *)
(* refused quota so do the batches of every comment not reached.            *)
ExtractFailed(p, e) ==
    /\ rpc[p] = "extract" /\ e \in todo[p] /\ \A o \in todo[p] : e[1] <= o[1]
    /\ Fails
    /\ \/ /\ todo' = [todo EXCEPT ![p] = @ \ {e}]
          /\ degraded' = [degraded EXCEPT ![p] = @ \cup {e[1]}]
       \/ /\ todo' = [todo EXCEPT ![p] = {}]
          /\ degraded' = [degraded EXCEPT ![p] = @ \cup {o[1] : o \in todo[p]}]
    /\ UNCHANGED <<batches, skip, storeVars, crashes, rpc, bite, found, batchOf,
                   deferred, writing>>

ExtractDone(p) ==
    /\ rpc[p] = "extract" /\ todo[p] = {} /\ RunGoto(p, "archive")
    /\ UNCHANGED <<batches, skip, storeVars, bounds, bite, todo, found, batchOf,
                   degraded, deferred, writing>>

----------------------------------------------------------------------------
(* The archivist, one nugget at a time. *)

NextFound(p, e) == e \in found[p] /\ \A o \in found[p] : e[1] <= o[1]

(* A match counts only when a row stands behind it: a point whose insert     *)
(* never landed is a ghost, and a point under the nugget's own key is itself *)
Duplicate(c) == points \cap SameText(c) \cap Archived # {}

Refuse(p, e) ==
    /\ rpc[p] = "archive" /\ NextFound(p, e)
    /\ (e[2] \in Archived \/ Duplicate(e[2]))
    /\ found' = [found EXCEPT ![p] = @ \ {e}]
    /\ UNCHANGED <<batches, skip, storeVars, bounds, rpc, bite, todo, batchOf,
                   degraded, deferred, writing>>

(* The lookup failed: neither archived nor dropped. *)
Defer(p, e) ==
    /\ rpc[p] = "archive" /\ NextFound(p, e)
    /\ e[2] \notin Archived
    /\ Fails
    /\ found' = [found EXCEPT ![p] = @ \ {e}]
    /\ deferred' = [deferred EXCEPT ![p] = @ \cup {e[2]}]
    /\ UNCHANGED <<batches, skip, storeVars, crashes, rpc, bite, todo, batchOf,
                   degraded, writing>>

Admit(p, e) ==
    /\ rpc[p] = "archive" /\ NextFound(p, e)
    /\ e[2] \notin Archived /\ ~Duplicate(e[2])
    /\ found' = [found EXCEPT ![p] = @ \ {e}]
    /\ writing' = [writing EXCEPT ![p] = {e[2]}]
    /\ RunGoto(p, "upsert")
    /\ UNCHANGED <<batches, skip, storeVars, bounds, bite, todo, batchOf, degraded,
                   deferred>>

(* The point is written before the row; a call that failed may have landed. *)
Upsert(p) ==
    /\ rpc[p] = "upsert"
    /\ \/ /\ points' = points \cup writing[p] /\ RunGoto(p, "insert")
          /\ UNCHANGED outages
       \/ /\ Fails /\ RunGoto(p, "insert bare")
          /\ points' \in {points, points \cup writing[p]}
    /\ UNCHANGED <<batches, skip, runs, rows, dropped, bare, crashes, bite, todo, found,
                   batchOf, degraded, deferred, writing>>

InsertMutant(p) ==
    /\ rpc[p] \in {"insert", "insert bare"} /\ RunGoto(p, "archive")
    /\ rows' = [c \in Comment |-> IF c \in writing[p] \ Archived THEN "embedded" ELSE rows[c]]
    /\ writing' = [writing EXCEPT ![p] = {}]
    /\ UNCHANGED <<batches, skip, runs, points, dropped, bare, bounds, bite, todo, found,
                   batchOf, degraded, deferred>>

(* insert_nugget is INSERT OR IGNORE on the key; a row without a vector is   *)
(* flagged.                                                                  *)
Insert(p) ==
    /\ rpc[p] \in {"insert", "insert bare"} /\ RunGoto(p, "archive")
    /\ rows' = [c \in Comment |->
                  IF c \in writing[p] \ Archived
                  THEN IF rpc[p] = "insert" THEN "embedded" ELSE "flagged"
                  ELSE rows[c]]
    /\ bare' = IF rpc[p] = "insert bare" THEN bare \cup (writing[p] \ Archived) ELSE bare
    /\ writing' = [writing EXCEPT ![p] = {}]
    /\ UNCHANGED <<batches, skip, runs, points, dropped, bounds, bite, todo, found,
                   batchOf, degraded, deferred>>

(* A deferred nugget keeps the batch it came from in the queue. *)
ArchiveDone(p) ==
    /\ rpc[p] = "archive" /\ found[p] = {} /\ RunGoto(p, "settle")
    /\ degraded' = [degraded EXCEPT ![p] = @ \cup {batchOf[p][c] : c \in deferred[p]}]
    /\ UNCHANGED <<batches, skip, storeVars, bounds, bite, todo, found, batchOf,
                   deferred, writing>>

----------------------------------------------------------------------------
(* Settling: the batch is marked done, then its comments are put on the     *)
(* skip-list, each in a commit of its own.                                  *)

Settling(p) == bite[p] \ degraded[p]
NextToSettle(p, b) == b \in Settling(p) /\ \A a \in Settling(p) : b <= a

MarkDone(p, b) ==
    /\ rpc[p] = "settle" /\ NextToSettle(p, b)
    /\ MarkProcessed(b)
    /\ RunGoto(p, "skip")
    /\ writing' = [writing EXCEPT ![p] = batches[b].comments]
    /\ bite' = [bite EXCEPT ![p] = @ \ {b}]
    /\ UNCHANGED <<skip, storeVars, bounds, todo, found, batchOf, degraded, deferred>>

MarkSkip(p) ==
    /\ rpc[p] = "skip" /\ RunGoto(p, "settle")
    /\ MarkIngested(writing[p])
    /\ writing' = [writing EXCEPT ![p] = {}]
    /\ UNCHANGED <<batches, storeVars, bounds, bite, todo, found, batchOf, degraded,
                   deferred>>

(* finish_run closes the row whatever it says by now. *)
Finish(p) ==
    /\ rpc[p] = "settle" /\ Settling(p) = {}
    /\ Close(p, "completed") /\ LetGo(p)
    /\ UNCHANGED <<batches, skip, rows, points, dropped, bare, bounds>>

(* An exception ends the process, which closes the run it owns itself. *)
Raise(p) ==
    /\ Owned(p) /\ Fails
    /\ Close(p, "error") /\ LetGo(p)
    /\ UNCHANGED <<batches, skip, rows, points, dropped, bare, crashes>>

(* It is killed: the row stays 'running'. *)
Die(p) ==
    /\ rpc[p] \notin {"idle", "reaped"} /\ crashes < CrashBound
    /\ crashes' = crashes + 1
    /\ LetGo(p)
    /\ UNCHANGED <<batches, skip, storeVars, outages>>

(* The reap window goes by; a live run is past it only when SlowRun. *)
Age(p) ==
    /\ p \in Running /\ ~runs[p].old
    /\ SlowRun \/ ~Owned(p)
    /\ runs' = [runs EXCEPT ![p].old = TRUE]
    /\ UNCHANGED <<batches, skip, rows, points, dropped, bare, bounds, localVars>>

----------------------------------------------------------------------------
(* reembed: refused while a run is on; then point by point, row by row. *)

StartReembed(p) ==
    /\ rpc[p] = "idle" /\ Running = {} /\ RunGoto(p, "reembed")
    /\ \E c \in Comment : rows[c] = "flagged"
    /\ deferred' = [deferred EXCEPT ![p] = {c \in Comment : rows[c] = "flagged"}]
    /\ UNCHANGED <<batches, skip, storeVars, bounds, bite, todo, found, batchOf,
                   degraded, writing>>

ReembedPoint(p, c) ==
    /\ rpc[p] = "reembed" /\ c \in deferred[p]
    /\ deferred' = [deferred EXCEPT ![p] = @ \ {c}]
    /\ \/ /\ points' = points \cup {c} /\ RunGoto(p, "unflag")
          /\ writing' = [writing EXCEPT ![p] = {c}]
          /\ UNCHANGED outages
       \/ Fails /\ UNCHANGED <<points, rpc, writing>>
    /\ UNCHANGED <<batches, skip, runs, rows, dropped, bare, crashes, bite, todo, found,
                   batchOf, degraded>>

(* mark_reembedded *)
ReembedRow(p) ==
    /\ rpc[p] = "unflag" /\ RunGoto(p, "reembed")
    /\ rows' = [c \in Comment |-> IF c \in writing[p] THEN "embedded" ELSE rows[c]]
    /\ writing' = [writing EXCEPT ![p] = {}]
    /\ UNCHANGED <<batches, skip, runs, points, dropped, bare, bounds, bite, todo, found,
                   batchOf, degraded, deferred>>

ReembedDone(p) ==
    /\ rpc[p] = "reembed" /\ deferred[p] = {}
    /\ LetGo(p)
    /\ UNCHANGED <<batches, skip, storeVars, bounds>>

----------------------------------------------------------------------------
RunStep(p) ==
    \/ Start(p) \/ Refused(p) \/ ReadQueue(p) \/ ExtractDone(p)
    \/ \E e \in todo[p] : Extract(p, e)
    \/ \E e \in found[p] : Refuse(p, e) \/ Admit(p, e)
    \/ Upsert(p) \/ Insert(p) \/ ArchiveDone(p)
    \/ (\E b \in bite[p] : MarkDone(p, b)) \/ MarkSkip(p) \/ Finish(p)
    \/ (\E c \in deferred[p] : ReembedPoint(p, c)) \/ ReembedRow(p) \/ ReembedDone(p)

RunNext ==
    \E p \in Process :
        \/ Reap(p) \/ RunStep(p)
        \/ (\E e \in todo[p] : ExtractFailed(p, e)) \/ (\E e \in found[p] : Defer(p, e))
        \/ Raise(p) \/ Die(p) \/ Age(p) \/ StartReembed(p)

RunSpec == RunInit /\ [][RunNext]_runVars

(* The schedule ticks for ever, a process that lives keeps going, a dead    *)
(* run's row grows old.                                                     *)
RunFair ==
    \A p \in Process :
        /\ WF_runVars(Reap(p)) /\ WF_runVars(RunStep(p))
        /\ WF_runVars(~Owned(p) /\ Age(p))
RunFairSpec == RunSpec /\ RunFair

----------------------------------------------------------------------------
(* Properties *)

LedgerTypes ==
    /\ runs \in [Process -> [status : RunStatus, old : BOOLEAN]]
    /\ crashes \in 0..CrashBound
    /\ outages \in 0..OutageBound
StoreTypes ==
    /\ rows \in [Comment -> {"absent", "embedded", "flagged"}]
    /\ points \subseteq Comment
    /\ dropped \subseteq Comment
    /\ bare \subseteq Archived
BiteTypes ==
    /\ rpc \in [Process -> RunStage]
    /\ bite \in [Process -> SUBSET DOMAIN batches]
    /\ degraded \in [Process -> SUBSET ({0} \cup DOMAIN batches)]
WorkTypes ==
    /\ todo \in [Process -> SUBSET Pair]
    /\ found \in [Process -> SUBSET Pair]
    /\ batchOf \in [Process -> [Comment -> {0} \cup DOMAIN batches]]
    /\ deferred \in [Process -> SUBSET Comment]
    /\ writing \in [Process -> SUBSET Comment]
RunTypeOK == QueueTypeOK /\ LedgerTypes /\ StoreTypes /\ BiteTypes /\ WorkTypes

(* A comment in a batch marked done was filtered out, or a row with its text *)
(* is in the archive, or another batch that holds it is still queued: no     *)
(* stand-in, failed lookup, ghost point, crash or second process loses it.   *)
Kept1(c) == c \in dropped \/ c \in Archived \/ SameText(c) \cap Archived # {}
NothingDropped ==
    \A b \in Done : \A c \in batches[b].comments :
        Kept1(c) \/ \E a \in Pending : c \in batches[a].comments

(* Every row has a point in the vector collection or is flagged for reembed. *)
VectorOrFlag == \A c \in Comment : rows[c] = "embedded" => c \in points

(* No failure, crash or overlapping run costs a batch its comments: each is  *)
(* kept or still owed, and what is kept can be found or is flagged.          *)
BatchesAreKept == NothingDropped /\ VectorOrFlag

(* Of two rows with the same text one went in without a vector to be found   *)
(* by: a crash between point and row, a ghost point or a batch that is       *)
(* processed again makes no duplicate.                                       *)
TextKeptOnce ==
    \A c \in Archived : \A d \in SameText(c) \cap Archived : {c, d} \cap bare # {}

(* One process at a time between start_run and the end of its run.           *)
SingleFlight == \A p, q \in Process : Owned(p) /\ Owned(q) => p = q

(* Nothing is done twice: neither a run beside another nor a text archived   *)
(* again, through kills, ghost points and redeliveries.                      *)
NothingTwice == SingleFlight /\ TextKeptOnce

=============================================================================
