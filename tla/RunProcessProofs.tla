-------------------------- MODULE RunProcessProofs --------------------------
(***************************************************************************)
(* A comment in a batch marked done is answered for, and a row has a vector *)
(* or a flag, for any number of runs over one queue, whether or not they    *)
(* overlap, and any number of crashes and failed calls.  With the worker    *)
(* that fills the queue the two programs implement module Custody.          *)
(***************************************************************************)
EXTENDS Pipeline, TLAPS

Resting == {"idle", "reaped", "queue", "reembed", "unflag"}
Storing == {"upsert", "insert", "insert bare"}
Archiving == {"archive"} \cup Storing
Closing == {"settle", "skip"}

(* A comment of batch b is answered for, or a later batch holds it too. *)
Later(b, c) == \E a \in DOMAIN batches : a > b /\ c \in batches[a].comments
Answered(b, c) == Kept1(c) \/ Later(b, c)

(* What a process still has to do for comment c of batch b. *)
Open(p, b, c) ==
    \/ <<b, c>> \in todo[p] \cup found[p]
    \/ rpc[p] \in Storing /\ c \in writing[p]
    \/ rpc[p] \in Archiving /\ c \in deferred[p] /\ batchOf[p][c] = b

Cleared(p) ==
    /\ rpc[p] \in Resting => bite[p] = {} /\ found[p] = {} /\ todo[p] = {}
    /\ rpc[p] \in Archiving \cup Closing => todo[p] = {}
    /\ rpc[p] \in Closing => found[p] = {}
Real(p) == \A e \in todo[p] \cup found[p] : e[2] \in batches[e[1]].comments
(* batch_of names the last batch a found comment came from. *)
Ordered(p) ==
    \A f \in found[p] :
        LET last == batchOf[p][f[2]]
        IN  /\ last \in DOMAIN batches /\ f[1] <= last
            /\ f[2] \in batches[last].comments
            /\ \A e \in todo[p] : f[1] <= e[1]
Tracked(p) ==
    \A b \in bite[p] \ degraded[p] : \A c \in batches[b].comments :
        Answered(b, c) \/ Open(p, b, c)
PointFirst(p) == rpc[p] \in {"insert", "unflag"} => writing[p] \subseteq points

LocalInv(p) == Cleared(p) /\ Real(p) /\ Ordered(p) /\ Tracked(p) /\ PointFirst(p)

(* Two processes may each leave a comment to the other's batch, so what is   *)
(* owed always moves to a batch further back in the queue.                   *)
OwedLater ==
    \A b \in Done : \A c \in batches[b].comments :
        Kept1(c) \/ \E a \in Pending : a > b /\ c \in batches[a].comments

RunInv == RunTypeOK /\ (\A p \in Process : LocalInv(p)) /\ OwedLater /\ VectorOrFlag

----------------------------------------------------------------------------
(* What the types say of a pair. *)
LEMMA PairFacts ==
    ASSUME RunTypeOK, NEW p \in Process, NEW e \in todo[p] \cup found[p]
    PROVE  e = <<e[1], e[2]>> /\ e[1] \in DOMAIN batches /\ e[2] \in Comment /\ e \in Pair
<1>1. todo[p] \subseteq Pair /\ found[p] \subseteq Pair
  BY DEF RunTypeOK, WorkTypes
<1>2. e \in (DOMAIN batches) \X Comment
  BY <1>1 DEF Pair
<1> QED
  BY <1>2 DEF Pair

(* Every step keeps the types. *)
LEMMA RunTypeStep ==
    ASSUME RunTypeOK, [RunNext]_runVars
    PROVE  RunTypeOK'
<1> USE RunAssumption, QueueAssumption
<1>0. QueueTypeOK /\ LedgerTypes /\ StoreTypes /\ BiteTypes /\ WorkTypes
  BY DEF RunTypeOK
<1>1. ASSUME NEW p \in Process, Reap(p)
      PROVE  RunTypeOK'
  <2>0. DOMAIN batches' = DOMAIN batches /\ Pair' = Pair
    BY <1>0, <1>1 DEF Reap, Pair, QueueTypeOK, storeVars, bounds
  <2>1. runs' \in [Process -> [status : RunStatus, old : BOOLEAN]]
    BY <1>0, <1>1, <2>0 DEF Reap, LedgerTypes, RunStatus
  <2>2. rpc' \in [Process -> RunStage]
    BY <1>0, <1>1, <2>0 DEF Reap, BiteTypes, RunGoto, RunStage, Working
  <2> QED
    BY <1>0, <1>1, <2>0, <2>1, <2>2
       DEF Reap, storeVars, bounds, localVars, RunTypeOK, QueueTypeOK, LedgerTypes, StoreTypes, Archived, BiteTypes, WorkTypes
<1>2. ASSUME NEW p \in Process, Age(p)
      PROVE  RunTypeOK'
  <2>0. DOMAIN batches' = DOMAIN batches /\ Pair' = Pair
    BY <1>0, <1>2 DEF Age, Pair, QueueTypeOK, storeVars, bounds
  <2>1. runs' \in [Process -> [status : RunStatus, old : BOOLEAN]]
    BY <1>0, <1>2, <2>0 DEF Age, LedgerTypes, RunStatus
  <2> QED
    BY <1>0, <1>2, <2>0, <2>1
       DEF Age, storeVars, bounds, localVars, RunTypeOK, QueueTypeOK, LedgerTypes, StoreTypes, Archived, BiteTypes, WorkTypes
<1>3. ASSUME NEW p \in Process, Start(p)
      PROVE  RunTypeOK'
  <2>0. DOMAIN batches' = DOMAIN batches /\ Pair' = Pair
    BY <1>0, <1>3 DEF Start, Pair, QueueTypeOK, storeVars, bounds
  <2>1. runs' \in [Process -> [status : RunStatus, old : BOOLEAN]]
    BY <1>0, <1>3, <2>0 DEF Start, LedgerTypes, RunStatus
  <2>2. rpc' \in [Process -> RunStage]
    BY <1>0, <1>3, <2>0 DEF Start, BiteTypes, RunGoto, RunStage, Working
  <2> QED
    BY <1>0, <1>3, <2>0, <2>1, <2>2
       DEF Start, storeVars, bounds, localVars, RunTypeOK, QueueTypeOK, LedgerTypes, StoreTypes, Archived, BiteTypes, WorkTypes
<1>4. ASSUME NEW p \in Process, Refused(p)
      PROVE  RunTypeOK'
  <2>0. DOMAIN batches' = DOMAIN batches /\ Pair' = Pair
    BY <1>0, <1>4 DEF Refused, Pair, QueueTypeOK, storeVars, bounds
  <2>1. rpc' \in [Process -> RunStage]
    BY <1>0, <1>4, <2>0 DEF Refused, BiteTypes, RunGoto, RunStage, Working
  <2> QED
    BY <1>0, <1>4, <2>0, <2>1
       DEF Refused, storeVars, bounds, localVars, RunTypeOK, QueueTypeOK, LedgerTypes, StoreTypes, Archived, BiteTypes, WorkTypes
<1>5. ASSUME NEW p \in Process, ReadQueue(p)
      PROVE  RunTypeOK'
  <2>0. DOMAIN batches' = DOMAIN batches /\ Pair' = Pair
    BY <1>0, <1>5 DEF ReadQueue, Pair, QueueTypeOK, storeVars, bounds
  <2>1. rpc' \in [Process -> RunStage]
    BY <1>0, <1>5, <2>0 DEF ReadQueue, BiteTypes, RunGoto, RunStage, Working
  <2>2. bite' \in [Process -> SUBSET DOMAIN batches]
    BY <1>0, <1>5, <2>0 DEF ReadQueue, BiteTypes, Bitten, Pending, Pair
  <2>3. todo' \in [Process -> SUBSET Pair]
    BY <1>0, <1>5, <2>0 DEF ReadQueue, WorkTypes, Bitten, Pending, Pair
  <2>4. dropped' \subseteq Comment
    BY <1>0, <1>5, <2>0 DEF ReadQueue, StoreTypes, Bitten, Pending
  <2> QED
    BY <1>0, <1>5, <2>0, <2>1, <2>2, <2>3, <2>4
       DEF ReadQueue, storeVars, bounds, localVars, RunTypeOK, QueueTypeOK, LedgerTypes, StoreTypes, Archived, BiteTypes, WorkTypes
<1>6. ASSUME NEW p \in Process, NEW e \in todo[p], Extract(p, e)
      PROVE  RunTypeOK'
  <2>0. DOMAIN batches' = DOMAIN batches /\ Pair' = Pair
    BY <1>0, <1>6 DEF Extract, Pair, QueueTypeOK, storeVars, bounds
  <2>1. e \in Pair /\ e[1] \in DOMAIN batches /\ e[2] \in Comment
    BY PairFacts
  <2>2. todo' \in [Process -> SUBSET Pair]
    BY <1>0, <1>6, <2>0, <2>1 DEF Extract, WorkTypes
  <2>3. found' \in [Process -> SUBSET Pair]
    BY <1>0, <1>6, <2>0, <2>1 DEF Extract, WorkTypes
  <2>4. batchOf' \in [Process -> [Comment -> {0} \cup DOMAIN batches]]
    BY <1>0, <1>6, <2>0, <2>1 DEF Extract, WorkTypes
  <2> QED
    BY <1>0, <1>6, <2>0, <2>2, <2>3, <2>4
       DEF Extract, storeVars, bounds, localVars, RunTypeOK, QueueTypeOK, LedgerTypes, StoreTypes, Archived, BiteTypes, WorkTypes
<1>7. ASSUME NEW p \in Process, NEW e \in todo[p], ExtractFailed(p, e)
      PROVE  RunTypeOK'
  <2>0. DOMAIN batches' = DOMAIN batches /\ Pair' = Pair
    BY <1>0, <1>7 DEF ExtractFailed, Fails, Pair, QueueTypeOK, storeVars, bounds
  <2>1. e \in Pair /\ e[1] \in DOMAIN batches /\ e[2] \in Comment
    BY PairFacts
  <2>2. outages' \in 0..OutageBound
    BY <1>0, <1>7, <2>0, <2>1 DEF ExtractFailed, Fails, LedgerTypes
  <2>3. todo' \in [Process -> SUBSET Pair]
    BY <1>0, <1>7, <2>0, <2>1 DEF ExtractFailed, WorkTypes, Pair
  <2>4. degraded' \in [Process -> SUBSET ({0} \cup DOMAIN batches)]
    <3>1. \A o \in todo[p] : o[1] \in DOMAIN batches
      BY PairFacts
    <3>2. {o[1] : o \in todo[p]} \subseteq DOMAIN batches
      BY <3>1
    <3> QED
      BY <1>0, <1>7, <2>0, <2>1, <3>2 DEF ExtractFailed, BiteTypes
  <2> QED
    BY <1>0, <1>7, <2>0, <2>2, <2>3, <2>4
       DEF ExtractFailed, Fails, storeVars, bounds, localVars, RunTypeOK, QueueTypeOK, LedgerTypes, StoreTypes, Archived, BiteTypes, WorkTypes
<1>8. ASSUME NEW p \in Process, ExtractDone(p)
      PROVE  RunTypeOK'
  <2>0. DOMAIN batches' = DOMAIN batches /\ Pair' = Pair
    BY <1>0, <1>8 DEF ExtractDone, Pair, QueueTypeOK, storeVars, bounds
  <2>1. rpc' \in [Process -> RunStage]
    BY <1>0, <1>8, <2>0 DEF ExtractDone, BiteTypes, RunGoto, RunStage, Working
  <2> QED
    BY <1>0, <1>8, <2>0, <2>1
       DEF ExtractDone, storeVars, bounds, localVars, RunTypeOK, QueueTypeOK, LedgerTypes, StoreTypes, Archived, BiteTypes, WorkTypes
<1>9. ASSUME NEW p \in Process, NEW e \in found[p], Refuse(p, e)
      PROVE  RunTypeOK'
  <2>0. DOMAIN batches' = DOMAIN batches /\ Pair' = Pair
    BY <1>0, <1>9 DEF Refuse, Pair, QueueTypeOK, storeVars, bounds
  <2>1. e \in Pair /\ e[1] \in DOMAIN batches /\ e[2] \in Comment
    BY PairFacts
  <2>2. found' \in [Process -> SUBSET Pair]
    BY <1>0, <1>9, <2>0, <2>1 DEF Refuse, WorkTypes
  <2> QED
    BY <1>0, <1>9, <2>0, <2>2
       DEF Refuse, storeVars, bounds, localVars, RunTypeOK, QueueTypeOK, LedgerTypes, StoreTypes, Archived, BiteTypes, WorkTypes
<1>10. ASSUME NEW p \in Process, NEW e \in found[p], Defer(p, e)
      PROVE  RunTypeOK'
  <2>0. DOMAIN batches' = DOMAIN batches /\ Pair' = Pair
    BY <1>0, <1>10 DEF Defer, Fails, Pair, QueueTypeOK, storeVars, bounds
  <2>1. e \in Pair /\ e[1] \in DOMAIN batches /\ e[2] \in Comment
    BY PairFacts
  <2>2. outages' \in 0..OutageBound
    BY <1>0, <1>10, <2>0, <2>1 DEF Defer, Fails, LedgerTypes
  <2>3. found' \in [Process -> SUBSET Pair]
    BY <1>0, <1>10, <2>0, <2>1 DEF Defer, WorkTypes
  <2>4. deferred' \in [Process -> SUBSET Comment]
    BY <1>0, <1>10, <2>0, <2>1 DEF Defer, WorkTypes
  <2> QED
    BY <1>0, <1>10, <2>0, <2>2, <2>3, <2>4
       DEF Defer, Fails, storeVars, bounds, localVars, RunTypeOK, QueueTypeOK, LedgerTypes, StoreTypes, Archived, BiteTypes, WorkTypes
<1>11. ASSUME NEW p \in Process, NEW e \in found[p], Admit(p, e)
      PROVE  RunTypeOK'
  <2>0. DOMAIN batches' = DOMAIN batches /\ Pair' = Pair
    BY <1>0, <1>11 DEF Admit, Pair, QueueTypeOK, storeVars, bounds
  <2>1. e \in Pair /\ e[1] \in DOMAIN batches /\ e[2] \in Comment
    BY PairFacts
  <2>2. rpc' \in [Process -> RunStage]
    BY <1>0, <1>11, <2>0, <2>1 DEF Admit, BiteTypes, RunGoto, RunStage, Working
  <2>3. found' \in [Process -> SUBSET Pair]
    BY <1>0, <1>11, <2>0, <2>1 DEF Admit, WorkTypes
  <2>4. writing' \in [Process -> SUBSET Comment]
    BY <1>0, <1>11, <2>0, <2>1 DEF Admit, WorkTypes
  <2> QED
    BY <1>0, <1>11, <2>0, <2>2, <2>3, <2>4
       DEF Admit, storeVars, bounds, localVars, RunTypeOK, QueueTypeOK, LedgerTypes, StoreTypes, Archived, BiteTypes, WorkTypes
<1>12. ASSUME NEW p \in Process, Upsert(p)
      PROVE  RunTypeOK'
  <2>0. DOMAIN batches' = DOMAIN batches /\ Pair' = Pair
    BY <1>0, <1>12 DEF Upsert, Fails, Pair, QueueTypeOK, storeVars, bounds
  <2>1. points' \subseteq Comment
    BY <1>0, <1>12, <2>0 DEF Upsert, Fails, StoreTypes, WorkTypes
  <2>2. rpc' \in [Process -> RunStage]
    BY <1>0, <1>12, <2>0 DEF Upsert, Fails, BiteTypes, RunGoto, RunStage, Working
  <2>3. outages' \in 0..OutageBound
    <3>1. outages' = outages \/ Fails
      BY <1>12 DEF Upsert
    <3> QED
      BY <1>0, <3>1 DEF Fails, LedgerTypes
  <2> QED
    BY <1>0, <1>12, <2>0, <2>1, <2>2, <2>3
       DEF Upsert, Fails, storeVars, bounds, localVars, RunTypeOK, QueueTypeOK, LedgerTypes, StoreTypes, Archived, BiteTypes, WorkTypes
<1>13. ASSUME NEW p \in Process, Insert(p)
      PROVE  RunTypeOK'
  <2>0. DOMAIN batches' = DOMAIN batches /\ Pair' = Pair
    BY <1>0, <1>13 DEF Insert, Pair, QueueTypeOK, storeVars, bounds
  <2>1. rpc' \in [Process -> RunStage]
    BY <1>0, <1>13, <2>0 DEF Insert, BiteTypes, RunGoto, RunStage, Working
  <2>2. rows' \in [Comment -> {"absent", "embedded", "flagged"}]
    BY <1>0, <1>13, <2>0 DEF Insert, StoreTypes, Archived
  <2>3. bare' \subseteq Archived'
    <3>1. Archived \subseteq Archived' /\ writing[p] \subseteq Archived'
      BY <1>0, <1>13, <2>0 DEF Insert, StoreTypes, WorkTypes, Archived
    <3>2. bare' = bare \/ bare' = bare \cup (writing[p] \ Archived)
      BY <1>13 DEF Insert
    <3> QED
      BY <1>0, <3>1, <3>2 DEF StoreTypes
  <2>4. writing' \in [Process -> SUBSET Comment]
    BY <1>0, <1>13, <2>0 DEF Insert, WorkTypes
  <2> QED
    BY <1>0, <1>13, <2>0, <2>1, <2>2, <2>3, <2>4
       DEF Insert, storeVars, bounds, localVars, RunTypeOK, QueueTypeOK, LedgerTypes, StoreTypes, Archived, BiteTypes, WorkTypes
<1>14. ASSUME NEW p \in Process, ArchiveDone(p)
      PROVE  RunTypeOK'
  <2>0. DOMAIN batches' = DOMAIN batches /\ Pair' = Pair
    BY <1>0, <1>14 DEF ArchiveDone, Pair, QueueTypeOK, storeVars, bounds
  <2>1. rpc' \in [Process -> RunStage]
    BY <1>0, <1>14, <2>0 DEF ArchiveDone, BiteTypes, RunGoto, RunStage, Working
  <2>2. degraded' \in [Process -> SUBSET ({0} \cup DOMAIN batches)]
    BY <1>0, <1>14, <2>0 DEF ArchiveDone, BiteTypes, WorkTypes
  <2> QED
    BY <1>0, <1>14, <2>0, <2>1, <2>2
       DEF ArchiveDone, storeVars, bounds, localVars, RunTypeOK, QueueTypeOK, LedgerTypes, StoreTypes, Archived, BiteTypes, WorkTypes
<1>15. ASSUME NEW p \in Process, NEW b \in bite[p], MarkDone(p, b)
      PROVE  RunTypeOK'
  <2>0. DOMAIN batches' = DOMAIN batches /\ Pair' = Pair
    BY <1>0, <1>15 DEF MarkDone, MarkProcessed, Pair, QueueTypeOK, storeVars, bounds
  <2>1. b \in DOMAIN batches
    BY <1>0 DEF BiteTypes
  <2>2. batches[b] \in Batch
    BY <1>0, <2>1 DEF QueueTypeOK
  <2>3. batches' \in Seq(Batch)
    <3>1. [batches[b] EXCEPT !.status = "done"] \in Batch
      BY <2>2 DEF Batch
    <3>2. batches' = [batches EXCEPT ![b] = [batches[b] EXCEPT !.status = "done"]]
      BY <1>15 DEF MarkDone, MarkProcessed
    <3>3. batches \in Seq(Batch)
      BY <1>0 DEF QueueTypeOK
    <3> QED
      BY <2>1, <3>1, <3>2, <3>3
  <2>4. rpc' \in [Process -> RunStage]
    BY <1>0, <1>15, <2>0, <2>1, <2>2 DEF MarkDone, MarkProcessed, BiteTypes, RunGoto, RunStage, Working, Batch, QueueTypeOK
  <2>5. writing' \in [Process -> SUBSET Comment]
    BY <1>0, <1>15, <2>0, <2>1, <2>2 DEF MarkDone, MarkProcessed, WorkTypes, Batch, QueueTypeOK, BiteTypes
  <2>6. bite' \in [Process -> SUBSET DOMAIN batches]
    BY <1>0, <1>15, <2>0, <2>1, <2>2 DEF MarkDone, MarkProcessed, BiteTypes, Batch, QueueTypeOK
  <2> QED
    BY <1>0, <1>15, <2>0, <2>3, <2>4, <2>5, <2>6
       DEF MarkDone, MarkProcessed, storeVars, bounds, localVars, RunTypeOK, QueueTypeOK, LedgerTypes, StoreTypes, Archived, BiteTypes, WorkTypes
<1>16. ASSUME NEW p \in Process, MarkSkip(p)
      PROVE  RunTypeOK'
  <2>0. DOMAIN batches' = DOMAIN batches /\ Pair' = Pair
    BY <1>0, <1>16 DEF MarkSkip, MarkIngested, Pair, QueueTypeOK, storeVars, bounds
  <2>1. rpc' \in [Process -> RunStage]
    BY <1>0, <1>16, <2>0 DEF MarkSkip, MarkIngested, BiteTypes, RunGoto, RunStage, Working
  <2>2. skip' \subseteq Comment
    BY <1>0, <1>16, <2>0 DEF MarkSkip, MarkIngested, QueueTypeOK, WorkTypes
  <2>3. writing' \in [Process -> SUBSET Comment]
    BY <1>0, <1>16, <2>0 DEF MarkSkip, WorkTypes
  <2> QED
    BY <1>0, <1>16, <2>0, <2>1, <2>2, <2>3
       DEF MarkSkip, MarkIngested, storeVars, bounds, localVars, RunTypeOK, QueueTypeOK, LedgerTypes, StoreTypes, Archived, BiteTypes, WorkTypes
<1>17. ASSUME NEW p \in Process, Finish(p)
      PROVE  RunTypeOK'
  <2>0. DOMAIN batches' = DOMAIN batches /\ Pair' = Pair
    BY <1>0, <1>17 DEF Finish, Close, LetGo, Pair, QueueTypeOK, storeVars, bounds
  <2>1. runs' \in [Process -> [status : RunStatus, old : BOOLEAN]]
    BY <1>0, <1>17, <2>0 DEF Finish, Close, LetGo, LedgerTypes, RunStatus
  <2>2. rpc' \in [Process -> RunStage]
    BY <1>0, <1>17, <2>0 DEF Finish, Close, LetGo, BiteTypes, RunGoto, RunStage, Working
  <2>3. bite' \in [Process -> SUBSET DOMAIN batches]
    BY <1>0, <1>17, <2>0 DEF Finish, Close, LetGo, BiteTypes
  <2>4. todo' \in [Process -> SUBSET Pair]
    BY <1>0, <1>17, <2>0 DEF Finish, Close, LetGo, WorkTypes
  <2>5. found' \in [Process -> SUBSET Pair]
    BY <1>0, <1>17, <2>0 DEF Finish, Close, LetGo, WorkTypes
  <2>6. batchOf' \in [Process -> [Comment -> {0} \cup DOMAIN batches]]
    BY <1>0, <1>17, <2>0 DEF Finish, Close, LetGo, WorkTypes
  <2>7. degraded' \in [Process -> SUBSET ({0} \cup DOMAIN batches)]
    BY <1>0, <1>17, <2>0 DEF Finish, Close, LetGo, BiteTypes
  <2>8. deferred' \in [Process -> SUBSET Comment]
    BY <1>0, <1>17, <2>0 DEF Finish, Close, LetGo, WorkTypes
  <2>9. writing' \in [Process -> SUBSET Comment]
    BY <1>0, <1>17, <2>0 DEF Finish, Close, LetGo, WorkTypes
  <2> QED
    BY <1>0, <1>17, <2>0, <2>1, <2>2, <2>3, <2>4, <2>5, <2>6, <2>7, <2>8, <2>9
       DEF Finish, Close, LetGo, storeVars, bounds, localVars, RunTypeOK, QueueTypeOK, LedgerTypes, StoreTypes, Archived, BiteTypes, WorkTypes
<1>18. ASSUME NEW p \in Process, Raise(p)
      PROVE  RunTypeOK'
  <2>0. DOMAIN batches' = DOMAIN batches /\ Pair' = Pair
    BY <1>0, <1>18 DEF Raise, Close, LetGo, Fails, Pair, QueueTypeOK, storeVars, bounds
  <2>1. runs' \in [Process -> [status : RunStatus, old : BOOLEAN]]
    BY <1>0, <1>18, <2>0 DEF Raise, Close, LetGo, Fails, LedgerTypes, RunStatus
  <2>2. outages' \in 0..OutageBound
    BY <1>0, <1>18, <2>0 DEF Raise, Fails, LedgerTypes
  <2>3. rpc' \in [Process -> RunStage]
    BY <1>0, <1>18, <2>0 DEF Raise, Close, LetGo, Fails, BiteTypes, RunGoto, RunStage, Working
  <2>4. bite' \in [Process -> SUBSET DOMAIN batches]
    BY <1>0, <1>18, <2>0 DEF Raise, Close, LetGo, Fails, BiteTypes
  <2>5. todo' \in [Process -> SUBSET Pair]
    BY <1>0, <1>18, <2>0 DEF Raise, Close, LetGo, Fails, WorkTypes
  <2>6. found' \in [Process -> SUBSET Pair]
    BY <1>0, <1>18, <2>0 DEF Raise, Close, LetGo, Fails, WorkTypes
  <2>7. batchOf' \in [Process -> [Comment -> {0} \cup DOMAIN batches]]
    BY <1>0, <1>18, <2>0 DEF Raise, Close, LetGo, Fails, WorkTypes
  <2>8. degraded' \in [Process -> SUBSET ({0} \cup DOMAIN batches)]
    BY <1>0, <1>18, <2>0 DEF Raise, Close, LetGo, Fails, BiteTypes
  <2>9. deferred' \in [Process -> SUBSET Comment]
    BY <1>0, <1>18, <2>0 DEF Raise, Close, LetGo, Fails, WorkTypes
  <2>10. writing' \in [Process -> SUBSET Comment]
    BY <1>0, <1>18, <2>0 DEF Raise, Close, LetGo, Fails, WorkTypes
  <2> QED
    BY <1>0, <1>18, <2>0, <2>1, <2>2, <2>3, <2>4, <2>5, <2>6, <2>7, <2>8, <2>9, <2>10
       DEF Raise, Close, LetGo, Fails, storeVars, bounds, localVars, RunTypeOK, QueueTypeOK, LedgerTypes, StoreTypes, Archived, BiteTypes, WorkTypes
<1>19. ASSUME NEW p \in Process, Die(p)
      PROVE  RunTypeOK'
  <2>0. DOMAIN batches' = DOMAIN batches /\ Pair' = Pair
    BY <1>0, <1>19 DEF Die, LetGo, Pair, QueueTypeOK, storeVars, bounds
  <2>1. crashes' \in 0..CrashBound
    BY <1>0, <1>19, <2>0 DEF Die, LetGo, LedgerTypes
  <2>2. rpc' \in [Process -> RunStage]
    BY <1>0, <1>19, <2>0 DEF Die, LetGo, BiteTypes, RunGoto, RunStage, Working
  <2>3. bite' \in [Process -> SUBSET DOMAIN batches]
    BY <1>0, <1>19, <2>0 DEF Die, LetGo, BiteTypes
  <2>4. todo' \in [Process -> SUBSET Pair]
    BY <1>0, <1>19, <2>0 DEF Die, LetGo, WorkTypes
  <2>5. found' \in [Process -> SUBSET Pair]
    BY <1>0, <1>19, <2>0 DEF Die, LetGo, WorkTypes
  <2>6. batchOf' \in [Process -> [Comment -> {0} \cup DOMAIN batches]]
    BY <1>0, <1>19, <2>0 DEF Die, LetGo, WorkTypes
  <2>7. degraded' \in [Process -> SUBSET ({0} \cup DOMAIN batches)]
    BY <1>0, <1>19, <2>0 DEF Die, LetGo, BiteTypes
  <2>8. deferred' \in [Process -> SUBSET Comment]
    BY <1>0, <1>19, <2>0 DEF Die, LetGo, WorkTypes
  <2>9. writing' \in [Process -> SUBSET Comment]
    BY <1>0, <1>19, <2>0 DEF Die, LetGo, WorkTypes
  <2> QED
    BY <1>0, <1>19, <2>0, <2>1, <2>2, <2>3, <2>4, <2>5, <2>6, <2>7, <2>8, <2>9
       DEF Die, LetGo, storeVars, bounds, localVars, RunTypeOK, QueueTypeOK, LedgerTypes, StoreTypes, Archived, BiteTypes, WorkTypes
<1>20. ASSUME NEW p \in Process, StartReembed(p)
      PROVE  RunTypeOK'
  <2>0. DOMAIN batches' = DOMAIN batches /\ Pair' = Pair
    BY <1>0, <1>20 DEF StartReembed, Pair, QueueTypeOK, storeVars, bounds
  <2>1. rpc' \in [Process -> RunStage]
    BY <1>0, <1>20, <2>0 DEF StartReembed, BiteTypes, RunGoto, RunStage, Working
  <2>2. deferred' \in [Process -> SUBSET Comment]
    BY <1>0, <1>20, <2>0 DEF StartReembed, WorkTypes
  <2> QED
    BY <1>0, <1>20, <2>0, <2>1, <2>2
       DEF StartReembed, storeVars, bounds, localVars, RunTypeOK, QueueTypeOK, LedgerTypes, StoreTypes, Archived, BiteTypes, WorkTypes
<1>21. ASSUME NEW p \in Process, NEW c \in deferred[p], ReembedPoint(p, c)
      PROVE  RunTypeOK'
  <2>0. DOMAIN batches' = DOMAIN batches /\ Pair' = Pair
    BY <1>0, <1>21 DEF ReembedPoint, Fails, Pair, QueueTypeOK, storeVars, bounds
  <2>1. deferred' \in [Process -> SUBSET Comment]
    BY <1>0, <1>21, <2>0 DEF ReembedPoint, WorkTypes
  <2>2. points' \subseteq Comment
    BY <1>0, <1>21, <2>0 DEF ReembedPoint, Fails, StoreTypes, WorkTypes
  <2>3. rpc' \in [Process -> RunStage]
    BY <1>0, <1>21, <2>0 DEF ReembedPoint, Fails, BiteTypes, RunGoto, RunStage, Working
  <2>4. writing' \in [Process -> SUBSET Comment]
    BY <1>0, <1>21, <2>0 DEF ReembedPoint, WorkTypes
  <2>5. outages' \in 0..OutageBound
    BY <1>0, <1>21, <2>0 DEF ReembedPoint, Fails, LedgerTypes
  <2> QED
    BY <1>0, <1>21, <2>0, <2>1, <2>2, <2>3, <2>4, <2>5
       DEF ReembedPoint, Fails, storeVars, bounds, localVars, RunTypeOK, QueueTypeOK, LedgerTypes, StoreTypes, Archived, BiteTypes, WorkTypes
<1>22. ASSUME NEW p \in Process, ReembedRow(p)
      PROVE  RunTypeOK'
  <2>0. DOMAIN batches' = DOMAIN batches /\ Pair' = Pair
    BY <1>0, <1>22 DEF ReembedRow, Pair, QueueTypeOK, storeVars, bounds
  <2>1. rpc' \in [Process -> RunStage]
    BY <1>0, <1>22, <2>0 DEF ReembedRow, BiteTypes, RunGoto, RunStage, Working
  <2>2. rows' \in [Comment -> {"absent", "embedded", "flagged"}]
    BY <1>0, <1>22, <2>0 DEF ReembedRow, StoreTypes, Archived
  <2>3. writing' \in [Process -> SUBSET Comment]
    BY <1>0, <1>22, <2>0 DEF ReembedRow, WorkTypes
  <2> QED
    BY <1>0, <1>22, <2>0, <2>1, <2>2, <2>3
       DEF ReembedRow, storeVars, bounds, localVars, RunTypeOK, QueueTypeOK, LedgerTypes, StoreTypes, Archived, BiteTypes, WorkTypes
<1>23. ASSUME NEW p \in Process, ReembedDone(p)
      PROVE  RunTypeOK'
  <2>0. DOMAIN batches' = DOMAIN batches /\ Pair' = Pair
    BY <1>0, <1>23 DEF ReembedDone, LetGo, Pair, QueueTypeOK, storeVars, bounds
  <2>1. rpc' \in [Process -> RunStage]
    BY <1>0, <1>23, <2>0 DEF ReembedDone, LetGo, BiteTypes, RunGoto, RunStage, Working
  <2>2. bite' \in [Process -> SUBSET DOMAIN batches]
    BY <1>0, <1>23, <2>0 DEF ReembedDone, LetGo, BiteTypes
  <2>3. todo' \in [Process -> SUBSET Pair]
    BY <1>0, <1>23, <2>0 DEF ReembedDone, LetGo, WorkTypes
  <2>4. found' \in [Process -> SUBSET Pair]
    BY <1>0, <1>23, <2>0 DEF ReembedDone, LetGo, WorkTypes
  <2>5. batchOf' \in [Process -> [Comment -> {0} \cup DOMAIN batches]]
    BY <1>0, <1>23, <2>0 DEF ReembedDone, LetGo, WorkTypes
  <2>6. degraded' \in [Process -> SUBSET ({0} \cup DOMAIN batches)]
    BY <1>0, <1>23, <2>0 DEF ReembedDone, LetGo, BiteTypes
  <2>7. deferred' \in [Process -> SUBSET Comment]
    BY <1>0, <1>23, <2>0 DEF ReembedDone, LetGo, WorkTypes
  <2>8. writing' \in [Process -> SUBSET Comment]
    BY <1>0, <1>23, <2>0 DEF ReembedDone, LetGo, WorkTypes
  <2> QED
    BY <1>0, <1>23, <2>0, <2>1, <2>2, <2>3, <2>4, <2>5, <2>6, <2>7, <2>8
       DEF ReembedDone, LetGo, storeVars, bounds, localVars, RunTypeOK, QueueTypeOK, LedgerTypes, StoreTypes, Archived, BiteTypes, WorkTypes
<1>24. ASSUME UNCHANGED runVars
      PROVE  RunTypeOK'
  BY <1>24 DEF runVars, runOnly, storeVars, bounds, localVars, RunTypeOK, QueueTypeOK, LedgerTypes,
     StoreTypes, Archived, BiteTypes, WorkTypes, Pair
<1> QED
  BY <1>1, <1>2, <1>3, <1>4, <1>5, <1>6, <1>7, <1>8, <1>9, <1>10, <1>11, <1>12, <1>13, <1>14, <1>15, <1>16, <1>17, <1>18, <1>19, <1>20, <1>21, <1>22, <1>23, <1>24 DEF RunNext, RunStep
----------------------------------------------------------------------------
(* What a step leaves alone: batches keep their comments, and what is        *)
(* answered for stays so.                                                    *)
Keeps ==
    /\ DOMAIN batches' = DOMAIN batches
    /\ \A b \in DOMAIN batches : batches'[b].comments = batches[b].comments
    /\ \A c : Kept1(c) => Kept1(c)'
    /\ points \subseteq points'

(* Process q takes no part in the step. *)
Still(q) ==
    UNCHANGED <<rpc[q], bite[q], todo[q], found[q], batchOf[q], degraded[q], deferred[q],
                writing[q]>>

LEMMA KeepsLemma ==
    ASSUME DOMAIN batches' = DOMAIN batches,
           \A b \in DOMAIN batches : batches'[b].comments = batches[b].comments,
           dropped \subseteq dropped', Archived \subseteq Archived', points \subseteq points'
    PROVE  Keeps
  BY DEF Keeps, Kept1, SameText

(* A process that takes no part keeps its invariant. *)
LEMMA Elsewhere ==
    ASSUME Keeps, NEW q \in Process, LocalInv(q), Still(q), RunTypeOK
    PROVE  LocalInv(q)'
<1> USE DEF LocalInv
<1>1. \A b \in bite[q] : b \in DOMAIN batches
  BY DEF RunTypeOK, BiteTypes
<1>2. \A e \in todo[q] \cup found[q] : e[1] \in DOMAIN batches
  BY PairFacts
<1>3. Cleared(q)'
  BY DEF Still, Cleared
<1>4. Real(q)'
  BY <1>2 DEF Still, Real, Keeps
<1>5. Ordered(q)'
  BY DEF Still, Ordered, Keeps
<1>6. Tracked(q)'
  <2> SUFFICES ASSUME NEW b \in (bite[q] \ degraded[q])', NEW c \in (batches[b].comments)'
               PROVE  Answered(b, c)' \/ Open(q, b, c)'
    BY DEF Tracked
  <2>1. b \in bite[q] \ degraded[q] /\ c \in batches[b].comments
    BY <1>1 DEF Still, Keeps
  <2>2. Answered(b, c) \/ Open(q, b, c)
    BY <2>1 DEF Tracked
  <2>3. Answered(b, c) => Answered(b, c)'
    BY DEF Answered, Later, Keeps
  <2>4. Open(q, b, c) => Open(q, b, c)'
    BY DEF Open, Still
  <2> QED
    BY <2>2, <2>3, <2>4
<1>7. PointFirst(q)'
  BY DEF Still, PointFirst, Keeps
<1> QED
  BY <1>3, <1>4, <1>5, <1>6, <1>7

(* A process with no bite has nothing to keep but the order point, row. *)
LEMMA Rested ==
    ASSUME NEW p \in Process, rpc'[p] \in Resting, bite'[p] = {}, todo'[p] = {}, found'[p] = {},
           PointFirst(p)'
    PROVE  LocalInv(p)'
  BY DEF LocalInv, Cleared, Real, Ordered, Tracked, Resting, Archiving, Storing, Closing

(* What a process owed and its step did not settle it still owes. *)
LEMMA AnsweredStays ==
    ASSUME Keeps, NEW b, NEW c, Answered(b, c)
    PROVE  Answered(b, c)'
  BY DEF Answered, Later, Keeps

----------------------------------------------------------------------------
(* The steps that leave no bite behind, and those of the run ledger. *)
LEMMA QuietStep ==
    ASSUME RunInv, NEW p \in Process,
           \/ Reap(p) \/ Start(p) \/ Refused(p) \/ Finish(p) \/ Raise(p) \/ Die(p)
           \/ StartReembed(p) \/ (\E c \in deferred[p] : ReembedPoint(p, c))
           \/ ReembedRow(p) \/ ReembedDone(p)
    PROVE  LocalInv(p)' /\ Keeps /\ \A q \in Process \ {p} : Still(q)
<1> USE DEF RunInv, RunTypeOK
<1>1. rpc \in [Process -> RunStage] /\ LocalInv(p)
  BY DEF BiteTypes
<1>2. rpc[p] \in Resting => bite[p] = {} /\ found[p] = {} /\ todo[p] = {}
  BY <1>1 DEF LocalInv, Cleared
<1>3. CASE Reap(p) \/ Start(p) \/ Refused(p) \/ StartReembed(p)
  <2>1. rpc[p] \in Resting /\ rpc'[p] \in Resting \ {"unflag"}
    BY <1>1, <1>3 DEF Reap, Start, Refused, StartReembed, RunGoto, Resting
  <2>2. UNCHANGED <<batches, points, dropped, rows, bite, todo, found, batchOf, degraded, writing>>
    BY <1>3 DEF Reap, Start, Refused, StartReembed, storeVars
  <2>3. Keeps
    BY <2>2, KeepsLemma DEF Archived
  <2>4. LocalInv(p)'
    BY <1>2, <2>1, <2>2, Rested DEF PointFirst, Resting
  <2>5. \A q \in Process \ {p} : rpc'[q] = rpc[q] /\ deferred'[q] = deferred[q]
    BY <1>1, <1>3 DEF Reap, Start, Refused, StartReembed, RunGoto, WorkTypes
  <2> QED
    BY <2>2, <2>3, <2>4, <2>5 DEF Still
<1>4. CASE Finish(p) \/ Raise(p) \/ Die(p) \/ ReembedDone(p)
  <2>1. LetGo(p) /\ UNCHANGED <<batches, points, dropped, rows>>
    BY <1>4 DEF Finish, Raise, Die, ReembedDone, storeVars
  <2>2. Keeps
    BY <2>1, KeepsLemma DEF Archived
  <2>3. rpc'[p] = "idle" /\ bite'[p] = {} /\ todo'[p] = {} /\ found'[p] = {}
    BY <2>1 DEF LetGo, RunGoto, BiteTypes, WorkTypes
  <2>4. LocalInv(p)'
    BY <2>3, Rested DEF PointFirst, Resting
  <2>5. \A q \in Process \ {p} : Still(q)
    BY <2>1 DEF LetGo, RunGoto, BiteTypes, WorkTypes, Still
  <2> QED
    BY <2>2, <2>4, <2>5
<1>5. CASE \E c \in deferred[p] : ReembedPoint(p, c)
  <2> PICK c \in deferred[p] : ReembedPoint(p, c)
    BY <1>5
  <2>1. rpc[p] \in Resting /\ rpc'[p] \in Resting
    BY <1>1 DEF ReembedPoint, RunGoto, Resting
  <2>2. UNCHANGED <<batches, rows, dropped, bite, todo, found, batchOf, degraded>>
    BY DEF ReembedPoint
  <2>3. points \subseteq points' /\ (rpc'[p] = "unflag" => writing'[p] \subseteq points')
    BY <1>1 DEF ReembedPoint, RunGoto, WorkTypes
  <2>4. Keeps
    BY <2>2, <2>3, KeepsLemma DEF Archived
  <2>5. LocalInv(p)'
    BY <1>2, <2>1, <2>2, <2>3, Rested DEF PointFirst, Resting
  <2>6. \A q \in Process \ {p} :
            rpc'[q] = rpc[q] /\ deferred'[q] = deferred[q] /\ writing'[q] = writing[q]
    BY <1>1 DEF ReembedPoint, RunGoto, WorkTypes
  <2> QED
    BY <2>2, <2>4, <2>5, <2>6 DEF Still
<1>6. CASE ReembedRow(p)
  <2>1. rpc[p] \in Resting /\ rpc'[p] = "reembed"
    BY <1>1, <1>6 DEF ReembedRow, RunGoto, Resting
  <2>2. UNCHANGED <<batches, points, dropped, bite, todo, found, batchOf, degraded, deferred>>
    BY <1>6 DEF ReembedRow
  <2>3. Archived \subseteq Archived'
    BY <1>6 DEF ReembedRow, Archived
  <2>4. Keeps
    BY <2>2, <2>3, KeepsLemma
  <2>5. LocalInv(p)'
    BY <1>2, <2>1, <2>2, Rested DEF PointFirst, Resting
  <2>6. \A q \in Process \ {p} : rpc'[q] = rpc[q] /\ writing'[q] = writing[q]
    BY <1>1, <1>6 DEF ReembedRow, RunGoto, WorkTypes
  <2> QED
    BY <2>2, <2>4, <2>5, <2>6 DEF Still
<1> QED
  BY <1>3, <1>4, <1>5, <1>6
----------------------------------------------------------------------------
(* A process at work: the comment its step takes from one heap it puts on    *)
(* another, or answers for.                                                  *)

LEMMA BiteStep ==
    ASSUME RunInv, NEW p \in Process, ReadQueue(p)
    PROVE  LocalInv(p)' /\ Keeps /\ \A q \in Process \ {p} : Still(q)
<1> USE DEF RunInv, RunTypeOK, BiteTypes, WorkTypes
<1>1. LocalInv(p) /\ rpc[p] = "queue" /\ rpc'[p] = "extract" /\ bite'[p] = Bitten
  BY DEF ReadQueue, RunGoto
<1>2. found'[p] = {} /\ degraded'[p] = degraded[p]
  BY <1>1 DEF LocalInv, Cleared, Resting, ReadQueue
<1>3. UNCHANGED <<batches, points, rows, found, batchOf, degraded, deferred, writing>>
  BY DEF ReadQueue
<1> PICK drop \in SUBSET Droppable :
        /\ todo' = [todo EXCEPT ![p] =
                {e \in Pair : e[1] \in Bitten /\ e[2] \in Prefiltered(e[1], drop)}]
        /\ dropped' = dropped \cup (drop \cap UNION {batches[b].comments : b \in Bitten})
  BY DEF ReadQueue
<1>4. todo'[p] = {e \in Pair : e[1] \in Bitten /\ e[2] \in batches[e[1]].comments \ drop}
  BY DEF Prefiltered
<1>5. Keeps
  BY <1>3, KeepsLemma DEF Archived
<1>6. Cleared(p)'
  BY <1>1 DEF Cleared, Resting, Archiving, Storing, Closing
<1>7. Real(p)'
  BY <1>2, <1>3, <1>4 DEF Real
<1>8. Ordered(p)' /\ PointFirst(p)'
  BY <1>1, <1>2 DEF Ordered, PointFirst
<1>9. Tracked(p)'
  <2> SUFFICES ASSUME NEW b \in Bitten, NEW c \in batches[b].comments
               PROVE  Kept1(c)' \/ Open(p, b, c)'
    BY <1>1, <1>3 DEF Tracked, Answered
  <2>1. CASE c \in drop
    <3>1. c \in dropped'
      BY <2>1
    <3> QED
      BY <3>1 DEF Kept1
  <2>2. CASE c \notin drop
    <3>0. b \in DOMAIN batches
      BY DEF Bitten, Pending
    <3>1. c \in Comment
      <4>1. batches[b] \in Batch
        BY <3>0 DEF QueueTypeOK
      <4> QED
        BY <4>1 DEF Batch
    <3>2. <<b, c>> \in todo'[p]
      BY <1>4, <2>2, <3>0, <3>1 DEF Pair
    <3> QED
      BY <3>2 DEF Open
  <2> QED
    BY <2>1, <2>2
<1>10. \A q \in Process \ {p} : Still(q)
  BY <1>3 DEF Still, ReadQueue, RunGoto
<1> QED
  BY <1>5, <1>6, <1>7, <1>8, <1>9, <1>10 DEF LocalInv

LEMMA ExtractStep ==
    ASSUME RunInv, NEW p \in Process, NEW e \in todo[p], Extract(p, e)
    PROVE  LocalInv(p)' /\ Keeps /\ \A q \in Process \ {p} : Still(q)
<1> USE DEF RunInv, RunTypeOK, BiteTypes, WorkTypes
<1>0. e = <<e[1], e[2]>> /\ e[1] \in DOMAIN batches /\ e[2] \in Comment
  BY PairFacts
<1>1. LocalInv(p) /\ rpc'[p] = "extract" /\ rpc[p] = "extract"
  BY DEF Extract
<1>2. UNCHANGED <<batches, points, rows, dropped, rpc, bite, degraded, deferred, writing>>
  BY DEF Extract, storeVars
<1>3. todo'[p] = todo[p] \ {e} /\ found'[p] = found[p] \cup {e}
  BY DEF Extract
<1>4. batchOf'[p] = [batchOf[p] EXCEPT ![e[2]] = e[1]]
  BY <1>0 DEF Extract
<1>5. Keeps
  BY <1>2, KeepsLemma DEF Archived
<1>6. Cleared(p)'
  BY <1>1 DEF Cleared, Resting, Archiving, Storing, Closing
<1>7. Real(p)'
  BY <1>1, <1>2, <1>3 DEF Real, LocalInv
<1>8. Ordered(p)'
  <2> SUFFICES ASSUME NEW f \in found'[p]
               PROVE  /\ batchOf'[p][f[2]] \in DOMAIN batches /\ f[1] <= batchOf'[p][f[2]]
                      /\ f[2] \in batches[batchOf'[p][f[2]]].comments
                      /\ \A o \in todo'[p] : f[1] <= o[1]
    BY <1>2 DEF Ordered
  <2>1. e[1] \in Nat /\ e[2] \in batches[e[1]].comments /\ \A o \in todo[p] : e[1] <= o[1]
    BY <1>0, <1>1 DEF LocalInv, Real, Extract, QueueTypeOK
  <2>2. CASE f = e
    BY <1>0, <1>3, <1>4, <2>1, <2>2
  <2>3. CASE f \in found[p]
    <3>1. f[2] \in Comment
      BY <2>3, PairFacts
    <3>2. /\ batchOf[p][f[2]] \in DOMAIN batches /\ f[1] <= batchOf[p][f[2]]
          /\ f[2] \in batches[batchOf[p][f[2]]].comments
          /\ \A o \in todo[p] : f[1] <= o[1]
      BY <1>1, <2>3 DEF LocalInv, Ordered
    <3>3. CASE f[2] = e[2]
      BY <1>0, <1>3, <1>4, <2>1, <3>1, <3>2, <3>3
    <3>4. CASE f[2] # e[2]
      <4>1. batchOf'[p][f[2]] = batchOf[p][f[2]]
        BY <1>4, <3>1, <3>4
      <4> QED
        BY <1>3, <3>2, <4>1
    <3> QED
      BY <3>3, <3>4
  <2> QED
    BY <1>3, <2>2, <2>3
<1>9. Tracked(p)'
  <2> SUFFICES ASSUME NEW b \in bite[p] \ degraded[p], NEW c \in batches[b].comments
               PROVE  Answered(b, c)' \/ Open(p, b, c)'
    BY <1>2 DEF Tracked
  <2>1. Answered(b, c) \/ Open(p, b, c)
    BY <1>1 DEF LocalInv, Tracked
  <2>2. Answered(b, c) => Answered(b, c)'
    BY <1>5, AnsweredStays
  <2>3. Open(p, b, c) => Open(p, b, c)'
    BY <1>1, <1>3 DEF Open, Archiving, Storing
  <2> QED
    BY <2>1, <2>2, <2>3
<1>10. PointFirst(p)'
  BY <1>1 DEF PointFirst
<1>11. \A q \in Process \ {p} : Still(q)
  BY <1>2 DEF Still, Extract
<1> QED
  BY <1>5, <1>6, <1>7, <1>8, <1>9, <1>10, <1>11 DEF LocalInv

LEMMA ExtractFailedStep ==
    ASSUME RunInv, NEW p \in Process, NEW e \in todo[p], ExtractFailed(p, e)
    PROVE  LocalInv(p)' /\ Keeps /\ \A q \in Process \ {p} : Still(q)
<1> USE DEF RunInv, RunTypeOK, BiteTypes, WorkTypes
<1>0. e = <<e[1], e[2]>>
  BY PairFacts
<1>1. LocalInv(p) /\ rpc'[p] = "extract" /\ rpc[p] = "extract"
  BY DEF ExtractFailed
<1>2. UNCHANGED <<batches, points, rows, dropped, rpc, bite, found, batchOf, deferred, writing>>
  BY DEF ExtractFailed, storeVars
<1>3. /\ todo'[p] \subseteq todo[p] /\ degraded[p] \subseteq degraded'[p]
      /\ \A o \in todo[p] \ todo'[p] : o[1] \in degraded'[p]
  BY DEF ExtractFailed
<1>4. Keeps
  BY <1>2, KeepsLemma DEF Archived
<1>5. Cleared(p)' /\ PointFirst(p)'
  BY <1>1 DEF Cleared, PointFirst, Resting, Archiving, Storing, Closing
<1>6. Real(p)'
  BY <1>1, <1>2, <1>3 DEF Real, LocalInv
<1>7. Ordered(p)'
  BY <1>1, <1>2, <1>3 DEF Ordered, LocalInv
<1>8. Tracked(p)'
  <2> SUFFICES ASSUME NEW b \in bite[p] \ degraded'[p], NEW c \in batches[b].comments
               PROVE  Answered(b, c)' \/ Open(p, b, c)'
    BY <1>2 DEF Tracked
  <2>1. Answered(b, c) \/ Open(p, b, c)
    BY <1>1, <1>3 DEF LocalInv, Tracked
  <2>2. Answered(b, c) => Answered(b, c)'
    BY <1>4, AnsweredStays
  <2>3. <<b, c>> \in todo[p] => <<b, c>> \in todo'[p]
    BY <1>3
  <2>4. Open(p, b, c) => Open(p, b, c)'
    BY <1>1, <1>2, <2>3 DEF Open, Archiving, Storing
  <2> QED
    BY <2>1, <2>2, <2>4
<1>9. \A q \in Process \ {p} : Still(q)
  BY <1>2 DEF Still, ExtractFailed
<1> QED
  BY <1>4, <1>5, <1>6, <1>7, <1>8, <1>9 DEF LocalInv

LEMMA ExtractDoneStep ==
    ASSUME RunInv, NEW p \in Process, ExtractDone(p)
    PROVE  LocalInv(p)' /\ Keeps /\ \A q \in Process \ {p} : Still(q)
<1> USE DEF RunInv, RunTypeOK, BiteTypes, WorkTypes
<1>1. LocalInv(p) /\ rpc'[p] = "archive" /\ rpc[p] = "extract" /\ todo[p] = {}
  BY DEF ExtractDone, RunGoto
<1>2. UNCHANGED <<batches, points, rows, dropped, bite, todo, found, batchOf, degraded,
                  deferred, writing>>
  BY DEF ExtractDone, storeVars
<1>3. Keeps
  BY <1>2, KeepsLemma DEF Archived
<1>4. Cleared(p)' /\ PointFirst(p)'
  BY <1>1, <1>2 DEF Cleared, PointFirst, Resting, Archiving, Storing, Closing
<1>5. Real(p)' /\ Ordered(p)'
  BY <1>1, <1>2 DEF Real, Ordered, LocalInv
<1>6. Tracked(p)'
  <2> SUFFICES ASSUME NEW b \in bite[p] \ degraded[p], NEW c \in batches[b].comments
               PROVE  Answered(b, c)' \/ Open(p, b, c)'
    BY <1>2 DEF Tracked
  <2>1. Answered(b, c) \/ Open(p, b, c)
    BY <1>1 DEF LocalInv, Tracked
  <2>2. Answered(b, c) => Answered(b, c)'
    BY <1>3, AnsweredStays
  <2>3. Open(p, b, c) => Open(p, b, c)'
    BY <1>1, <1>2 DEF Open, Archiving, Storing
  <2> QED
    BY <2>1, <2>2, <2>3
<1>7. \A q \in Process \ {p} : Still(q)
  BY <1>2 DEF Still, ExtractDone, RunGoto
<1> QED
  BY <1>3, <1>4, <1>5, <1>6, <1>7 DEF LocalInv
LEMMA RefuseStep ==
    ASSUME RunInv, NEW p \in Process, NEW e \in found[p], Refuse(p, e)
    PROVE  LocalInv(p)' /\ Keeps /\ \A q \in Process \ {p} : Still(q)
<1> USE DEF RunInv, RunTypeOK, BiteTypes, WorkTypes
<1>0. e = <<e[1], e[2]>>
  BY PairFacts
<1>1. LocalInv(p) /\ rpc'[p] = "archive" /\ rpc[p] = "archive"
  BY DEF Refuse
<1>2. UNCHANGED <<batches, points, rows, dropped, rpc, bite, todo, batchOf, degraded,
                  deferred, writing>>
  BY DEF Refuse, storeVars
<1>3. found'[p] = found[p] \ {e}
  BY DEF Refuse
<1>4. Kept1(e[2])'
  BY <1>2 DEF Refuse, Kept1, Duplicate, Archived, SameText
<1>5. Keeps
  BY <1>2, KeepsLemma DEF Archived
<1>6. Cleared(p)' /\ PointFirst(p)' /\ Real(p)' /\ Ordered(p)'
  BY <1>1, <1>2, <1>3
     DEF LocalInv, Cleared, PointFirst, Real, Ordered, Resting, Archiving, Storing, Closing
<1>7. Tracked(p)'
  <2> SUFFICES ASSUME NEW b \in bite[p] \ degraded[p], NEW c \in batches[b].comments
               PROVE  Answered(b, c)' \/ Open(p, b, c)'
    BY <1>2 DEF Tracked
  <2>1. Answered(b, c) \/ Open(p, b, c)
    BY <1>1 DEF LocalInv, Tracked
  <2>2. Answered(b, c) => Answered(b, c)'
    BY <1>5, AnsweredStays
  <2>3. <<b, c>> = e => Answered(b, c)'
    BY <1>4 DEF Answered
  <2>4. <<b, c>> # e /\ Open(p, b, c) => Open(p, b, c)'
    BY <1>1, <1>2, <1>3 DEF Open, Archiving, Storing
  <2> QED
    BY <2>1, <2>2, <2>3, <2>4
<1>8. \A q \in Process \ {p} : Still(q)
  BY <1>2 DEF Still, Refuse
<1> QED
  BY <1>5, <1>6, <1>7, <1>8 DEF LocalInv

LEMMA DeferStep ==
    ASSUME RunInv, NEW p \in Process, NEW e \in found[p], Defer(p, e)
    PROVE  LocalInv(p)' /\ Keeps /\ \A q \in Process \ {p} : Still(q)
<1> USE DEF RunInv, RunTypeOK, BiteTypes, WorkTypes
<1>0. e = <<e[1], e[2]>> /\ e[1] \in DOMAIN batches
  BY PairFacts
<1>1. LocalInv(p) /\ rpc'[p] = "archive" /\ rpc[p] = "archive"
  BY DEF Defer
<1>2. UNCHANGED <<batches, points, rows, dropped, rpc, bite, todo, batchOf, degraded, writing>>
  BY DEF Defer, storeVars
<1>3. found'[p] = found[p] \ {e} /\ deferred'[p] = deferred[p] \cup {e[2]}
  BY DEF Defer
<1>4. Keeps
  BY <1>2, KeepsLemma DEF Archived
<1>5. Cleared(p)' /\ PointFirst(p)' /\ Real(p)' /\ Ordered(p)'
  BY <1>1, <1>2, <1>3
     DEF LocalInv, Cleared, PointFirst, Real, Ordered, Resting, Archiving, Storing, Closing
<1>6. Tracked(p)'
  <2> SUFFICES ASSUME NEW b \in bite[p] \ degraded[p], NEW c \in batches[b].comments
               PROVE  Answered(b, c)' \/ Open(p, b, c)'
    BY <1>2 DEF Tracked
  <2>1. Answered(b, c) \/ Open(p, b, c)
    BY <1>1 DEF LocalInv, Tracked
  <2>2. Answered(b, c) => Answered(b, c)'
    BY <1>4, AnsweredStays
  <2>3. CASE <<b, c>> = e
    <3> DEFINE last == batchOf[p][e[2]]
    <3>1. last \in DOMAIN batches /\ e[1] <= last /\ e[2] \in batches[last].comments
      BY <1>1 DEF LocalInv, Ordered
    <3>2. CASE last = e[1]
      BY <1>0, <1>1, <1>2, <1>3, <2>3, <3>2 DEF Open, Archiving
    <3>3. CASE last # e[1]
      <4>1. last > e[1]
        BY <1>0, <3>1, <3>3 DEF QueueTypeOK
      <4>2. Later(b, c)
        BY <1>0, <2>3, <3>1, <4>1 DEF Later
      <4> QED
        BY <1>4, <4>2, AnsweredStays DEF Answered
    <3> QED
      BY <3>2, <3>3
  <2>4. <<b, c>> # e /\ Open(p, b, c) => Open(p, b, c)'
    BY <1>1, <1>2, <1>3 DEF Open, Archiving, Storing
  <2> QED
    BY <2>1, <2>2, <2>3, <2>4
<1>7. \A q \in Process \ {p} : Still(q)
  BY <1>2 DEF Still, Defer
<1> QED
  BY <1>4, <1>5, <1>6, <1>7 DEF LocalInv

LEMMA AdmitStep ==
    ASSUME RunInv, NEW p \in Process, NEW e \in found[p], Admit(p, e)
    PROVE  LocalInv(p)' /\ Keeps /\ \A q \in Process \ {p} : Still(q)
<1> USE DEF RunInv, RunTypeOK, BiteTypes, WorkTypes
<1>0. e = <<e[1], e[2]>>
  BY PairFacts
<1>1. LocalInv(p) /\ rpc'[p] = "upsert" /\ rpc[p] = "archive"
  BY DEF Admit, RunGoto
<1>2. UNCHANGED <<batches, points, rows, dropped, bite, todo, batchOf, degraded, deferred>>
  BY DEF Admit, storeVars
<1>3. found'[p] = found[p] \ {e} /\ writing'[p] = {e[2]}
  BY DEF Admit
<1>4. Keeps
  BY <1>2, KeepsLemma DEF Archived
<1>5. Cleared(p)' /\ PointFirst(p)' /\ Real(p)' /\ Ordered(p)'
  BY <1>1, <1>2, <1>3
     DEF LocalInv, Cleared, PointFirst, Real, Ordered, Resting, Archiving, Storing, Closing
<1>6. Tracked(p)'
  <2> SUFFICES ASSUME NEW b \in bite[p] \ degraded[p], NEW c \in batches[b].comments
               PROVE  Answered(b, c)' \/ Open(p, b, c)'
    BY <1>2 DEF Tracked
  <2>1. Answered(b, c) \/ Open(p, b, c)
    BY <1>1 DEF LocalInv, Tracked
  <2>2. Answered(b, c) => Answered(b, c)'
    BY <1>4, AnsweredStays
  <2>3. <<b, c>> = e => Open(p, b, c)'
    BY <1>1, <1>3 DEF Open, Storing
  <2>4. <<b, c>> # e /\ Open(p, b, c) => Open(p, b, c)'
    BY <1>1, <1>2, <1>3 DEF Open, Archiving, Storing
  <2> QED
    BY <2>1, <2>2, <2>3, <2>4
<1>7. \A q \in Process \ {p} : Still(q)
  BY <1>2 DEF Still, Admit, RunGoto
<1> QED
  BY <1>4, <1>5, <1>6, <1>7 DEF LocalInv

LEMMA UpsertStep ==
    ASSUME RunInv, NEW p \in Process, Upsert(p)
    PROVE  LocalInv(p)' /\ Keeps /\ \A q \in Process \ {p} : Still(q)
<1> USE DEF RunInv, RunTypeOK, BiteTypes, WorkTypes
<1>1. LocalInv(p) /\ rpc'[p] \in {"insert", "insert bare"} /\ rpc[p] = "upsert"
  BY DEF Upsert, RunGoto
<1>2. UNCHANGED <<batches, rows, dropped, bite, todo, found, batchOf, degraded, deferred,
                  writing>>
  BY DEF Upsert
<1>3. points \subseteq points' /\ (rpc'[p] = "insert" => writing[p] \subseteq points')
  BY DEF Upsert, RunGoto
<1>4. Keeps
  BY <1>2, <1>3, KeepsLemma DEF Archived
<1>5. Cleared(p)' /\ PointFirst(p)' /\ Real(p)' /\ Ordered(p)'
  BY <1>1, <1>2, <1>3
     DEF LocalInv, Cleared, PointFirst, Real, Ordered, Resting, Archiving, Storing, Closing
<1>6. Tracked(p)'
  <2> SUFFICES ASSUME NEW b \in bite[p] \ degraded[p], NEW c \in batches[b].comments
               PROVE  Answered(b, c)' \/ Open(p, b, c)'
    BY <1>2 DEF Tracked
  <2>1. Answered(b, c) \/ Open(p, b, c)
    BY <1>1 DEF LocalInv, Tracked
  <2>2. Answered(b, c) => Answered(b, c)'
    BY <1>4, AnsweredStays
  <2>3. Open(p, b, c) => Open(p, b, c)'
    BY <1>1, <1>2 DEF Open, Archiving, Storing
  <2> QED
    BY <2>1, <2>2, <2>3
<1>7. \A q \in Process \ {p} : Still(q)
  BY <1>2 DEF Still, Upsert, RunGoto
<1> QED
  BY <1>4, <1>5, <1>6, <1>7 DEF LocalInv

LEMMA InsertStep ==
    ASSUME RunInv, NEW p \in Process, Insert(p)
    PROVE  LocalInv(p)' /\ Keeps /\ \A q \in Process \ {p} : Still(q)
<1> USE DEF RunInv, RunTypeOK, BiteTypes, WorkTypes
<1>1. LocalInv(p) /\ rpc'[p] = "archive" /\ rpc[p] \in {"insert", "insert bare"}
  BY DEF Insert, RunGoto
<1>2. UNCHANGED <<batches, points, dropped, bite, todo, found, batchOf, degraded, deferred>>
  BY DEF Insert
<1>3. Archived \subseteq Archived' /\ writing[p] \subseteq Archived'
  BY DEF Insert, StoreTypes, Archived
<1>4. Keeps
  BY <1>2, <1>3, KeepsLemma
<1>5. Cleared(p)' /\ PointFirst(p)' /\ Real(p)' /\ Ordered(p)'
  BY <1>1, <1>2
     DEF LocalInv, Cleared, PointFirst, Real, Ordered, Resting, Archiving, Storing, Closing
<1>6. Tracked(p)'
  <2> SUFFICES ASSUME NEW b \in bite[p] \ degraded[p], NEW c \in batches[b].comments
               PROVE  Answered(b, c)' \/ Open(p, b, c)'
    BY <1>2 DEF Tracked
  <2>1. Answered(b, c) \/ Open(p, b, c)
    BY <1>1 DEF LocalInv, Tracked
  <2>2. Answered(b, c) => Answered(b, c)'
    BY <1>4, AnsweredStays
  <2>3. c \in writing[p] => Answered(b, c)'
    BY <1>3 DEF Answered, Kept1
  <2>4. c \notin writing[p] /\ Open(p, b, c) => Open(p, b, c)'
    BY <1>1, <1>2 DEF Open, Archiving, Storing
  <2> QED
    BY <2>1, <2>2, <2>3, <2>4
<1>7. \A q \in Process \ {p} : Still(q)
  BY <1>2 DEF Still, Insert, RunGoto
<1> QED
  BY <1>4, <1>5, <1>6, <1>7 DEF LocalInv

LEMMA ArchiveDoneStep ==
    ASSUME RunInv, NEW p \in Process, ArchiveDone(p)
    PROVE  LocalInv(p)' /\ Keeps /\ \A q \in Process \ {p} : Still(q)
<1> USE DEF RunInv, RunTypeOK, BiteTypes, WorkTypes
<1>1. LocalInv(p) /\ rpc'[p] = "settle" /\ rpc[p] = "archive" /\ found[p] = {}
  BY DEF ArchiveDone, RunGoto
<1>2. todo[p] = {}
  BY <1>1 DEF LocalInv, Cleared, Archiving
<1>3. UNCHANGED <<batches, points, rows, dropped, bite, todo, found, batchOf, deferred, writing>>
  BY DEF ArchiveDone, storeVars
<1>4. degraded'[p] = degraded[p] \cup {batchOf[p][c] : c \in deferred[p]}
  BY DEF ArchiveDone
<1>5. Keeps
  BY <1>3, KeepsLemma DEF Archived
<1>6. Cleared(p)' /\ PointFirst(p)' /\ Real(p)' /\ Ordered(p)'
  BY <1>1, <1>2, <1>3
     DEF Cleared, PointFirst, Real, Ordered, Resting, Archiving, Storing, Closing
<1>7. Tracked(p)'
  <2> SUFFICES ASSUME NEW b \in bite[p] \ degraded'[p], NEW c \in batches[b].comments
               PROVE  Answered(b, c)'
    BY <1>3 DEF Tracked
  <2>1. Answered(b, c) \/ Open(p, b, c)
    BY <1>1, <1>4 DEF LocalInv, Tracked
  <2>2. ~Open(p, b, c)
    BY <1>1, <1>2, <1>4 DEF Open, Archiving, Storing
  <2> QED
    BY <1>5, <2>1, <2>2, AnsweredStays
<1>8. \A q \in Process \ {p} : Still(q)
  BY <1>3 DEF Still, ArchiveDone, RunGoto
<1> QED
  BY <1>5, <1>6, <1>7, <1>8 DEF LocalInv
LEMMA SettleStep ==
    ASSUME RunInv, NEW p \in Process, (\E b \in bite[p] : MarkDone(p, b)) \/ MarkSkip(p)
    PROVE  LocalInv(p)' /\ Keeps /\ \A q \in Process \ {p} : Still(q)
<1> USE DEF RunInv, RunTypeOK, BiteTypes, WorkTypes
<1>1. LocalInv(p) /\ rpc'[p] \in Closing /\ rpc[p] \in Closing
  BY DEF MarkDone, MarkSkip, RunGoto, Closing
<1>2. todo[p] = {} /\ found[p] = {}
  BY <1>1 DEF LocalInv, Cleared
<1>3. UNCHANGED <<points, rows, dropped, todo, found, batchOf, degraded, deferred>>
  BY DEF MarkDone, MarkSkip, storeVars
<1>4. /\ DOMAIN batches' = DOMAIN batches
      /\ \A b \in DOMAIN batches : batches'[b].comments = batches[b].comments
  <2>1. CASE MarkSkip(p)
    BY <2>1 DEF MarkSkip
  <2>2. CASE \E b \in bite[p] : MarkDone(p, b)
    <3> PICK b \in bite[p] : MarkDone(p, b)
      BY <2>2
    <3>1. batches' = [batches EXCEPT ![b].status = "done"]
      BY DEF MarkDone, MarkProcessed
    <3>2. \A x \in DOMAIN batches : batches[x] \in Batch
      BY DEF QueueTypeOK
    <3>3. DOMAIN batches' = DOMAIN batches
      BY <3>1 DEF QueueTypeOK
    <3>4. ASSUME NEW x \in DOMAIN batches
          PROVE  batches'[x].comments = batches[x].comments
      <4>1. CASE x = b
        BY <3>1, <3>2, <4>1 DEF QueueTypeOK, Batch
      <4>2. CASE x # b
        BY <3>1, <4>2 DEF QueueTypeOK
      <4> QED
        BY <4>1, <4>2
    <3> QED
      BY <3>3, <3>4
  <2> QED
    BY <2>1, <2>2
<1>5. Keeps
  BY <1>3, <1>4, KeepsLemma DEF Archived
<1>6. bite'[p] \subseteq bite[p]
  BY DEF MarkDone, MarkSkip
<1>7. Cleared(p)' /\ PointFirst(p)' /\ Real(p)' /\ Ordered(p)'
  BY <1>1, <1>2, <1>3
     DEF Cleared, PointFirst, Real, Ordered, Resting, Archiving, Storing, Closing
<1>8. Tracked(p)'
  <2> SUFFICES ASSUME NEW b \in bite[p] \ degraded[p], NEW c \in batches[b].comments
               PROVE  Answered(b, c)'
    BY <1>3, <1>4, <1>6 DEF Tracked
  <2>1. Answered(b, c) \/ Open(p, b, c)
    BY <1>1 DEF LocalInv, Tracked
  <2>2. ~Open(p, b, c)
    BY <1>1, <1>2 DEF Open, Archiving, Storing, Closing
  <2> QED
    BY <1>5, <2>1, <2>2, AnsweredStays
<1>9. \A q \in Process \ {p} : Still(q)
  BY <1>3 DEF Still, MarkDone, MarkSkip, RunGoto
<1> QED
  BY <1>5, <1>7, <1>8, <1>9 DEF LocalInv

LEMMA AgeStep ==
    ASSUME RunInv, NEW p \in Process, Age(p)
    PROVE  Keeps /\ \A q \in Process : Still(q)
<1>1. UNCHANGED <<batches, points, rows, dropped, localVars>>
  BY DEF Age
<1>2. Keeps
  BY <1>1, KeepsLemma DEF Archived
<1> QED
  BY <1>1, <1>2 DEF Still, localVars

(* Every step of a process keeps the invariant of all of them. *)
LEMMA LocalStep ==
    ASSUME RunInv, RunNext
    PROVE  Keeps /\ \A q \in Process : LocalInv(q)'
<1> PICK p \in Process :
        \/ Reap(p) \/ RunStep(p)
        \/ (\E e \in todo[p] : ExtractFailed(p, e)) \/ (\E e \in found[p] : Defer(p, e))
        \/ Raise(p) \/ Die(p) \/ Age(p) \/ StartReembed(p)
  BY DEF RunNext
<1>1. RunTypeOK /\ \A q \in Process : LocalInv(q)
  BY DEF RunInv
<1>2. CASE Age(p)
  BY <1>1, <1>2, AgeStep, Elsewhere
<1>3. CASE ~Age(p)
  <2>1. LocalInv(p)' /\ Keeps /\ \A q \in Process \ {p} : Still(q)
    BY <1>3, QuietStep, BiteStep, ExtractStep, ExtractFailedStep, ExtractDoneStep, RefuseStep,
       DeferStep, AdmitStep, UpsertStep, InsertStep, ArchiveDoneStep, SettleStep DEF RunStep
  <2> QED
    BY <1>1, <2>1, Elsewhere
<1> QED
  BY <1>2, <1>3

----------------------------------------------------------------------------
(* Only MarkDone takes a batch off the queue. *)
LEMMA PendingStays ==
    ASSUME RunTypeOK, RunNext, ~\E p \in Process : \E b \in bite[p] : MarkDone(p, b)
    PROVE  batches' = batches
  BY DEF RunNext, RunStep, Reap, Start, Refused, ReadQueue, Extract, ExtractFailed, ExtractDone,
     Refuse, Defer, Admit, Upsert, Insert, ArchiveDone, MarkSkip, Finish, Raise, Die, Age,
     StartReembed, ReembedPoint, ReembedRow, ReembedDone

(* What batch b leaves behind is answered for, or waits further back. *)
LEMMA HandedOn ==
    ASSUME RunInv, NEW b \in DOMAIN batches, NEW c, Answered(b, c)
    PROVE  Kept1(c) \/ \E a \in Pending : a > b /\ c \in batches[a].comments
<1>1. CASE Kept1(c)
  BY <1>1
<1>2. CASE Later(b, c)
  <2> PICK a \in DOMAIN batches : a > b /\ c \in batches[a].comments
    BY <1>2 DEF Later
  <2>1. CASE a \in Pending
    BY <2>1
  <2>2. CASE a \in Done
    <3>1. Kept1(c) \/ \E x \in Pending : x > a /\ c \in batches[x].comments
      BY <2>2 DEF RunInv, OwedLater
    <3>2. \A x \in DOMAIN batches : x \in Nat
      BY DEF RunInv, RunTypeOK, QueueTypeOK
    <3>3. \A x \in Pending : x > a => x > b
      BY <3>2 DEF Pending
    <3> QED
      BY <3>1, <3>3
  <2> QED
    BY <2>1, <2>2 DEF Done
<1> QED
  BY <1>1, <1>2 DEF Answered

LEMMA OwedStep ==
    ASSUME RunInv, RunNext
    PROVE  OwedLater'
<1> USE DEF RunInv
<1>0. Keeps
  BY LocalStep
<1>1. CASE ~\E p \in Process : \E b \in bite[p] : MarkDone(p, b)
  <2>1. batches' = batches
    BY <1>1, PendingStays
  <2>2. Pending' = Pending /\ Done' = Done
    BY <2>1 DEF Pending, Done
  <2> QED
    BY <1>0, <2>1, <2>2 DEF OwedLater, Keeps
<1>2. CASE \E p \in Process : \E b \in bite[p] : MarkDone(p, b)
  <2> PICK p \in Process : \E b \in bite[p] : MarkDone(p, b)
    BY <1>2
  <2> PICK b \in bite[p] : MarkDone(p, b)
    OBVIOUS
  <2>0. b \in DOMAIN batches /\ \A x \in DOMAIN batches : x \in Nat
    BY DEF RunTypeOK, BiteTypes, QueueTypeOK
  <2>1. b \in bite[p] \ degraded[p] /\ rpc[p] = "settle"
    BY DEF MarkDone, NextToSettle, Settling
  <2>2. batches' = [batches EXCEPT ![b].status = "done"]
    BY DEF MarkDone, MarkProcessed
  <2>3. Pending' = Pending \ {b} /\ Done' = Done \cup {b}
    BY <2>0, <2>2 DEF Pending, Done, RunTypeOK, QueueTypeOK, Batch
  <2>4. ASSUME NEW c \in batches[b].comments
        PROVE  Kept1(c) \/ \E a \in Pending : a > b /\ c \in batches[a].comments
    <3>1. Cleared(p) /\ Tracked(p)
      BY DEF LocalInv
    <3>2. ~Open(p, b, c)
      BY <2>1, <3>1 DEF Open, Cleared, Archiving, Storing, Closing
    <3>3. Answered(b, c)
      BY <2>1, <3>1, <3>2 DEF Tracked
    <3> QED
      BY <2>0, <3>3, HandedOn
  <2> SUFFICES ASSUME NEW x \in Done', NEW c \in (batches[x].comments)'
               PROVE  Kept1(c)' \/ \E a \in Pending' : a > x /\ c \in batches'[a].comments
    BY DEF OwedLater
  <2>5. x \in DOMAIN batches /\ c \in batches[x].comments /\ Pending \subseteq DOMAIN batches
    BY <1>0, <2>0, <2>3 DEF Done, Keeps, Pending
  <2>6. Kept1(c) \/ \E a \in Pending : a > x /\ a # b /\ c \in batches[a].comments
    <3>1. CASE x = b
      BY <2>0, <2>4, <2>5, <3>1
    <3>2. CASE x # b
      <4>1. x \in Done
        BY <2>3, <3>2
      <4>2. Kept1(c) \/ \E a \in Pending : a > x /\ c \in batches[a].comments
        BY <2>5, <4>1 DEF OwedLater
      <4>3. b > x /\ c \in batches[b].comments =>
                Kept1(c) \/ \E a \in Pending : a > x /\ a # b /\ c \in batches[a].comments
        BY <2>0, <2>4, <2>5
      <4> QED
        BY <4>2, <4>3
    <3> QED
      BY <3>1, <3>2
  <2> QED
    BY <1>0, <2>3, <2>5, <2>6 DEF Keeps
<1> QED
  BY <1>1, <1>2

----------------------------------------------------------------------------
(* A row gets its vector before it says so. *)
LEMMA VectorStep ==
    ASSUME RunInv, RunNext
    PROVE  VectorOrFlag'
<1> USE DEF RunInv, VectorOrFlag
<1>0. points \subseteq points'
  BY LocalStep DEF Keeps
<1>1. CASE \E p \in Process : Insert(p)
  <2> PICK p \in Process : Insert(p)
    BY <1>1
  <2>1. rpc[p] = "insert" => writing[p] \subseteq points
    BY DEF LocalInv, PointFirst
  <2> QED
    BY <1>0, <2>1 DEF Insert, StoreTypes, RunTypeOK
<1>2. CASE \E p \in Process : ReembedRow(p)
  <2> PICK p \in Process : ReembedRow(p)
    BY <1>2
  <2>1. writing[p] \subseteq points
    BY DEF LocalInv, PointFirst, ReembedRow
  <2> QED
    BY <1>0, <2>1 DEF ReembedRow
<1>3. CASE ~(\E p \in Process : Insert(p)) /\ ~(\E p \in Process : ReembedRow(p))
  <2>1. rows' = rows
    BY <1>3 DEF RunNext, RunStep, Reap, Start, Refused, ReadQueue, Extract, ExtractFailed,
       ExtractDone, Refuse, Defer, Admit, Upsert, ArchiveDone, MarkDone, MarkSkip, Finish, Raise,
       Die, Age, StartReembed, ReembedPoint, ReembedDone, storeVars
  <2> QED
    BY <1>0, <2>1
<1> QED
  BY <1>1, <1>2, <1>3

----------------------------------------------------------------------------
LEMMA RunInitInv ==
    ASSUME RunInit
    PROVE  RunInv
<1> USE RunAssumption, QueueAssumption DEF RunInit
<1>1. RunTypeOK
  <2>1. DOMAIN batches = DOMAIN Backlog /\ DOMAIN Backlog = 1..Len(Backlog) /\ Len(Backlog) \in Nat
    OBVIOUS
  <2>2. batches \in Seq(Batch)
    <3>1. \A b \in DOMAIN Backlog : batches[b] \in Batch
      BY DEF Batch
    <3> QED
      BY <2>1, <3>1
  <2>3. skip \subseteq Comment
    BY <2>1
  <2>4. LedgerTypes /\ StoreTypes
    BY DEF LedgerTypes, StoreTypes, RunStatus, Archived
  <2>5. BiteTypes /\ WorkTypes
    BY DEF BiteTypes, WorkTypes, RunStage
  <2> QED
    BY <2>2, <2>3, <2>4, <2>5 DEF RunTypeOK, QueueTypeOK
<1>2. \A p \in Process : LocalInv(p)
  BY DEF LocalInv, Cleared, Real, Ordered, Tracked, PointFirst, Resting, Archiving, Storing, Closing
<1>3. OwedLater
  BY DEF OwedLater, Done, Pending
<1>4. VectorOrFlag
  BY DEF VectorOrFlag
<1> QED
  BY <1>1, <1>2, <1>3, <1>4 DEF RunInv

LEMMA RunStutter ==
    ASSUME RunInv, UNCHANGED runVars
    PROVE  RunInv'
<1> USE DEF RunInv, runVars, runOnly, storeVars, localVars
<1>1. RunTypeOK'
  BY RunTypeStep
<1>2. UNCHANGED <<batches, points, rows, dropped>>
  OBVIOUS
<1>3. Keeps
  BY <1>2, KeepsLemma DEF Archived
<1>4. \A q \in Process : LocalInv(q)'
  BY <1>3, Elsewhere DEF Still
<1>5. OwedLater' /\ VectorOrFlag'
  BY <1>2, <1>3 DEF OwedLater, VectorOrFlag, Done, Pending, Keeps
<1> QED
  BY <1>1, <1>4, <1>5

(* The invariant holds of every run of `jester run` and `reembed`, whatever   *)
(* overlaps, dies or fails.                                                  *)
THEOREM RunInvariant == RunSpec => []RunInv
<1>1. RunInit => RunInv
  BY RunInitInv
<1>2. RunInv /\ [RunNext]_runVars => RunInv'
  <2>1. ASSUME RunInv, RunNext
        PROVE  RunInv'
    <3>1. RunTypeOK'
      BY <2>1, RunTypeStep DEF RunInv
    <3> QED
      BY <2>1, <3>1, LocalStep, OwedStep, VectorStep DEF RunInv
  <2> QED
    BY <2>1, RunStutter
<1> QED
  BY <1>1, <1>2, PTL DEF RunSpec

(* The types hold for any processes, comments, queue and bounds. *)
THEOREM RunTypes == RunSpec => []RunTypeOK
<1>1. RunInv => RunTypeOK
  BY DEF RunInv
<1> QED
  BY <1>1, RunInvariant, PTL

(* A batch is only marked done when each of its comments was filtered out, is *)
(* in the archive in some words, or is in a batch still queued; and a row     *)
(* whose point may be missing is always flagged for `reembed`.                *)
THEOREM NoCommentIsLost == RunSpec => []BatchesAreKept
<1>1. RunInv => BatchesAreKept
  BY DEF RunInv, OwedLater, NothingDropped, BatchesAreKept
<1> QED
  BY <1>1, RunInvariant, PTL

----------------------------------------------------------------------------
(* Nothing is done twice, while no live run outlasts the reap window. *)

(* Who works has the one young 'running' row. *)
HoldsRow(p) == Owned(p) => runs[p].status = "running" /\ ~runs[p].old
(* The nugget being archived is one, and its twins in the archive are those  *)
(* no search finds.                                                          *)
TwinsBare(p) ==
    rpc[p] \in Storing =>
        /\ \E c \in Comment : writing[p] = {c}
        /\ \A c \in writing[p] : SameText(c) \cap Archived \subseteq bare
(* What a reembed touches is in the archive already. *)
Outside == {"idle", "reaped", "reembed", "unflag"}
Reembeds(p) == rpc[p] \in Outside => deferred[p] \cup writing[p] \subseteq Archived
FlaggedBare == \A c \in Comment : rows[c] = "flagged" => c \in bare

TwiceInv ==
    /\ \A p \in Process : HoldsRow(p) /\ TwinsBare(p) /\ Reembeds(p)
    /\ SingleFlight /\ TextKeptOnce /\ FlaggedBare
(* One run row is young and running, and its owner works alone. *)
LEMMA LedgerStep ==
    ASSUME ~SlowRun, RunTypeOK, \A p \in Process : HoldsRow(p), SingleFlight, RunNext
    PROVE  (\A p \in Process : HoldsRow(p)') /\ SingleFlight'
<1> USE DEF RunTypeOK, LedgerTypes, BiteTypes, RunStatus
<1> PICK p \in Process :
        \/ Reap(p) \/ RunStep(p)
        \/ (\E e \in todo[p] : ExtractFailed(p, e)) \/ (\E e \in found[p] : Defer(p, e))
        \/ Raise(p) \/ Die(p) \/ Age(p) \/ StartReembed(p)
  BY DEF RunNext
<1>1. CASE Reap(p)
  BY <1>1 DEF Reap, RunGoto, HoldsRow, SingleFlight, Owned, Working, Running
<1>2. CASE Start(p)
  <2>1. \A q \in Process : ~Owned(q)
    BY <1>2 DEF Start, Running, HoldsRow
  <2>2. /\ runs'[p] = [status |-> "running", old |-> FALSE]
        /\ \A q \in Process \ {p} : rpc'[q] = rpc[q]
    BY <1>2 DEF Start, RunGoto
  <2> QED
    BY <2>1, <2>2 DEF HoldsRow, SingleFlight, Owned
<1>3. CASE Finish(p) \/ Raise(p)
  <2>1. rpc'[p] = "idle" /\ \A q \in Process \ {p} : rpc'[q] = rpc[q] /\ runs'[q] = runs[q]
    BY <1>3 DEF Finish, Raise, Close, LetGo, RunGoto
  <2> QED
    BY <2>1 DEF HoldsRow, SingleFlight, Owned, Working
<1>4. CASE Refused(p) \/ Die(p) \/ ReembedDone(p)
  <2>1. /\ rpc'[p] = "idle" /\ runs' = runs
        /\ \A q \in Process \ {p} : rpc'[q] = rpc[q]
    BY <1>4 DEF Refused, Die, ReembedDone, LetGo, RunGoto, storeVars
  <2> QED
    BY <2>1 DEF HoldsRow, SingleFlight, Owned, Working
<1>5. CASE Age(p)
  <2>1. ~Owned(p) /\ rpc' = rpc /\ \A q \in Process \ {p} : runs'[q] = runs[q]
    BY <1>5 DEF Age, localVars
  <2> QED
    BY <2>1 DEF HoldsRow, SingleFlight, Owned
<1>6. CASE StartReembed(p) \/ (\E c \in deferred[p] : ReembedPoint(p, c)) \/ ReembedRow(p)
  <2>1. /\ rpc'[p] \in {"reembed", "unflag"} /\ runs' = runs
        /\ \A q \in Process \ {p} : rpc'[q] = rpc[q]
    BY <1>6 DEF StartReembed, ReembedPoint, ReembedRow, RunGoto, storeVars
  <2> QED
    BY <2>1 DEF HoldsRow, SingleFlight, Owned, Working
<1>7. CASE \/ ReadQueue(p) \/ ExtractDone(p) \/ \E e \in todo[p] : Extract(p, e) \/ ExtractFailed(p, e)
  <2>1. Owned(p) /\ runs' = runs /\ \A q \in Process \ {p} : rpc'[q] = rpc[q]
    BY <1>7 DEF ReadQueue, ExtractDone, Extract, ExtractFailed, RunGoto, storeVars, Owned, Working
  <2> QED
    BY <2>1 DEF HoldsRow, SingleFlight, Owned
<1>8. CASE \/ \E e \in found[p] : Refuse(p, e) \/ Admit(p, e) \/ Defer(p, e)
           \/ Upsert(p) \/ Insert(p) \/ ArchiveDone(p)
           \/ (\E b \in bite[p] : MarkDone(p, b)) \/ MarkSkip(p)
  <2>1. Owned(p) /\ runs' = runs /\ \A q \in Process \ {p} : rpc'[q] = rpc[q]
    BY <1>8 DEF Refuse, Admit, Defer, Upsert, Insert, ArchiveDone, MarkDone, MarkSkip, RunGoto,
       storeVars, Owned, Working
  <2> QED
    BY <2>1 DEF HoldsRow, SingleFlight, Owned
<1> QED
  BY <1>1, <1>2, <1>3, <1>4, <1>5, <1>6, <1>7, <1>8 DEF RunStep

(* A step that archives nothing and admits nothing. *)
LEMMA NothingNew ==
    ASSUME TwiceInv, NEW p \in Process, UNCHANGED <<rows, bare>>,
           \A q \in Process \ {p} : UNCHANGED <<rpc[q], writing[q], deferred[q]>>,
           \/ rpc'[p] \notin Storing \cup Outside
           \/ rpc'[p] \in {"idle", "reaped"} /\ writing'[p] = {} /\ deferred'[p] = {}
           \/ /\ rpc[p] \in Outside /\ rpc'[p] \in {"idle", "reaped"}
              /\ writing'[p] = writing[p] /\ deferred'[p] = deferred[p]
           \/ rpc[p] \in Storing /\ rpc'[p] \in Storing /\ writing'[p] = writing[p]
    PROVE  /\ \A q \in Process : TwinsBare(q)' /\ Reembeds(q)'
           /\ TextKeptOnce' /\ FlaggedBare'
<1>1. Archived' = Archived /\ \A c : SameText(c)' = SameText(c)
  BY DEF Archived, SameText
<1>2. TextKeptOnce' /\ FlaggedBare'
  BY <1>1 DEF TwiceInv, TextKeptOnce, FlaggedBare
<1>3. ASSUME NEW q \in Process
      PROVE  TwinsBare(q)' /\ Reembeds(q)'
  <2>1. CASE q = p
    BY <1>1, <2>1 DEF TwiceInv, TwinsBare, Reembeds, Storing, Outside
  <2>2. CASE q # p
    BY <1>1, <2>2 DEF TwiceInv, TwinsBare, Reembeds
  <2> QED
    BY <2>1, <2>2
<1> QED
  BY <1>2, <1>3

(* No text goes in beside a twin that a search would have found. *)
LEMMA TwinsStep ==
    ASSUME RunInv, TwiceInv, RunNext
    PROVE  /\ \A q \in Process : TwinsBare(q)' /\ Reembeds(q)'
           /\ TextKeptOnce' /\ FlaggedBare'
<1> USE DEF RunInv, RunTypeOK, BiteTypes, WorkTypes, StoreTypes
<1> PICK p \in Process :
        \/ Reap(p) \/ RunStep(p)
        \/ (\E e \in todo[p] : ExtractFailed(p, e)) \/ (\E e \in found[p] : Defer(p, e))
        \/ Raise(p) \/ Die(p) \/ Age(p) \/ StartReembed(p)
  BY DEF RunNext
<1>1. CASE Finish(p) \/ Raise(p) \/ Die(p) \/ ReembedDone(p)
  <2>1. /\ UNCHANGED <<rows, bare>> /\ rpc'[p] = "idle" /\ writing'[p] = {} /\ deferred'[p] = {}
        /\ \A q \in Process \ {p} : UNCHANGED <<rpc[q], writing[q], deferred[q]>>
    BY <1>1 DEF Finish, Raise, Die, ReembedDone, LetGo, RunGoto, storeVars
  <2> QED
    BY <2>1, NothingNew
<1>9. CASE Reap(p) \/ Start(p) \/ Refused(p)
  <2>1. /\ UNCHANGED <<rows, bare, writing, deferred>> /\ rpc[p] \in {"idle", "reaped"}
        /\ rpc'[p] \in {"idle", "reaped", "queue"}
        /\ \A q \in Process \ {p} : UNCHANGED <<rpc[q], writing[q], deferred[q]>>
    BY <1>9 DEF Reap, Start, Refused, RunGoto, storeVars
  <2> QED
    BY <2>1, NothingNew DEF Storing, Outside
<1>2. CASE ReadQueue(p) \/ ExtractDone(p) \/ \E e \in todo[p] : Extract(p, e) \/ ExtractFailed(p, e)
  <2>1. /\ UNCHANGED <<rows, bare>> /\ rpc'[p] \in {"extract", "archive"}
        /\ \A q \in Process \ {p} : UNCHANGED <<rpc[q], writing[q], deferred[q]>>
    BY <1>2 DEF ReadQueue, ExtractDone, Extract, ExtractFailed, RunGoto, storeVars
  <2> QED
    BY <2>1, NothingNew DEF Storing, Outside
<1>3. CASE (\E e \in found[p] : Refuse(p, e) \/ Defer(p, e)) \/ ArchiveDone(p)
           \/ (\E b \in bite[p] : MarkDone(p, b)) \/ MarkSkip(p)
  <2>1. /\ UNCHANGED <<rows, bare>> /\ rpc'[p] \in {"archive", "settle", "skip"}
        /\ \A q \in Process \ {p} : UNCHANGED <<rpc[q], writing[q], deferred[q]>>
    BY <1>3 DEF Refuse, Defer, ArchiveDone, MarkDone, MarkSkip, RunGoto, storeVars
  <2> QED
    BY <2>1, NothingNew DEF Storing, Outside
<1>4. CASE Upsert(p)
  <2>1. /\ UNCHANGED <<rows, bare>> /\ rpc[p] \in Storing /\ rpc'[p] \in Storing
        /\ writing' = writing
        /\ \A q \in Process \ {p} : UNCHANGED <<rpc[q], writing[q], deferred[q]>>
    BY <1>4 DEF Upsert, RunGoto, Storing
  <2> QED
    BY <2>1, NothingNew
<1>5. CASE Age(p)
  BY <1>5 DEF Age, localVars, TwiceInv, TwinsBare, Reembeds, TextKeptOnce, FlaggedBare, Archived,
     SameText
<1>6. ASSUME NEW e \in found[p], Admit(p, e)
      PROVE  /\ \A q \in Process : TwinsBare(q)' /\ Reembeds(q)'
             /\ TextKeptOnce' /\ FlaggedBare'
  <2>1. /\ UNCHANGED <<rows, bare>> /\ rpc'[p] = "upsert" /\ writing'[p] = {e[2]}
        /\ \A q \in Process \ {p} : UNCHANGED <<rpc[q], writing[q], deferred[q]>>
        /\ ~Duplicate(e[2])
    BY <1>6 DEF Admit, RunGoto, storeVars
  <2>2. Archived' = Archived /\ \A c : SameText(c)' = SameText(c)
    BY <2>1 DEF Archived, SameText
  <2>3. e[2] \in Comment
    BY PairFacts
  <2>4. SameText(e[2]) \cap Archived \subseteq bare
    <3> SUFFICES ASSUME NEW d \in SameText(e[2]) \cap Archived
                 PROVE  d \in bare
      OBVIOUS
    <3>1. d \in Comment /\ d \notin points
      BY <2>1 DEF Duplicate, Archived
    <3> QED
      BY <3>1 DEF Archived, VectorOrFlag, TwiceInv, FlaggedBare
  <2>5. TextKeptOnce' /\ FlaggedBare'
    BY <2>1, <2>2 DEF TwiceInv, TextKeptOnce, FlaggedBare
  <2>6. TwinsBare(p)' /\ Reembeds(p)'
    BY <2>1, <2>2, <2>3, <2>4 DEF TwinsBare, Reembeds, Outside
  <2>7. ASSUME NEW q \in Process \ {p}
        PROVE  TwinsBare(q)' /\ Reembeds(q)'
    <3>1. rpc'[q] = rpc[q] /\ writing'[q] = writing[q] /\ deferred'[q] = deferred[q]
      BY <2>1
    <3>2. TwinsBare(q) /\ Reembeds(q)
      BY DEF TwiceInv
    <3> QED
      BY <2>1, <2>2, <3>1, <3>2 DEF TwinsBare, Reembeds
  <2> QED
    BY <2>5, <2>6, <2>7
<1>7. CASE Insert(p)
  <2>1. PICK c \in Comment : writing[p] = {c} /\ SameText(c) \cap Archived \subseteq bare
    BY <1>7 DEF Insert, TwiceInv, TwinsBare, Storing
  <2>2. /\ rpc[p] \in {"insert", "insert bare"} /\ rpc'[p] = "archive"
        /\ \A q \in Process \ {p} : UNCHANGED <<rpc[q], writing[q], deferred[q]>>
        /\ \A d \in Comment \ {c} : rows'[d] = rows[d]
        /\ rows'[c] = IF c \in Archived THEN rows[c]
                      ELSE IF rpc[p] = "insert" THEN "embedded" ELSE "flagged"
        /\ bare' = IF rpc[p] = "insert bare" THEN bare \cup ({c} \ Archived) ELSE bare
    BY <1>7, <2>1 DEF Insert, RunGoto
  <2>3. Archived' = Archived \cup {c}
    BY <2>1, <2>2 DEF Archived
  <2>4. \A d : SameText(d)' = SameText(d)
    BY DEF SameText
  <2>5. \A q \in Process : TwinsBare(q)'
    <3>1. \A q \in Process \ {p} : rpc[q] \notin Storing
      BY <2>2 DEF TwiceInv, SingleFlight, Owned, Working, Storing
    <3> QED
      BY <2>2, <3>1 DEF TwinsBare, Storing
  <2>6. \A q \in Process : Reembeds(q)'
    BY <2>2, <2>3 DEF TwiceInv, Reembeds, Outside
  <2>7. FlaggedBare'
    BY <2>1, <2>2 DEF TwiceInv, FlaggedBare, Archived
  <2>8. TextKeptOnce'
    <3> SUFFICES ASSUME NEW x \in Archived', NEW y \in (SameText(x) \cap Archived)'
                 PROVE  {x, y} \cap bare' # {}
      BY DEF TextKeptOnce
    <3>1. bare \subseteq bare'
      BY <2>2
    <3>2. y \in SameText(x) /\ x \in SameText(y) /\ x # y
      BY <2>4 DEF SameText, Archived
    <3>3. CASE x \in Archived /\ y \in Archived
      BY <3>1, <3>2, <3>3 DEF TwiceInv, TextKeptOnce
    <3>4. CASE x = c \/ y = c
      BY <2>1, <2>3, <3>1, <3>2, <3>4
    <3> QED
      BY <2>3, <3>3, <3>4
  <2> QED
    BY <2>5, <2>6, <2>7, <2>8
<1>8. CASE StartReembed(p) \/ (\E c \in deferred[p] : ReembedPoint(p, c)) \/ ReembedRow(p)
  <2>1. /\ rpc'[p] \in {"reembed", "unflag"} /\ bare' = bare
        /\ \A q \in Process \ {p} : UNCHANGED <<rpc[q], writing[q], deferred[q]>>
    BY <1>8 DEF StartReembed, ReembedPoint, ReembedRow, RunGoto, storeVars
  <2>2. Archived' = Archived
    BY <1>8 DEF StartReembed, ReembedPoint, ReembedRow, storeVars, Archived, TwiceInv, Reembeds, Outside
  <2>3. deferred'[p] \cup writing'[p] \subseteq Archived
    <3>1. CASE StartReembed(p)
      BY <3>1 DEF StartReembed, Archived, TwiceInv, Reembeds, Outside
    <3>2. CASE (\E c \in deferred[p] : ReembedPoint(p, c)) \/ ReembedRow(p)
      BY <3>2 DEF ReembedPoint, ReembedRow, TwiceInv, Reembeds, Outside
    <3> QED
      BY <1>8, <3>1, <3>2
  <2>4. \A c \in Comment : rows'[c] = "flagged" => rows[c] = "flagged"
    BY <1>8 DEF StartReembed, ReembedPoint, ReembedRow, storeVars
  <2>5. \A d : SameText(d)' = SameText(d)
    BY DEF SameText
  <2>6. TextKeptOnce' /\ FlaggedBare'
    BY <2>1, <2>2, <2>4, <2>5 DEF TwiceInv, TextKeptOnce, FlaggedBare
  <2>7. TwinsBare(p)' /\ Reembeds(p)'
    BY <2>1, <2>2, <2>3 DEF TwinsBare, Reembeds, Storing, Outside
  <2>8. \A q \in Process \ {p} : TwinsBare(q)' /\ Reembeds(q)'
    BY <2>1, <2>2, <2>5 DEF TwiceInv, TwinsBare, Reembeds
  <2> QED
    BY <2>6, <2>7, <2>8
<1> QED
  BY <1>1, <1>2, <1>3, <1>4, <1>5, <1>6, <1>7, <1>8, <1>9 DEF RunStep

(* At the start nobody works and nothing is archived. *)
LEMMA TwiceStart ==
    ASSUME RunInit
    PROVE  TwiceInv
<1>1. /\ \A p \in Process : rpc[p] = "idle" /\ writing[p] = {} /\ deferred[p] = {}
      /\ Archived = {} /\ \A c \in Comment : rows[c] = "absent"
  BY DEF RunInit, Archived
<1> QED
  BY <1>1 DEF TwiceInv, HoldsRow, Owned, Working, TwinsBare, Storing, Reembeds, SingleFlight,
     TextKeptOnce, FlaggedBare

(* A step of a run keeps all of it. *)
LEMMA RunsStep ==
    ASSUME RunInv, TwiceInv, ~SlowRun, RunNext
    PROVE  RunInv' /\ TwiceInv'
<1>1. RunInv'
  BY RunTypeStep, LocalStep, OwedStep, VectorStep DEF RunInv
<1>2. RunTypeOK /\ SingleFlight /\ \A p \in Process : HoldsRow(p)
  BY DEF RunInv, TwiceInv
<1>3. SingleFlight' /\ \A p \in Process : HoldsRow(p)'
  BY <1>2, LedgerStep
<1> QED
  BY <1>1, <1>3, TwinsStep DEF TwiceInv

(* Nothing but a run's own steps disturbs it. *)
LEMMA TwiceStays ==
    ASSUME TwiceInv, UNCHANGED runOnly
    PROVE  TwiceInv'
  BY DEF runOnly, storeVars, localVars, TwiceInv, HoldsRow, Owned, TwinsBare,
     Reembeds, SingleFlight, TextKeptOnce, FlaggedBare, Archived, SameText

(* One run works at a time, and of two rows with the same text one went in    *)
(* without a vector, when no live run outlasts the reap window: through any   *)
(* kills, ghost points, redeliveries, failed calls and reembeds.              *)
THEOREM NothingIsDoneTwice == ~SlowRun => (RunSpec => []NothingTwice)
<1> SUFFICES ASSUME ~SlowRun
             PROVE  RunSpec => []NothingTwice
  OBVIOUS
<1>1. RunInit => TwiceInv
  BY TwiceStart
<1>2. RunInv /\ TwiceInv /\ [RunNext]_runVars => TwiceInv'
  BY RunsStep, TwiceStays DEF runVars
<1>3. TwiceInv => NothingTwice
  BY DEF TwiceInv, NothingTwice
<1> QED
  BY <1>1, <1>2, <1>3, RunInvariant, PTL DEF RunSpec

----------------------------------------------------------------------------
(* The worker and the runs over one database. *)

(* A worker holds what it marked and has not queued; at most one comment,    *)
(* which nobody holds or queued, is on its way to the mark.                  *)
Holding(f) ==
    /\ fpc[f] \in {"idle", "threads", "read"} => hand[f] = {}
    /\ fpc[f] # "mark" => fresh[f] = {}
    /\ fpc[f] = "mark" => \E c \in Comment \ hand[f] : fresh[f] = {c}
    /\ (hand[f] \cup fresh[f]) \cap Queued = {}
WorkerTypes ==
    /\ fetchFails \in Nat
    /\ fpc \in [Fetcher -> FetchStage]
    /\ left \in [Fetcher -> SUBSET Comment]
    /\ fresh \in [Fetcher -> SUBSET Comment]
    /\ hand \in [Fetcher -> SUBSET Comment]
WorkerInv ==
    /\ WorkerTypes /\ \A f \in Fetcher : Holding(f)
    /\ Queued \cup InHand \subseteq skip /\ QueuedOnce

(* What a process works on is in the queue until it settles it itself.       *)
InBite(p) ==
    /\ bite[p] \subseteq Pending
    /\ \A e \in todo[p] \cup found[p] : e[1] \in bite[p]
    /\ rpc[p] \in Storing => \A c \in writing[p] : InPending(c)

CustodyInv == RunInv /\ TwiceInv /\ WorkerInv /\ \A p \in Process : InBite(p)

----------------------------------------------------------------------------
(* The worker's steps leave a run alone: the queue only grows at its end. *)
Grows ==
    /\ QueueTypeOK' /\ DOMAIN batches \subseteq DOMAIN batches'
    /\ \A b \in DOMAIN batches : batches'[b] = batches[b]
    /\ Done' = Done

(* A batch is appended, pending. *)
LEMMA EnqueueGrows ==
    ASSUME QueueTypeOK, NEW cs \in SUBSET Comment, EnqueueBatch(cs), skip' = skip
    PROVE  /\ Grows
           /\ \E n \in DOMAIN batches' \ DOMAIN batches :
                 /\ DOMAIN batches' = DOMAIN batches \cup {n}
                 /\ batches'[n] = [comments |-> cs, status |-> "pending"]
<1> DEFINE new == [comments |-> cs, status |-> "pending"]
           n == Len(batches) + 1
<1>1. batches \in Seq(Batch) /\ batches' = Append(batches, new) /\ new \in Batch
  BY DEF QueueTypeOK, EnqueueBatch, Batch
<1>2. /\ Len(batches) \in Nat /\ DOMAIN batches = 1..Len(batches)
      /\ batches' \in Seq(Batch) /\ DOMAIN batches' = 1..n
      /\ batches'[n] = new /\ \A b \in DOMAIN batches : batches'[b] = batches[b]
  BY <1>1
<1>3. DOMAIN batches' = DOMAIN batches \cup {n} /\ n \in DOMAIN batches' /\ n \notin DOMAIN batches
  BY <1>2
<1>4. Done' = Done
  <2>1. batches'[n].status = "pending"
    BY <1>2
  <2> QED
    BY <1>2, <1>3, <2>1 DEF Done, Pending
<1>5. QueueTypeOK'
  BY <1>2 DEF QueueTypeOK
<1> QED
  BY <1>2, <1>3, <1>4, <1>5 DEF Grows

(* Growing includes staying as it is. *)
LEMMA StillGrows ==
    ASSUME QueueTypeOK, batches' = batches, skip' \subseteq Comment
    PROVE  Grows
  BY DEF Grows, QueueTypeOK, Done, Pending

(* What is queued or pending stays so. *)
LEMMA GrowthFacts ==
    ASSUME Grows
    PROVE  /\ Pending \subseteq Pending' /\ Queued \subseteq Queued'
           /\ \A c : InPending(c) => InPending(c)'
<1>1. Pending \subseteq Pending'
  BY DEF Grows, Pending
<1>2. \A b \in DOMAIN batches : b \in DOMAIN batches' /\ batches'[b].comments = batches[b].comments
  BY DEF Grows
<1>3. Queued \subseteq Queued'
  BY <1>2 DEF Queued
<1> QED
  BY <1>1, <1>2, <1>3 DEF InPending, Pending

(* A run does not notice batches added behind it. *)
LEMMA GrowthKeepsRun ==
    ASSUME RunInv, Grows, UNCHANGED runOnly
    PROVE  RunInv'
<1> USE DEF RunInv, Grows
<1>1. UNCHANGED <<storeVars, bounds, localVars>>
  BY DEF runOnly
<1>2. Pair \subseteq Pair' /\ Pending \subseteq Pending'
  BY GrowthFacts DEF Pair
<1>3. RunTypeOK'
  <2>1. LedgerTypes' /\ StoreTypes'
    BY <1>1 DEF RunTypeOK, LedgerTypes, StoreTypes, storeVars, bounds, Archived
  <2>2. BiteTypes' /\ WorkTypes'
    <3>1. UNCHANGED localVars /\ BiteTypes /\ WorkTypes
      BY <1>1 DEF RunTypeOK
    <3>2. BiteTypes'
      BY <3>1 DEF BiteTypes, localVars
    <3>3. WorkTypes'
      BY <1>2, <3>1 DEF WorkTypes, localVars
    <3> QED
      BY <3>2, <3>3
  <2> QED
    BY <2>1, <2>2 DEF RunTypeOK
<1>4. /\ UNCHANGED <<points, rows, dropped>>
      /\ Archived' = Archived /\ \A c : Kept1(c)' <=> Kept1(c)
  BY <1>1 DEF storeVars, Archived, Kept1, SameText
<1>5. ASSUME NEW q \in Process
      PROVE  LocalInv(q)'
  <2>1. LocalInv(q) /\ UNCHANGED <<localVars, points>>
    BY <1>1, <1>4
  <2>2. /\ \A b \in bite[q] : b \in DOMAIN batches
        /\ \A e \in todo[q] \cup found[q] : e[1] \in DOMAIN batches
    BY PairFacts DEF RunTypeOK, BiteTypes
  <2>3. Cleared(q)' /\ PointFirst(q)'
    BY <2>1 DEF LocalInv, Cleared, PointFirst, localVars
  <2>4. Real(q)'
    BY <2>1, <2>2 DEF LocalInv, Real, localVars
  <2>5. Ordered(q)'
    BY <2>1 DEF LocalInv, Ordered, localVars
  <2>6. Tracked(q)'
    <3> SUFFICES ASSUME NEW b \in bite[q] \ degraded[q], NEW c \in batches[b].comments
                 PROVE  (Answered(b, c) \/ Open(q, b, c))'
      BY <2>1, <2>2 DEF Tracked, localVars
    <3>1. Answered(b, c) \/ Open(q, b, c)
      BY <2>1 DEF LocalInv, Tracked
    <3>2. Open(q, b, c) => Open(q, b, c)'
      BY <2>1 DEF Open, localVars
    <3>3. Answered(b, c) => Answered(b, c)'
      BY <1>4 DEF Answered, Later
    <3> QED
      BY <3>1, <3>2, <3>3
  <2> QED
    BY <2>3, <2>4, <2>5, <2>6 DEF LocalInv
<1>6. OwedLater' /\ VectorOrFlag'
  <2>1. VectorOrFlag'
    BY <1>4 DEF VectorOrFlag
  <2>2. OwedLater'
    <3> SUFFICES ASSUME NEW b \in Done, NEW c \in batches[b].comments
                 PROVE  (Kept1(c) \/ \E a \in Pending : a > b /\ c \in batches[a].comments)'
      BY DEF OwedLater, Done
    <3>1. Kept1(c) \/ \E a \in Pending : a > b /\ c \in batches[a].comments
      BY DEF OwedLater
    <3> QED
      BY <1>2, <1>4, <3>1 DEF Pending
  <2> QED
    BY <2>1, <2>2
<1> QED
  BY <1>3, <1>5, <1>6

----------------------------------------------------------------------------
(* The steps of a worker. *)
NoHand == {"idle", "threads", "read"}
Calm ==
    /\ UNCHANGED <<batches, skip, hand, fresh>> /\ WorkerTypes'
    /\ \A g \in Fetcher :
          \/ fpc'[g] = fpc[g]
          \/ fpc[g] # "mark" /\ fpc'[g] # "mark" /\ (fpc'[g] \in NoHand => fpc[g] \in NoHand)

(* Every step of the one worker, sorted. *)
LEMMA FetchCases ==
    ASSUME WorkerInv, FetchNext, FetchFailBound = 0
    PROVE  \/ Calm
           \/ \E f \in Fetcher : (\E c \in left[f] : Take(f, c)) \/ Mark(f) \/ Enqueue(f)
<1> USE DEF WorkerInv, WorkerTypes, FetchGoto, FetchStage, NoHand
<1>1. ASSUME NEW c \in Comment, Post(c)
      PROVE  Calm
  BY <1>1 DEF Post, Calm, fetcherVars
<1>2. ASSUME NEW f \in Fetcher, FetchExit(f)
      PROVE  FALSE
  BY <1>2 DEF FetchExit
<1>3. ASSUME NEW f \in Fetcher, NEW v \in visit[f], SkipUnchanged(f, v) \/ FetchFailed(f, v)
      PROVE  Calm
  BY <1>3 DEF SkipUnchanged, FetchFailed, Calm
<1>4. ASSUME NEW f \in Fetcher, NEW v \in visit[f], FetchThread(f, v)
      PROVE  Calm
  <2>1. posted \cap InThread(v.thread) \in SUBSET Comment
    BY DEF InThread
  <2> QED
    BY <1>4, <2>1 DEF FetchThread, Calm
<1>5. ASSUME NEW f \in Fetcher, ListThreads(f)
      PROVE  Calm
  BY <1>5 DEF ListThreads, Calm
<1>6. ASSUME NEW f \in Fetcher, NEW c \in left[f], PassOver(f, c)
      PROVE  Calm
  BY <1>6 DEF PassOver, Calm
<1>7. ASSUME NEW f \in Fetcher, StopExamining(f)
      PROVE  Calm
  BY <1>7 DEF StopExamining, Calm
<1>8. ASSUME NEW f \in Fetcher, MarkThreadRead(f)
      PROVE  Calm
  BY <1>8 DEF MarkThreadRead, Calm
<1>9. ASSUME NEW f \in Fetcher, FetchDone(f)
      PROVE  Calm
  <2>1. hand[f] = {} /\ fresh[f] = {}
    BY <1>9 DEF FetchDone, Holding
  <2>2. hand' = hand /\ fresh' = fresh
    BY <1>9, <2>1 DEF FetchDone, FetcherGone
  <2> QED
    BY <1>9, <2>2 DEF FetchDone, FetcherGone, Calm
<1> QED
  BY <1>1, <1>2, <1>3, <1>4, <1>5, <1>6, <1>7, <1>8, <1>9 DEF FetchNext, FetcherNext

(* Any worker only adds to the queue. *)
LEMMA FetchGrows ==
    ASSUME QueueTypeOK, WorkerTypes, FetchNext
    PROVE  Grows /\ WorkerTypes'
<1> USE DEF WorkerTypes, FetchGoto, FetchStage
<1>1. ASSUME UNCHANGED <<batches, skip>>
      PROVE  Grows
  BY <1>1, StillGrows DEF QueueTypeOK
<1>2. ASSUME NEW c \in Comment, Post(c)
      PROVE  Grows /\ WorkerTypes'
  BY <1>1, <1>2 DEF Post, fetcherVars
<1>3. ASSUME NEW f \in Fetcher, NEW v \in visit[f],
             SkipUnchanged(f, v) \/ FetchFailed(f, v) \/ FetchThread(f, v)
      PROVE  Grows /\ WorkerTypes'
  <2>1. posted \cap InThread(v.thread) \in SUBSET Comment
    BY DEF InThread
  <2> QED
    BY <1>1, <1>3, <2>1 DEF SkipUnchanged, FetchFailed, FetchThread
<1>4. ASSUME NEW f \in Fetcher, ListThreads(f) \/ StopExamining(f) \/ MarkThreadRead(f)
      PROVE  Grows /\ WorkerTypes'
  BY <1>1, <1>4 DEF ListThreads, StopExamining, MarkThreadRead
<1>5. ASSUME NEW f \in Fetcher, NEW c \in left[f], PassOver(f, c) \/ Take(f, c)
      PROVE  Grows /\ WorkerTypes'
  BY <1>1, <1>5 DEF PassOver, Take
<1>6. ASSUME NEW f \in Fetcher, FetchDone(f) \/ FetchExit(f)
      PROVE  Grows /\ WorkerTypes'
  BY <1>1, <1>6 DEF FetchDone, FetchExit, FetcherGone
<1>7. ASSUME NEW f \in Fetcher, Mark(f)
      PROVE  Grows /\ WorkerTypes'
  <2>1. batches' = batches /\ skip' \subseteq Comment
    BY <1>7 DEF Mark, MarkIngested, QueueTypeOK
  <2> QED
    BY <1>7, <2>1, StillGrows DEF Mark
<1>8. ASSUME NEW f \in Fetcher, Enqueue(f)
      PROVE  Grows /\ WorkerTypes'
  <2>1. WorkerTypes'
    BY <1>8 DEF Enqueue
  <2>2. CASE hand[f] = {}
    BY <1>1, <1>8, <2>1, <2>2 DEF Enqueue
  <2>3. CASE hand[f] # {}
    BY <1>8, <2>1, <2>3, EnqueueGrows DEF Enqueue
  <2> QED
    BY <2>2, <2>3
<1> QED
  BY <1>2, <1>3, <1>4, <1>5, <1>6, <1>7, <1>8 DEF FetchNext, FetcherNext

(* One worker queues a comment once and holds what it marked until then. *)
LEMMA WorkerStep ==
    ASSUME QueueTypeOK, WorkerInv, FetchNext, FetchFailBound = 0, \A f, g \in Fetcher : f = g
    PROVE  WorkerInv'
<1> USE DEF WorkerInv, FetchGoto
<1>1. CASE Calm
  <2>1. Queued' = Queued /\ InHand' = InHand /\ QueuedOnce'
    BY <1>1 DEF Calm, Queued, InHand, QueuedOnce
  <2>2. \A g \in Fetcher : Holding(g)'
    BY <1>1, <2>1 DEF Calm, Holding, NoHand
  <2> QED
    BY <1>1, <2>1, <2>2 DEF Calm
<1>2. ASSUME NEW f \in Fetcher, NEW c \in left[f], Take(f, c)
      PROVE  WorkerInv'
  <2>1. UNCHANGED <<batches, skip, hand, fetchFails>> /\ c \in Comment /\ c \notin skip
    BY <1>2 DEF Take, WorkerTypes
  <2>2. Queued' = Queued /\ InHand' = InHand /\ QueuedOnce'
    BY <2>1 DEF Queued, InHand, QueuedOnce
  <2>3. WorkerTypes'
    BY <1>2, <2>1 DEF Take, WorkerTypes, FetchStage
  <2>4. fresh'[f] = {c} /\ fpc'[f] = "mark" /\ c \notin hand[f]
    BY <1>2, <2>1 DEF Take, WorkerTypes, InHand
  <2>5. Holding(f)'
    BY <2>1, <2>2, <2>4 DEF Holding
  <2> QED
    BY <2>1, <2>2, <2>3, <2>5
<1>3. ASSUME NEW f \in Fetcher, Mark(f)
      PROVE  WorkerInv'
  <2>1. /\ UNCHANGED <<batches, left, fetchFails>> /\ skip' = skip \cup fresh[f]
        /\ hand'[f] = hand[f] \cup fresh[f] /\ fresh'[f] = {} /\ fpc'[f] = "examine"
    BY <1>3 DEF Mark, MarkIngested, WorkerTypes
  <2>2. Queued' = Queued /\ QueuedOnce'
    BY <2>1 DEF Queued, QueuedOnce
  <2>3. WorkerTypes'
    BY <1>3, <2>1 DEF Mark, WorkerTypes, FetchStage
  <2>4. Holding(f)'
    BY <2>1, <2>2 DEF Holding
  <2>5. InHand = hand[f] /\ InHand' = hand'[f]
    BY DEF InHand
  <2> QED
    BY <2>1, <2>2, <2>3, <2>4, <2>5
<1>4. ASSUME NEW f \in Fetcher, Enqueue(f)
      PROVE  WorkerInv'
  <2>1. /\ UNCHANGED <<skip, left, fresh, fetchFails>>
        /\ hand'[f] = {} /\ fpc'[f] = "read" /\ fpc[f] = "enqueue"
    BY <1>4 DEF Enqueue, WorkerTypes
  <2>2. WorkerTypes'
    BY <1>4, <2>1 DEF Enqueue, WorkerTypes, FetchStage
  <2>3. InHand = hand[f] /\ InHand' = {} /\ fresh'[f] = {}
    BY <2>1 DEF InHand, Holding
  <2>4. Queued' = Queued \cup hand[f] /\ QueuedOnce'
    <3>1. CASE hand[f] = {}
      BY <1>4, <3>1 DEF Enqueue, Queued, QueuedOnce
    <3>2. CASE hand[f] # {}
      <4> PICK n \in DOMAIN batches' \ DOMAIN batches :
              /\ DOMAIN batches' = DOMAIN batches \cup {n}
              /\ batches'[n] = [comments |-> hand[f], status |-> "pending"]
        BY <1>4, <2>1, <3>2, EnqueueGrows DEF Enqueue, WorkerTypes
      <4>1. \A b \in DOMAIN batches : batches'[b] = batches[b]
        BY <1>4, <2>1, <3>2, EnqueueGrows DEF Enqueue, WorkerTypes, Grows
      <4>2. batches'[n].comments = hand[f]
        OBVIOUS
      <4>3. Queued' = Queued \cup hand[f]
        BY <4>1, <4>2 DEF Queued
      <4>4. \A b \in DOMAIN batches : batches[b].comments \cap hand[f] = {}
        BY DEF Holding, Queued
      <4>5. QueuedOnce'
        BY <4>1, <4>2, <4>4 DEF QueuedOnce
      <4> QED
        BY <4>3, <4>5
    <3> QED
      BY <3>1, <3>2
  <2>5. Holding(f)'
    BY <2>1, <2>3 DEF Holding
  <2> QED
    BY <2>1, <2>2, <2>3, <2>4, <2>5
<1> QED
  BY <1>1, <1>2, <1>3, <1>4, FetchCases

(* No bite loses a batch to the worker. *)
LEMMA BitesStay ==
    ASSUME RunTypeOK, Grows, UNCHANGED runOnly, NEW p \in Process, InBite(p)
    PROVE  InBite(p)'
<1>1. Pending \subseteq Pending' /\ \A c : InPending(c) => InPending(c)'
  BY GrowthFacts
<1>2. UNCHANGED <<rpc, bite, todo, found, writing>>
  BY DEF runOnly, localVars
<1> QED
  BY <1>1, <1>2 DEF InBite

----------------------------------------------------------------------------
(* The steps of a run. *)
LEMMA WorkerStays ==
    ASSUME Keeps, skip \subseteq skip', WorkerInv, UNCHANGED fetchOnly
    PROVE  WorkerInv'
<1>1. UNCHANGED <<fetchFails, fpc, left, fresh, hand>>
  BY DEF fetchOnly, fetcherVars
<1>2. Queued' = Queued /\ InHand' = InHand
  BY <1>1 DEF Keeps, Queued, InHand
<1>3. QueuedOnce'
  BY DEF Keeps, QueuedOnce, WorkerInv
<1>4. WorkerTypes'
  BY <1>1 DEF WorkerTypes, WorkerInv
<1>5. \A f \in Fetcher : Holding(f)'
  BY <1>1, <1>2 DEF WorkerInv, Holding
<1> QED
  BY <1>2, <1>3, <1>4, <1>5 DEF WorkerInv

(* The skip-list only grows. *)
LEMMA SkipGrows ==
    ASSUME RunNext
    PROVE  skip \subseteq skip'
<1>1. CASE \E p \in Process : MarkSkip(p)
  BY <1>1 DEF MarkSkip, MarkIngested
<1>2. CASE ~\E p \in Process : MarkSkip(p)
  BY <1>2 DEF RunNext, RunStep, Reap, Start, Refused, ReadQueue, Extract, ExtractFailed, ExtractDone,
     Refuse, Defer, Admit, Upsert, Insert, ArchiveDone, MarkDone, Finish, Raise, Die, Age,
     StartReembed, ReembedPoint, ReembedRow, ReembedDone
<1> QED
  BY <1>1, <1>2

(* The same batches leave the same comments pending. *)
LEMMA SameBatches ==
    ASSUME batches' = batches
    PROVE  Pending' = Pending /\ \A c : InPending(c)' <=> InPending(c)
  BY DEF Pending, InPending

(* A batch a process took is settled by that process alone. *)
LEMMA BiteKept ==
    ASSUME RunInv, TwiceInv, WorkerInv, \A p \in Process : InBite(p), RunNext
    PROVE  \A p \in Process : InBite(p)'
<1> USE DEF RunInv, RunTypeOK, BiteTypes, WorkTypes
<1>1. ASSUME NEW p \in Process, NEW b \in bite[p], MarkDone(p, b)
      PROVE  \A q \in Process : InBite(q)'
  <2>1. /\ rpc[p] = "settle" /\ rpc'[p] = "skip" /\ bite'[p] = bite[p] \ {b}
        /\ UNCHANGED <<todo, found>> /\ b \in DOMAIN batches
        /\ \A q \in Process \ {p} : UNCHANGED <<rpc[q], bite[q], todo[q], found[q], writing[q]>>
    BY <1>1 DEF MarkDone, RunGoto
  <2>2. todo[p] = {} /\ found[p] = {}
    BY <2>1 DEF LocalInv, Cleared, Closing
  <2>3. Pending' = Pending \ {b}
    <3>1. /\ DOMAIN batches' = DOMAIN batches /\ batches'[b].status = "done"
          /\ \A a \in DOMAIN batches \ {b} : batches'[a] = batches[a]
      <4>1. batches \in Seq(Batch) /\ batches[b] \in Batch
        BY <2>1 DEF QueueTypeOK
      <4> QED
        BY <1>1, <2>1, <4>1 DEF MarkDone, MarkProcessed, Batch
    <3> QED
      BY <3>1 DEF Pending
  <2>4. InBite(p)'
    BY <2>1, <2>2, <2>3 DEF InBite, Storing
  <2>5. ASSUME NEW q \in Process \ {p}
        PROVE  InBite(q)'
    <3>1. ~Owned(q)
      BY <2>1 DEF TwiceInv, SingleFlight, Owned, Working
    <3>2. rpc[q] \in Resting /\ rpc[q] \notin Storing
      BY <3>1 DEF Owned, Working, RunStage, Resting, Storing
    <3>3. bite[q] = {} /\ todo[q] = {} /\ found[q] = {}
      BY <3>2 DEF LocalInv, Cleared
    <3> QED
      BY <2>1, <3>2, <3>3 DEF InBite
  <2> QED
    BY <2>4, <2>5
<1>2. CASE ~\E q \in Process : \E b \in bite[q] : MarkDone(q, b)
  <2> PICK p \in Process :
          \/ Reap(p) \/ RunStep(p)
          \/ (\E e \in todo[p] : ExtractFailed(p, e)) \/ (\E e \in found[p] : Defer(p, e))
          \/ Raise(p) \/ Die(p) \/ Age(p) \/ StartReembed(p)
    BY DEF RunNext
  <2>1. batches' = batches
    BY <1>2, PendingStays
  <2>2. Pending' = Pending /\ \A c : InPending(c)' <=> InPending(c)
    BY <2>1, SameBatches
  <2>3. ASSUME NEW q \in Process \ {p}
        PROVE  InBite(q)'
    <3>1. UNCHANGED <<rpc[q], bite[q], todo[q], found[q], writing[q]>>
      BY <1>2 DEF RunStep, Reap, Start, Refused, ReadQueue, Extract, ExtractFailed,
         ExtractDone, Refuse, Defer, Admit, Upsert, Insert, ArchiveDone, MarkSkip, Finish,
         Raise, Die, Age, StartReembed, ReembedPoint, ReembedRow, ReembedDone, LetGo, RunGoto,
         localVars
    <3> QED
      BY <2>2, <3>1 DEF InBite
  <2>4. LocalInv(p)' /\ LocalInv(p)
    BY LocalStep
  <2>5. ASSUME rpc'[p] \in Resting
        PROVE  InBite(p)'
    BY <2>4, <2>5 DEF LocalInv, Cleared, InBite, Resting, Storing
  <2>6. ASSUME bite'[p] = bite[p], todo'[p] \subseteq todo[p],
               found'[p] \subseteq found[p] \cup todo[p],
               rpc'[p] \in Storing => \A c \in writing'[p] : InPending(c)
        PROVE  InBite(p)'
    BY <2>2, <2>6 DEF InBite
  <2>7. ASSUME ReadQueue(p)
        PROVE  InBite(p)'
    <3>1. /\ rpc'[p] = "extract" /\ bite'[p] = Bitten /\ found'[p] = found[p] /\ rpc[p] = "queue"
          /\ \A e \in todo'[p] : e[1] \in Bitten
      BY <2>7 DEF ReadQueue, RunGoto
    <3>2. found[p] = {}
      BY <2>4, <3>1 DEF LocalInv, Cleared, Resting
    <3> QED
      BY <2>2, <3>1, <3>2 DEF InBite, Bitten, Storing
  <2>8. ASSUME \E e \in todo[p] : Extract(p, e) \/ ExtractFailed(p, e)
        PROVE  InBite(p)'
    <3>1. /\ rpc'[p] = "extract" /\ bite'[p] = bite[p] /\ todo'[p] \subseteq todo[p]
          /\ found'[p] \subseteq found[p] \cup todo[p]
      BY <2>8 DEF Extract, ExtractFailed
    <3> QED
      BY <2>6, <3>1 DEF Storing
  <2>9. ASSUME \/ ExtractDone(p) \/ (\E e \in found[p] : Refuse(p, e) \/ Defer(p, e))
               \/ ArchiveDone(p) \/ MarkSkip(p)
        PROVE  InBite(p)'
    <3>1. /\ rpc'[p] \notin Storing /\ bite'[p] = bite[p] /\ todo'[p] = todo[p]
          /\ found'[p] \subseteq found[p]
      BY <2>9 DEF ExtractDone, Refuse, Defer, ArchiveDone, MarkSkip, RunGoto, Storing
    <3> QED
      BY <2>6, <3>1
  <2>10. ASSUME NEW e \in found[p], Admit(p, e)
         PROVE  InBite(p)'
    <3>1. /\ bite'[p] = bite[p] /\ todo'[p] = todo[p] /\ found'[p] \subseteq found[p]
          /\ writing'[p] = {e[2]}
      BY <2>10 DEF Admit
    <3>2. InPending(e[2])
      BY <2>4 DEF InBite, LocalInv, Real, InPending
    <3> QED
      BY <2>6, <3>1, <3>2
  <2>11. ASSUME Upsert(p)
        PROVE  InBite(p)'
    <3>1. /\ bite'[p] = bite[p] /\ todo'[p] = todo[p] /\ found'[p] = found[p]
          /\ writing'[p] = writing[p] /\ rpc[p] \in Storing
      BY <2>11 DEF Upsert, Storing
    <3> QED
      BY <2>6, <3>1 DEF InBite
  <2>12. ASSUME Insert(p)
        PROVE  InBite(p)'
    <3>1. /\ bite'[p] = bite[p] /\ todo'[p] = todo[p] /\ found'[p] = found[p]
          /\ rpc'[p] \notin Storing
      BY <2>12 DEF Insert, RunGoto, Storing
    <3> QED
      BY <2>6, <3>1
  <2>13. ASSUME Age(p)
        PROVE  InBite(p)'
    BY <2>2, <2>13 DEF Age, localVars, InBite
  <2>14. ASSUME \/ Reap(p) \/ Start(p) \/ Refused(p) \/ Finish(p) \/ Raise(p) \/ Die(p)
                \/ StartReembed(p) \/ (\E c \in deferred[p] : ReembedPoint(p, c))
                \/ ReembedRow(p) \/ ReembedDone(p)
        PROVE  InBite(p)'
    <3>1. rpc'[p] \in Resting
      BY <2>14 DEF Reap, Start, Refused, Finish, Raise, Die, StartReembed, ReembedPoint,
         ReembedRow, ReembedDone, LetGo, RunGoto, Resting
    <3> QED
      BY <2>5, <3>1
  <2>15. InBite(p)'
    BY <1>2, <2>7, <2>8, <2>9, <2>10, <2>11, <2>12, <2>13, <2>14 DEF RunStep
  <2> QED
    BY <2>3, <2>15
<1> QED
  BY <1>1, <1>2

----------------------------------------------------------------------------
(* Every step is one that Custody allows, or changes nothing it sees. *)
LEMMA PlaceSame ==
    ASSUME batches' = batches, hand' = hand
    PROVE  \A c \in Comment : WhereIs(c)' = WhereIs(c)
<1>1. \A c : InPending(c)' <=> InPending(c)
  BY SameBatches
<1>2. Queued' = Queued /\ InHand' = InHand
  BY DEF Queued, InHand
<1> QED
  BY <1>1, <1>2 DEF WhereIs

(* The shapes a step of Custody takes. *)
LEMMA PromiseStep ==
    ASSUME \/ /\ \A c \in Comment : WhereIs(c)' = WhereIs(c)
              /\ AnsweredFor \subseteq AnsweredFor'
              /\ \/ AnsweredFor' = AnsweredFor
                 \/ \E c \in AnsweredFor' : InPending(c)
           \/ /\ AnsweredFor' = AnsweredFor
              /\ \E cs \in SUBSET Comment, a, z \in {"upstream", "held", "queued", "settled"} :
                    /\ \A c \in cs : WhereIs(c) = a /\ WhereIs(c)' = z
                    /\ \A c \in Comment \ cs : WhereIs(c)' = WhereIs(c)
                    /\ \/ a = "upstream" /\ z = "held" /\ \E c \in Comment : cs = {c}
                       \/ a = "held" /\ z = "queued"
                       \/ a = "queued" /\ z = "settled" /\ cs \subseteq AnsweredFor
    PROVE  [Promise!CustodyNext]_Promise!custodyVars
<1> DEFINE place == [c \in Comment |-> WhereIs(c)]
<1>1. CASE /\ \A c \in Comment : WhereIs(c)' = WhereIs(c)
           /\ AnsweredFor \subseteq AnsweredFor'
           /\ \/ AnsweredFor' = AnsweredFor
              \/ \E c \in AnsweredFor' : InPending(c)
  <2>1. place' = place
    BY <1>1
  <2>2. CASE AnsweredFor' = AnsweredFor
    BY <2>1, <2>2 DEF Promise!custodyVars
  <2>3. CASE \E c \in AnsweredFor' : InPending(c)
    <3> PICK c \in AnsweredFor' : InPending(c)
      BY <2>3
    <3>1. c \in Comment /\ AnsweredFor' \in SUBSET Comment
      BY DEF AnsweredFor
    <3>2. c \in Queued
      BY DEF InPending, Queued, Pending
    <3>3. c \in Promise!At("queued")
      BY <3>1, <3>2 DEF Promise!At, WhereIs
    <3>4. AnsweredFor' = AnsweredFor \cup AnsweredFor' \cup {c}
      BY <1>1
    <3>5. Promise!Keep
      BY <2>1, <3>1, <3>3, <3>4 DEF Promise!Keep
    <3> QED
      BY <3>5 DEF Promise!CustodyNext
  <2> QED
    BY <1>1, <2>2, <2>3
<1>2. ASSUME AnsweredFor' = AnsweredFor,
             NEW cs \in SUBSET Comment,
             NEW a \in {"upstream", "held", "queued", "settled"},
             NEW z \in {"upstream", "held", "queued", "settled"},
             \A c \in cs : WhereIs(c) = a /\ WhereIs(c)' = z,
             \A c \in Comment \ cs : WhereIs(c)' = WhereIs(c),
             \/ a = "upstream" /\ z = "held" /\ \E c \in Comment : cs = {c}
             \/ a = "held" /\ z = "queued"
             \/ a = "queued" /\ z = "settled" /\ cs \subseteq AnsweredFor
      PROVE  Promise!CustodyNext
  <2>1. Promise!Move(cs, z)
    BY <1>2 DEF Promise!Move
  <2>2. cs \subseteq Promise!At(a)
    BY <1>2 DEF Promise!At
  <2>3. CASE a = "upstream" /\ z = "held" /\ \E c \in Comment : cs = {c}
    BY <1>2, <2>1, <2>2, <2>3 DEF Promise!Hold, Promise!CustodyNext
  <2>4. CASE a = "held" /\ z = "queued"
    BY <1>2, <2>1, <2>2, <2>4 DEF Promise!Hand, Promise!CustodyNext
  <2>5. CASE a = "queued" /\ z = "settled" /\ cs \subseteq AnsweredFor
    BY <1>2, <2>1, <2>2, <2>5 DEF Promise!Settle, Promise!CustodyNext
  <2> QED
    BY <1>2, <2>3, <2>4, <2>5
<1> QED
  BY <1>1, <1>2

(* The worker marks as Hold and enqueues as Hand. *)
LEMMA FetchPromises ==
    ASSUME CustodyInv, FetchNext, UNCHANGED runOnly, FetchFailBound = 0,
           \A f, g \in Fetcher : f = g
    PROVE  [Promise!CustodyNext]_Promise!custodyVars
<1> USE DEF CustodyInv, WorkerInv, WorkerTypes
<1>1. AnsweredFor' = AnsweredFor
  BY DEF runOnly, storeVars, AnsweredFor, Kept1, Archived, SameText
<1>2. CASE UNCHANGED <<batches, hand>>
  BY <1>1, <1>2, PlaceSame, PromiseStep
<1>3. ASSUME NEW f \in Fetcher, Mark(f)
      PROVE  [Promise!CustodyNext]_Promise!custodyVars
  <2>1. batches' = batches /\ hand'[f] = hand[f] \cup fresh[f] /\ fpc[f] = "mark"
    BY <1>3 DEF Mark
  <2>2. PICK c \in Comment \ hand[f] : fresh[f] = {c}
    BY <2>1 DEF Holding
  <2>3. /\ InHand = hand[f] /\ InHand' = hand[f] \cup {c} /\ Queued' = Queued
        /\ c \notin Queued /\ \A d : InPending(d)' <=> InPending(d)
    BY <2>1, <2>2, SameBatches DEF InHand, Queued, Holding
  <2>4. \A d : InPending(d) => d \in Queued
    BY DEF InPending, Queued, Pending
  <2>5. WhereIs(c) = "upstream" /\ WhereIs(c)' = "held"
    BY <2>2, <2>3, <2>4 DEF WhereIs
  <2>6. \A d \in Comment \ {c} : WhereIs(d)' = WhereIs(d)
    BY <2>3 DEF WhereIs
  <2>7. /\ \A d \in {c} : WhereIs(d) = "upstream" /\ WhereIs(d)' = "held"
        /\ {c} \in SUBSET Comment /\ \E d \in Comment : {c} = {d}
    BY <2>5
  <2>8. \E cs \in SUBSET Comment :
           /\ \A d \in cs : WhereIs(d) = "upstream" /\ WhereIs(d)' = "held"
           /\ \A d \in Comment \ cs : WhereIs(d)' = WhereIs(d)
           /\ \E d \in Comment : cs = {d}
    BY <2>6, <2>7
  <2> QED
    BY <1>1, <2>8, PromiseStep
<1>4. ASSUME NEW f \in Fetcher, Enqueue(f), hand[f] # {}
      PROVE  [Promise!CustodyNext]_Promise!custodyVars
  <2>1. hand'[f] = {} /\ EnqueueBatch(hand[f]) /\ skip' = skip /\ hand[f] \in SUBSET Comment
    BY <1>4 DEF Enqueue
  <2>2. Grows
    BY <2>1, EnqueueGrows DEF RunInv, RunTypeOK
  <2> PICK n \in DOMAIN batches' \ DOMAIN batches :
          /\ DOMAIN batches' = DOMAIN batches \cup {n}
          /\ batches'[n] = [comments |-> hand[f], status |-> "pending"]
    BY <2>1, EnqueueGrows DEF RunInv, RunTypeOK
  <2>3. /\ batches'[n].comments = hand[f] /\ batches'[n].status = "pending"
        /\ \A b \in DOMAIN batches : batches'[b] = batches[b]
    BY <2>2 DEF Grows
  <2>4. Queued' = Queued \cup hand[f]
    BY <2>3 DEF Queued
  <2>5. \A d : InPending(d)' <=> InPending(d) \/ d \in hand[f]
    <3>1. Pending' = Pending \cup {n}
      BY <2>3 DEF Pending
    <3>2. Pending \subseteq DOMAIN batches
      BY DEF Pending
    <3> QED
      BY <2>3, <3>1, <3>2 DEF InPending
  <2>6. InHand = hand[f] /\ InHand' = {} /\ hand[f] \cap Queued = {}
    BY <2>1 DEF InHand, Holding
  <2>7. \A d : InPending(d) => d \in Queued
    BY DEF InPending, Queued, Pending
  <2>8. \A c \in hand[f] : WhereIs(c) = "held" /\ WhereIs(c)' = "queued"
    BY <2>5, <2>6, <2>7 DEF WhereIs
  <2>9. \A c \in Comment \ hand[f] : WhereIs(c)' = WhereIs(c)
    BY <2>4, <2>5, <2>6 DEF WhereIs
  <2> QED
    BY <1>1, <2>1, <2>8, <2>9, PromiseStep
<1>5. ASSUME NEW f \in Fetcher, Enqueue(f), hand[f] = {}
      PROVE  UNCHANGED <<batches, hand>>
  BY <1>5 DEF Enqueue
<1>6. ASSUME NEW f \in Fetcher, NEW c \in left[f], Take(f, c)
      PROVE  UNCHANGED <<batches, hand>>
  BY <1>6 DEF Take
<1> QED
  BY <1>2, <1>3, <1>4, <1>5, <1>6, FetchCases DEF Calm

(* A batch that is settled has nothing left to answer for. *)
LEMMA SettlePromises ==
    ASSUME CustodyInv, NEW p \in Process, NEW b \in bite[p], MarkDone(p, b), UNCHANGED fetchOnly
    PROVE  [Promise!CustodyNext]_Promise!custodyVars
<1> USE DEF CustodyInv, RunInv, RunTypeOK
<1>1. rpc[p] = "settle" /\ b \in bite[p] \ degraded[p] /\ UNCHANGED <<rows, dropped>>
  BY DEF MarkDone, NextToSettle, Settling, storeVars
<1>2. b \in Pending /\ b \in DOMAIN batches
  BY DEF InBite, Pending
<1>3. /\ DOMAIN batches' = DOMAIN batches /\ batches'[b].status = "done"
      /\ \A a \in DOMAIN batches : batches'[a].comments = batches[a].comments
      /\ \A a \in DOMAIN batches \ {b} : batches'[a] = batches[a]
  <2>1. batches \in Seq(Batch) /\ batches[b] \in Batch
    BY <1>2 DEF QueueTypeOK
  <2> QED
    BY <1>2, <2>1 DEF MarkDone, MarkProcessed, Batch
<1>4. batches[b].comments \in SUBSET Comment
  <2>1. batches \in Seq(Batch) /\ batches[b] \in Batch
    BY <1>2 DEF QueueTypeOK
  <2> QED
    BY <2>1 DEF Batch
<1>5. AnsweredFor' = AnsweredFor
  BY <1>1 DEF AnsweredFor, Kept1, Archived, SameText
<1>6. Queued' = Queued /\ InHand' = InHand
  BY <1>3 DEF Queued, InHand, fetchOnly, fetcherVars
<1>7. Pending' = Pending \ {b}
  BY <1>2, <1>3 DEF Pending
<1>8. \A a \in DOMAIN batches \ {b} : batches[a].comments \cap batches[b].comments = {}
  BY <1>2 DEF WorkerInv, QueuedOnce
<1>9. \A c \in batches[b].comments : WhereIs(c) = "queued" /\ WhereIs(c)' = "settled"
  <2> SUFFICES ASSUME NEW c \in batches[b].comments
               PROVE  WhereIs(c) = "queued" /\ WhereIs(c)' = "settled"
    OBVIOUS
  <2>1. InPending(c)
    BY <1>2 DEF InPending
  <2>2. c \in Queued
    BY <1>2 DEF Queued
  <2>3. ~InPending(c)'
    BY <1>3, <1>7, <1>8 DEF InPending, Pending
  <2> QED
    BY <1>6, <2>1, <2>2, <2>3 DEF WhereIs
<1>10. \A c \in Comment \ batches[b].comments : WhereIs(c)' = WhereIs(c)
  <2> SUFFICES ASSUME NEW c \in Comment \ batches[b].comments
               PROVE  WhereIs(c)' = WhereIs(c)
    OBVIOUS
  <2>1. InPending(c)' <=> InPending(c)
    <3>1. Pending \subseteq DOMAIN batches
      BY DEF Pending
    <3> QED
      BY <1>3, <1>7, <3>1 DEF InPending
  <2> QED
    BY <1>6, <2>1 DEF WhereIs
<1>11. \A c \in batches[b].comments : Kept1(c)
  <2> SUFFICES ASSUME NEW c \in batches[b].comments
               PROVE  Kept1(c)
    OBVIOUS
  <2>1. Answered(b, c) \/ Open(p, b, c)
    BY <1>1 DEF LocalInv, Tracked
  <2>2. ~Open(p, b, c)
    BY <1>1 DEF Open, LocalInv, Cleared, Closing, Archiving, Storing
  <2>3. ~Later(b, c)
    <3>1. ASSUME NEW a \in DOMAIN batches, a > b, c \in batches[a].comments
          PROVE  FALSE
      <4>1. b \in Nat
        BY <1>2 DEF QueueTypeOK
      <4>2. a # b
        BY <3>1, <4>1
      <4> QED
        BY <1>8, <3>1, <4>2
    <3> QED
      BY <3>1 DEF Later
  <2> QED
    BY <2>1, <2>2, <2>3 DEF Answered
<1>12. batches[b].comments \subseteq AnsweredFor
  BY <1>4, <1>11 DEF AnsweredFor
<1> QED
  BY <1>4, <1>5, <1>9, <1>10, <1>12, PromiseStep

(* What the prefilter or the archive newly answers for is in the queue. *)
LEMMA AnswersComeQueued ==
    ASSUME CustodyInv, RunNext
    PROVE  AnsweredFor' = AnsweredFor \/ \E c \in AnsweredFor' : InPending(c)
<1> USE DEF CustodyInv, RunInv, RunTypeOK
<1>1. ASSUME Archived' = Archived, dropped' = dropped
      PROVE  AnsweredFor' = AnsweredFor
  BY <1>1 DEF AnsweredFor, Kept1, SameText
<1> PICK p \in Process :
        \/ Reap(p) \/ RunStep(p)
        \/ (\E e \in todo[p] : ExtractFailed(p, e)) \/ (\E e \in found[p] : Defer(p, e))
        \/ Raise(p) \/ Die(p) \/ Age(p) \/ StartReembed(p)
  BY DEF RunNext
<1>2. CASE ReadQueue(p)
  <2>1. Archived' = Archived
    BY <1>2 DEF ReadQueue, Archived
  <2>2. CASE dropped' = dropped
    BY <1>1, <2>1, <2>2
  <2>3. CASE dropped' # dropped
    <3>1. PICK c \in dropped' : c \notin dropped
      BY <1>2, <2>3 DEF ReadQueue
    <3>2. PICK b \in Bitten : c \in batches[b].comments
      BY <1>2, <3>1 DEF ReadQueue
    <3>3. InPending(c)
      BY <3>2 DEF InPending, Bitten
    <3>4. c \in Comment
      <4>1. b \in DOMAIN batches
        BY DEF Bitten, Pending
      <4>2. batches \in Seq(Batch) /\ batches[b] \in Batch
        BY <4>1 DEF QueueTypeOK
      <4> QED
        BY <3>2, <4>2 DEF Batch
    <3>5. c \in AnsweredFor'
      BY <3>1, <3>4 DEF AnsweredFor, Kept1
    <3> QED
      BY <3>3, <3>5
  <2> QED
    BY <2>2, <2>3
<1>3. CASE Insert(p)
  <2>1. dropped' = dropped /\ rpc[p] \in Storing
    BY <1>3 DEF Insert, Storing
  <2>2. CASE Archived' = Archived
    BY <1>1, <2>1, <2>2
  <2>3. CASE Archived' # Archived
    <3>1. Archived \subseteq Archived' /\ Archived' \subseteq Archived \cup writing[p]
      BY <1>3 DEF Insert, Archived
    <3>2. PICK c \in writing[p] : c \in Archived'
      BY <2>3, <3>1
    <3>3. InPending(c)
      BY <2>1 DEF InBite
    <3>4. c \in AnsweredFor'
      BY <3>2 DEF AnsweredFor, Kept1, Archived
    <3> QED
      BY <3>3, <3>4
  <2> QED
    BY <2>2, <2>3
<1>4. CASE ReembedRow(p)
  <2>1. dropped' = dropped /\ writing[p] \subseteq Archived
    BY <1>4 DEF ReembedRow, TwiceInv, Reembeds, Outside
  <2>2. Archived' = Archived
    BY <1>4, <2>1 DEF ReembedRow, Archived
  <2> QED
    BY <1>1, <2>1, <2>2
<1>5. CASE ~ReadQueue(p) /\ ~Insert(p) /\ ~ReembedRow(p)
  <2>1. UNCHANGED <<rows, dropped>>
    BY <1>5 DEF RunStep, Reap, Start, Refused, Extract, ExtractFailed,
       ExtractDone, Refuse, Defer, Admit, Upsert, ArchiveDone, MarkDone, MarkSkip, Finish,
       Raise, Die, Age, StartReembed, ReembedPoint, ReembedDone, storeVars
  <2> QED
    BY <1>1, <2>1 DEF Archived
<1> QED
  BY <1>2, <1>3, <1>4, <1>5

(* A run answers as Keep and settles as Settle. *)
LEMMA RunPromises ==
    ASSUME CustodyInv, RunNext, UNCHANGED fetchOnly
    PROVE  [Promise!CustodyNext]_Promise!custodyVars
<1>1. CASE \E p \in Process : \E b \in bite[p] : MarkDone(p, b)
  BY <1>1, SettlePromises
<1>2. CASE ~\E p \in Process : \E b \in bite[p] : MarkDone(p, b)
  <2>1. batches' = batches /\ hand' = hand
    BY <1>2, PendingStays DEF CustodyInv, RunInv, fetchOnly, fetcherVars
  <2>2. \A c \in Comment : WhereIs(c)' = WhereIs(c)
    BY <2>1, PlaceSame
  <2>3. AnsweredFor \subseteq AnsweredFor'
    BY LocalStep DEF CustodyInv, Keeps, AnsweredFor
  <2> QED
    BY <2>2, <2>3, AnswersComeQueued, PromiseStep
<1> QED
  BY <1>1, <1>2

----------------------------------------------------------------------------
(* At the start every comment is upstream. *)
LEMMA CustodyStart ==
    ASSUME PipelineInit
    PROVE  CustodyInv /\ Promise!CustodyInit
<1> USE DEF PipelineInit
<1>1. RunInv
  BY RunInitInv
<1>2. TwiceInv
  BY TwiceStart
<1>3. Queued = {} /\ InHand = {} /\ Pending = {} /\ DOMAIN batches = {}
  BY DEF FetchInit, Queued, InHand, Pending
<1>4. WorkerInv
  BY <1>3 DEF FetchInit, WorkerInv, WorkerTypes, FetchStage, Holding, QueuedOnce
<1>5. \A p \in Process : InBite(p)
  BY DEF RunInit, InBite, Storing
<1>6. \A c \in Comment : WhereIs(c) = "upstream"
  BY <1>3 DEF WhereIs, InPending
<1>7. AnsweredFor = {}
  BY DEF RunInit, AnsweredFor, Kept1, Archived, SameText
<1> QED
  BY <1>1, <1>2, <1>4, <1>5, <1>6, <1>7 DEF CustodyInv, Promise!CustodyInit

(* A stutter of the pipeline is one of Custody. *)
LEMMA CustodyStays ==
    ASSUME CustodyInv, UNCHANGED pipelineVars
    PROVE  CustodyInv' /\ UNCHANGED Promise!custodyVars
<1> USE DEF pipelineVars, CustodyInv
<1>1. RunInv' /\ UNCHANGED runVars
  BY RunStutter DEF runVars
<1>2. TwiceInv'
  BY <1>1, TwiceStays DEF runVars
<1>3. Grows
  BY StillGrows DEF RunInv, RunTypeOK, QueueTypeOK
<1>4. \A p \in Process : InBite(p)'
  BY <1>3, BitesStay DEF RunInv
<1>5. WorkerInv'
  <2>1. Keeps
    BY <1>1, KeepsLemma DEF runVars, runOnly, storeVars, Archived
  <2> QED
    BY <2>1, WorkerStays
<1>6. \A c \in Comment : WhereIs(c)' = WhereIs(c)
  BY PlaceSame DEF fetchOnly, fetcherVars
<1>7. AnsweredFor' = AnsweredFor
  BY DEF runOnly, storeVars, AnsweredFor, Kept1, Archived, SameText
<1> QED
  BY <1>1, <1>2, <1>4, <1>5, <1>6, <1>7 DEF Promise!custodyVars

(* The invariant survives a step, and the step is one of Custody. *)
LEMMA CustodyStep ==
    ASSUME CustodyInv, PipelineNext, ~SlowRun, FetchFailBound = 0, \A f, g \in Fetcher : f = g
    PROVE  CustodyInv' /\ [Promise!CustodyNext]_Promise!custodyVars
<1> USE DEF CustodyInv
<1>1. CASE FetchNext /\ UNCHANGED runOnly
  <2>1. QueueTypeOK /\ RunTypeOK
    BY DEF RunInv, RunTypeOK
  <2>2. Grows
    BY <1>1, <2>1, FetchGrows DEF WorkerInv
  <2>3. RunInv' /\ TwiceInv'
    BY <1>1, <2>2, GrowthKeepsRun, TwiceStays
  <2>4. WorkerInv'
    BY <1>1, <2>1, WorkerStep
  <2>5. \A p \in Process : InBite(p)'
    BY <1>1, <2>1, <2>2, BitesStay
  <2> QED
    BY <1>1, <2>3, <2>4, <2>5, FetchPromises
<1>2. CASE RunNext /\ UNCHANGED fetchOnly
  <2>1. RunInv' /\ TwiceInv'
    BY <1>2, RunsStep
  <2>3. WorkerInv'
    BY <1>2, LocalStep, SkipGrows, WorkerStays
  <2>4. \A p \in Process : InBite(p)'
    BY <1>2, BiteKept
  <2> QED
    BY <1>2, <2>1, <2>3, <2>4, RunPromises
<1> QED
  BY <1>1, <1>2 DEF PipelineNext

(* The runs keep their word beside the worker: however many workers fill the  *)
(* queue, exit or fail, no comment is lost between a batch and the archive,   *)
(* and, while no live run outlasts the reap window, nothing is done twice.    *)
THEOREM PipelineLosesNothing ==
    /\ PipelineSpec => []BatchesAreKept
    /\ ~SlowRun => (PipelineSpec => []NothingTwice)
<1> DEFINE Beside == RunInv /\ WorkerTypes
<1>1. PipelineInit => Beside /\ TwiceInv
  BY RunInitInv, TwiceStart DEF PipelineInit, FetchInit, WorkerTypes, FetchStage
<1>2. Beside /\ [PipelineNext]_pipelineVars => Beside'
  <2>1. ASSUME Beside, FetchNext, UNCHANGED runOnly
        PROVE  Beside'
    BY <2>1, FetchGrows, GrowthKeepsRun DEF RunInv, RunTypeOK
  <2>2. ASSUME Beside, RunNext, UNCHANGED fetchOnly
        PROVE  Beside'
    <3>1. RunInv'
      BY <2>2, RunTypeStep, LocalStep, OwedStep, VectorStep DEF RunInv
    <3> QED
      BY <2>2, <3>1 DEF WorkerTypes, fetchOnly, fetcherVars
  <2>3. ASSUME Beside, UNCHANGED pipelineVars
        PROVE  Beside'
    <3>1. RunInv'
      BY <2>3, RunStutter DEF pipelineVars, runVars
    <3> QED
      BY <2>3, <3>1 DEF pipelineVars, WorkerTypes, fetchOnly, fetcherVars
  <2> QED
    BY <2>1, <2>2, <2>3 DEF PipelineNext
<1>3. ~SlowRun => (Beside /\ TwiceInv /\ [PipelineNext]_pipelineVars => TwiceInv')
  BY RunsStep, TwiceStays DEF PipelineNext, pipelineVars
<1>4. (Beside => BatchesAreKept) /\ (TwiceInv => NothingTwice)
  BY DEF RunInv, OwedLater, NothingDropped, BatchesAreKept, TwiceInv, NothingTwice
<1>5. PipelineSpec => []Beside
  BY <1>1, <1>2, PTL DEF PipelineSpec
<1>6. ASSUME ~SlowRun
      PROVE  PipelineSpec => []NothingTwice
  <2>1. Beside /\ TwiceInv /\ [PipelineNext]_pipelineVars => TwiceInv'
    BY <1>3, <1>6
  <2> QED
    BY <1>1, <1>4, <1>5, <2>1, PTL DEF PipelineSpec
<1>7. PipelineSpec => []BatchesAreKept
  BY <1>4, <1>5, PTL
<1> QED
  BY <1>6, <1>7

(* Between the platform and the archive a comment only goes forward, and only *)
(* leaves the queue answered for: the two programs implement Custody, for     *)
(* one worker that does not die in the middle of a thread, any runs none of   *)
(* which outlasts the reap window, and any kills and failed calls of theirs.  *)
THEOREM PipelineKeepsCustody ==
    ~SlowRun /\ FetchFailBound = 0 /\ (\A f, g \in Fetcher : f = g)
        => (PipelineSpec => KeepsCustody)
<1> SUFFICES ASSUME ~SlowRun, FetchFailBound = 0, \A f, g \in Fetcher : f = g
             PROVE  PipelineSpec => KeepsCustody
  OBVIOUS
<1>1. PipelineInit => CustodyInv /\ Promise!CustodyInit
  BY CustodyStart
<1>2. CustodyInv /\ [PipelineNext]_pipelineVars
          => CustodyInv' /\ [Promise!CustodyNext]_Promise!custodyVars
  BY CustodyStep, CustodyStays
<1> QED
  BY <1>1, <1>2, PTL DEF PipelineSpec, KeepsCustody, Promise!CustodySpec
=============================================================================
