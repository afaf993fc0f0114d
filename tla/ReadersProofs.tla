--------------------------- MODULE ReadersProofs ---------------------------
(***************************************************************************)
(* The readers of the outside world, for any number of workers, sources,   *)
(* pages and calls: what is skipped is queued, what is passed over was     *)
(* excused, what leaves is vouched for, and what was seen is kept.         *)
(***************************************************************************)
EXTENDS Fetch, SpecJourney, SignalExport, SignalChain, Signals, Listings, Rotation, Backfill, Cycle, Leads,
        FiniteSetTheorems, SequenceTheorems, WellFoundedInduction, TLAPS

-----------------------------------------------------------------------------
(* The queue and the skip-list, several workers                            *)

(* A worker that is between threads, or has stored its batch, holds nothing: *)
(* so the end of a run drops no marked comment.                              *)
HandHeld == \A f \in Fetcher : fpc[f] \in {"idle", "threads", "read"} => hand[f] = {}

FetchInv == FetchTypeOK /\ HandHeld /\ SkippedIsQueued

----------------------------------------------------------------------------
LEMMA CountIsNat ==
    ASSUME NEW S \in SUBSET Comment
    PROVE  Cardinality(S) \in Nat
  BY QueueAssumption, FS_Subset, FS_CardinalityType

(* What one more batch does to the queue. *)
LEMMA EnqueuedIsQueued ==
    ASSUME QueueTypeOK, NEW cs \in SUBSET Comment, EnqueueBatch(cs)
    PROVE  Queued' = Queued \cup cs /\ batches' \in Seq(Batch)
<1>1. [comments |-> cs, status |-> "pending"] \in Batch
  BY DEF Batch
<1>2. batches' \in Seq(Batch) /\ Len(batches') = Len(batches) + 1
  BY <1>1 DEF EnqueueBatch, QueueTypeOK
<1>3. \A i \in DOMAIN batches : i \in DOMAIN batches' /\ batches'[i] = batches[i]
  BY <1>1 DEF EnqueueBatch, QueueTypeOK
<1>4. /\ Len(batches) + 1 \in DOMAIN batches'
      /\ batches'[Len(batches) + 1].comments = cs
  BY <1>1 DEF EnqueueBatch, QueueTypeOK
<1>5. \A i \in DOMAIN batches' : i \in DOMAIN batches \/ i = Len(batches) + 1
  BY <1>2 DEF QueueTypeOK
<1> QED
  BY <1>2, <1>3, <1>4, <1>5 DEF Queued

(* Every step keeps the types. *)
LEMMA FetchTypeStep ==
    ASSUME FetchTypeOK, [FetchNext]_fetchVars
    PROVE  FetchTypeOK'
<1> USE QueueAssumption, FetchAssumption
<1> USE DEF FetchTypeOK, QueueTypeOK, FetchStage, FetchGoto
<1>1. ASSUME NEW c \in Comment, Post(c)
      PROVE  FetchTypeOK'
  BY <1>1 DEF Post, fetcherVars
<1>2. ASSUME NEW f \in Fetcher, ListThreads(f)
      PROVE  FetchTypeOK'
  <2>1. \A t \in Thread : Count(t) \in Nat
    <3> TAKE t \in Thread
    <3>1. posted \cap InThread(t) \in SUBSET Comment
      OBVIOUS
    <3> QED
      BY <3>1, CountIsNat DEF Count
  <2>2. visit' \in [Fetcher -> SUBSET [thread : Thread, count : Nat \cup {Unpublished}]]
    BY <1>2, <2>1 DEF ListThreads
  <2> QED
    BY <1>2, <2>2 DEF ListThreads
<1>3. ASSUME NEW f \in Fetcher, NEW v \in visit[f],
             SkipUnchanged(f, v) \/ FetchFailed(f, v)
      PROVE  FetchTypeOK'
  BY <1>3 DEF SkipUnchanged, FetchFailed
<1>4. ASSUME NEW f \in Fetcher, NEW v \in visit[f], FetchThread(f, v)
      PROVE  FetchTypeOK'
  BY <1>4 DEF FetchThread
<1>5. ASSUME NEW f \in Fetcher, NEW c \in left[f], PassOver(f, c) \/ Take(f, c)
      PROVE  FetchTypeOK'
  <2>1. c \in Comment
    OBVIOUS
  <2>2. CASE PassOver(f, c)
    BY <2>2 DEF PassOver
  <2>3. CASE Take(f, c)
    BY <2>1, <2>3 DEF Take
  <2> QED
    BY <1>5, <2>2, <2>3
<1>6. ASSUME NEW f \in Fetcher, Mark(f)
      PROVE  FetchTypeOK'
  BY <1>6 DEF Mark, MarkIngested
<1>7. ASSUME NEW f \in Fetcher, StopExamining(f)
      PROVE  FetchTypeOK'
  BY <1>7 DEF StopExamining
<1>8. ASSUME NEW f \in Fetcher, Enqueue(f)
      PROVE  FetchTypeOK'
  <2>1. hand[f] \in SUBSET Comment /\ Cardinality(hand[f]) \in Nat
    BY CountIsNat
  <2>2. batches' \in Seq(Batch)
    BY <1>8, <2>1, EnqueuedIsQueued DEF Enqueue
  <2> QED
    BY <1>8, <2>1, <2>2 DEF Enqueue
<1>9. ASSUME NEW f \in Fetcher, MarkThreadRead(f)
      PROVE  FetchTypeOK'
  <2>1. lastSeen' \in [Thread -> Nat \cup {Unpublished}]
    <3> DEFINE seen == IF advertised[f] = Unpublished THEN 0 ELSE advertised[f]
    <3>1. seen \in Nat \cup {Unpublished}
      OBVIOUS
    <3>2. lastSeen' = [lastSeen EXCEPT ![thread[f]] = seen] \/ lastSeen' = lastSeen
      BY <1>9 DEF MarkThreadRead
    <3> HIDE DEF seen
    <3> QED
      BY <3>1, <3>2
  <2>2. /\ thread' \in [Fetcher -> Thread \cup {NoThread}]
        /\ advertised' \in [Fetcher -> Nat \cup {Unpublished}]
    BY <1>9 DEF MarkThreadRead
  <2> QED
    BY <1>9, <2>1, <2>2 DEF MarkThreadRead
<1>10. ASSUME NEW f \in Fetcher, FetchDone(f) \/ FetchExit(f)
       PROVE  FetchTypeOK'
  <2>1. fetchFails' \in 0..FetchFailBound /\ lost' \subseteq Comment
    BY <1>10 DEF FetchDone, FetchExit
  <2>2. FetcherGone(f)
    BY <1>10 DEF FetchDone, FetchExit
  <2> QED
    BY <2>1, <2>2 DEF FetcherGone
<1>11. ASSUME UNCHANGED fetchVars
       PROVE  FetchTypeOK'
  BY <1>11 DEF fetchVars, fetchOnly, fetcherVars
<1> QED
  BY <1>1, <1>2, <1>3, <1>4, <1>5, <1>6, <1>7, <1>8, <1>9, <1>10, <1>11
     DEF FetchNext, FetcherNext

(* Every step keeps what is marked within reach. *)
LEMMA FetchHandStep ==
    ASSUME FetchInv, [FetchNext]_fetchVars
    PROVE  HandHeld' /\ SkippedIsQueued'
<1> USE DEF FetchInv, FetchTypeOK, FetchGoto
<1>1. ASSUME UNCHANGED <<batches, skip, lost, hand>>,
             \A f \in Fetcher : fpc'[f] \in {"idle", "threads", "read"} =>
                 fpc[f] \in {"idle", "threads", "read"}
      PROVE  HandHeld' /\ SkippedIsQueued'
  BY <1>1 DEF HandHeld, SkippedIsQueued, Queued, InHand
<1>2. ASSUME NEW f \in Fetcher, Mark(f)
      PROVE  HandHeld' /\ SkippedIsQueued'
  BY <1>2 DEF Mark, MarkIngested, HandHeld, SkippedIsQueued, Queued, InHand
<1>3. ASSUME NEW f \in Fetcher, Enqueue(f)
      PROVE  HandHeld' /\ SkippedIsQueued'
  <2>1. hand[f] \in SUBSET Comment
    OBVIOUS
  <2>2. Queued' = Queued \cup hand[f]
    <3>1. CASE hand[f] = {}
      BY <1>3, <3>1 DEF Enqueue, Queued
    <3>2. CASE hand[f] # {}
      <4>1. EnqueueBatch(hand[f])
        BY <1>3, <3>2 DEF Enqueue
      <4> QED
        BY <2>1, <4>1, EnqueuedIsQueued
    <3> QED
      BY <3>1, <3>2
  <2>3. \A g \in Fetcher \ {f} : hand'[g] = hand[g] /\ fpc'[g] = fpc[g]
    BY <1>3 DEF Enqueue
  <2>4. hand'[f] = {} /\ UNCHANGED <<skip, lost>>
    BY <1>3 DEF Enqueue
  <2> QED
    BY <2>2, <2>3, <2>4 DEF HandHeld, SkippedIsQueued, InHand
<1>4. ASSUME NEW f \in Fetcher, FetchDone(f)
      PROVE  HandHeld' /\ SkippedIsQueued'
  <2>1. hand[f] = {}
    BY <1>4 DEF FetchDone, HandHeld
  <2> QED
    BY <1>4, <2>1 DEF FetchDone, FetcherGone, HandHeld, SkippedIsQueued, Queued, InHand
<1>5. ASSUME NEW f \in Fetcher, FetchExit(f)
      PROVE  HandHeld' /\ SkippedIsQueued'
  BY <1>5 DEF FetchExit, FetcherGone, HandHeld, SkippedIsQueued, Queued, InHand
<1>6. ASSUME NEW c \in Comment, Post(c)
      PROVE  HandHeld' /\ SkippedIsQueued'
  BY <1>6, <1>1 DEF Post, fetcherVars
<1>7. ASSUME NEW f \in Fetcher,
             \/ ListThreads(f) \/ StopExamining(f)
             \/ \E v \in visit[f] : SkipUnchanged(f, v) \/ FetchFailed(f, v) \/ FetchThread(f, v)
             \/ \E c \in left[f] : PassOver(f, c) \/ Take(f, c)
      PROVE  HandHeld' /\ SkippedIsQueued'
  BY <1>7, <1>1 DEF ListThreads, StopExamining, SkipUnchanged, FetchFailed, FetchThread,
                    PassOver, Take
<1>8. ASSUME NEW f \in Fetcher, MarkThreadRead(f)
      PROVE  HandHeld' /\ SkippedIsQueued'
  BY <1>8, <1>1 DEF MarkThreadRead
<1>9. ASSUME UNCHANGED fetchVars
      PROVE  HandHeld' /\ SkippedIsQueued'
  BY <1>9, <1>1 DEF fetchVars, fetchOnly, fetcherVars
<1> QED
  BY <1>2, <1>3, <1>4, <1>5, <1>6, <1>7, <1>8, <1>9 DEF FetchNext, FetcherNext

(* The inductive invariant, of any number of workers that overlap and exit   *)
(* anywhere (main.go, enqueueComments).                                      *)
THEOREM FetchInvariant == FetchSpec => []FetchInv
<1>1. FetchInit => FetchInv
  BY QueueAssumption, FetchAssumption
     DEF FetchInit, FetchInv, FetchTypeOK, QueueTypeOK, FetchStage, HandHeld,
         SkippedIsQueued, Unpublished
<1>2. FetchInv /\ [FetchNext]_fetchVars => FetchInv'
  BY FetchTypeStep, FetchHandStep DEF FetchInv
<1> QED
  BY <1>1, <1>2, PTL DEF FetchSpec

----------------------------------------------------------------------------
(* The worker's tables and memory keep their types, for any number of        *)
(* workers, any caps and any number of exits.                                *)
THEOREM FetchTypes == FetchSpec => []FetchTypeOK
  BY FetchInvariant, PTL DEF FetchInv

(* A comment on the skip-list is in a batch, in the hands of a live worker,  *)
(* or was in the hands of one that exited (enqueueComments), for any number  *)
(* of overlapping workers.                                                   *)
THEOREM SkipListIsBacked == FetchSpec => []SkippedIsQueued
  BY FetchInvariant, PTL DEF FetchInv

-----------------------------------------------------------------------------
(* The visits of a single worker                                           *)

(* What a worker knows of its threads was true when it was listed, and       *)
(* threads only grow.                                                        *)
OnThread == {"examine", "mark", "enqueue", "read"}
VisitTrue(f) ==
    /\ \A v \in visit[f] : v.count <= Count(v.thread)
    /\ fpc[f] \in OnThread => thread[f] \in Thread /\ advertised[f] <= Count(thread[f])
(* What it holds is of one thread, opened before the budget was spent.       *)
InOneThread(f) ==
    /\ fpc[f] \in OnThread =>
          left[f] \cup fresh[f] \cup hand[f] \subseteq InThread(thread[f])
    /\ fresh[f] \cup hand[f] \subseteq Kept
    /\ fpc[f] \in OnThread \ {"read"} => ~Spent(f)
    /\ fpc[f] \in OnThread \ {"examine", "mark"} => left[f] = {}
    /\ fpc[f] # "mark" => fresh[f] = {}
(* Unless the thread has grown past what its listing counted, all it keeps   *)
(* is marked, or still to be examined.                                       *)
Examined(f) ==
    fpc[f] \in OnThread /\ Count(thread[f]) <= advertised[f] =>
        posted \cap InThread(thread[f]) \cap Kept \subseteq skip \cup left[f] \cup fresh[f]
SeenTrue == \A t \in Thread : lastSeen[t] <= Count(t)

VisitInv ==
    /\ \A f \in Fetcher : VisitTrue(f) /\ InOneThread(f)
    /\ SeenTrue /\ OvershootsOneThread
ExhaustInv == (\A f \in Fetcher : Examined(f)) /\ UnchangedIsExhausted
(* With one worker, what is marked is marked once. *)
OnceInv ==
    /\ QueuedOnce /\ Queued \cup InHand \subseteq skip
    /\ \A f \in Fetcher : fresh[f] \cap skip = {} /\ hand[f] \cap Queued = {}

----------------------------------------------------------------------------
LEMMA CountFacts ==
    ASSUME FetchTypeOK, NEW t
    PROVE  Count(t) \in Nat /\ (Count(t) = 0 => posted \cap InThread(t) = {})
<1>1. IsFiniteSet(posted \cap InThread(t))
  BY QueueAssumption, FS_Subset DEF FetchTypeOK
<1> QED
  BY <1>1, FS_CardinalityType, FS_EmptySet DEF Count

(* One comment more in its thread. *)
LEMMA PostCounts ==
    ASSUME FetchTypeOK, NEW c \in Comment, Post(c)
    PROVE  \A t : Count(t)' = Count(t) + (IF c \in InThread(t) THEN 1 ELSE 0)
<1> SUFFICES ASSUME NEW t
             PROVE  Count(t)' = Count(t) + (IF c \in InThread(t) THEN 1 ELSE 0)
  OBVIOUS
<1>0. Count(t) \in Nat
  BY CountFacts
<1> DEFINE S == posted \cap InThread(t)
<1>1. IsFiniteSet(S)
  BY QueueAssumption, FS_Subset DEF FetchTypeOK
<1>2. c \notin S /\ posted' = posted \cup {c}
  BY DEF Post
<1>3. CASE c \in InThread(t)
  <2>1. (posted \cap InThread(t))' = S \cup {c}
    BY <1>2, <1>3 DEF InThread
  <2> QED
    BY <1>1, <1>2, <1>3, <2>1, FS_AddElement DEF Count
<1>4. CASE c \notin InThread(t)
  <2>1. (posted \cap InThread(t))' = S
    BY <1>2, <1>4 DEF InThread
  <2> QED
    BY <1>0, <1>4, <2>1 DEF Count
<1> QED
  BY <1>3, <1>4

(* The worker that steps; nothing is posted meanwhile. *)
Alone(f) ==
    /\ posted' = posted
    /\ \A g \in Fetcher \ {f} :
          UNCHANGED <<fpc[g], visit[g], thread[g], advertised[g], left[g], fresh[g], hand[g], used[g]>>
LEMMA WorkerAlone ==
    ASSUME FetchTypeOK, NEW f \in Fetcher,
           FetcherNext(f) \/ FetchExit(f) \/ \E v \in visit[f] : FetchFailed(f, v)
    PROVE  Alone(f)
  BY DEF FetcherNext, FetchExit, FetchFailed, ListThreads, SkipUnchanged, FetchThread, PassOver,
     Take, Mark, StopExamining, Enqueue, MarkThreadRead, FetchDone, FetcherGone, FetchGoto,
     FetchTypeOK, Alone

LEMMA OthersKeepVisits ==
    ASSUME VisitInv, NEW f \in Fetcher, Alone(f), NEW g \in Fetcher \ {f}
    PROVE  VisitTrue(g)' /\ InOneThread(g)'
<1>1. /\ fpc'[g] = fpc[g] /\ visit'[g] = visit[g] /\ thread'[g] = thread[g]
      /\ advertised'[g] = advertised[g] /\ left'[g] = left[g] /\ fresh'[g] = fresh[g]
      /\ hand'[g] = hand[g] /\ used'[g] = used[g]
  BY DEF Alone
<1>2. \A t : Count(t)' = Count(t) /\ InThread(t)' = InThread(t)
  BY DEF Count, InThread, Alone
<1>3. VisitTrue(g) /\ InOneThread(g)
  BY DEF VisitInv
<1>4. VisitTrue(g)'
  BY <1>1, <1>2, <1>3 DEF VisitTrue
<1>5. InOneThread(g)'
  BY <1>1, <1>2, <1>3 DEF InOneThread, Spent
<1> QED
  BY <1>4, <1>5

(* What a worker's own step leaves true of it. *)
LEMMA WorkerVisits ==
    ASSUME FetchInv, VisitInv, NEW f \in Fetcher,
           FetcherNext(f) \/ FetchExit(f) \/ \E v \in visit[f] : FetchFailed(f, v)
    PROVE  VisitTrue(f)' /\ InOneThread(f)'
<1> USE DEF FetchInv, FetchTypeOK, FetchGoto
<1>0. VisitTrue(f) /\ InOneThread(f) /\ Alone(f)
  BY WorkerAlone DEF VisitInv
<1>1. \A t : Count(t)' = Count(t) /\ InThread(t)' = InThread(t)
  BY <1>0 DEF Count, InThread, Alone
<1>2. CASE ListThreads(f)
  <2>1. fpc[f] = "idle" /\ fpc'[f] = "threads"
    BY <1>2 DEF ListThreads
  <2>2. \A v \in visit'[f] : v.count = Unpublished \/ v.count = Count(v.thread)
    BY <1>2 DEF ListThreads
  <2>3. VisitTrue(f)'
    <3>1. \A t : Count(t) \in Nat
      BY CountFacts
    <3> QED
      BY <1>1, <2>1, <2>2, <3>1 DEF VisitTrue, OnThread, Unpublished
  <2>4. InOneThread(f)'
    BY <1>0, <1>2, <2>1 DEF InOneThread, ListThreads, OnThread
  <2> QED
    BY <2>3, <2>4
<1>3. CASE \E v \in visit[f] : SkipUnchanged(f, v) \/ FetchFailed(f, v)
  <2>1. visit'[f] \subseteq visit[f] /\ fpc' = fpc /\ UNCHANGED <<thread, advertised, left, fresh, hand, used>>
    BY <1>3 DEF SkipUnchanged, FetchFailed
  <2> QED
    BY <1>0, <1>1, <2>1 DEF VisitTrue, InOneThread, Spent
<1>4. ASSUME NEW v \in visit[f], FetchThread(f, v)
      PROVE  VisitTrue(f)' /\ InOneThread(f)'
  <2>1. /\ visit'[f] \subseteq visit[f] /\ fpc[f] = "threads" /\ fpc'[f] = "examine"
        /\ thread'[f] = v.thread /\ advertised'[f] = v.count /\ ~Spent(f)
        /\ left'[f] = posted \cap InThread(v.thread)
        /\ UNCHANGED <<fresh, hand, used>>
    BY <1>4 DEF FetchThread
  <2>2. v.thread \in Thread /\ v.count <= Count(v.thread)
    BY <1>0 DEF VisitTrue
  <2>3. VisitTrue(f)'
    BY <1>0, <1>1, <2>1, <2>2 DEF VisitTrue
  <2>4. fresh[f] = {} /\ hand[f] = {}
    BY <1>0, <2>1 DEF InOneThread, HandHeld
  <2>5. InOneThread(f)'
    BY <1>1, <2>1, <2>4 DEF InOneThread, OnThread, Spent
  <2> QED
    BY <2>3, <2>5
<1>5. ASSUME NEW c \in left[f], PassOver(f, c)
      PROVE  VisitTrue(f)' /\ InOneThread(f)'
  <2>1. /\ UNCHANGED <<fpc, visit, thread, advertised, fresh, hand, used>>
        /\ left'[f] = left[f] \ {c}
    BY <1>5 DEF PassOver
  <2> QED
    BY <1>0, <1>1, <2>1 DEF VisitTrue, InOneThread, Spent
<1>6. ASSUME NEW c \in left[f], Take(f, c)
      PROVE  VisitTrue(f)' /\ InOneThread(f)'
  <2>1. /\ UNCHANGED <<visit, thread, advertised, hand, used>> /\ c \in Kept
        /\ left'[f] = left[f] \ {c} /\ fresh'[f] = {c} /\ fpc[f] = "examine" /\ fpc'[f] = "mark"
    BY <1>6 DEF Take
  <2> QED
    BY <1>0, <1>1, <2>1 DEF VisitTrue, InOneThread, OnThread, Spent
<1>7. CASE Mark(f)
  <2>1. /\ UNCHANGED <<visit, thread, advertised, left, used>> /\ fpc[f] = "mark"
        /\ fpc'[f] = "examine" /\ fresh'[f] = {} /\ hand'[f] = hand[f] \cup fresh[f]
    BY <1>7 DEF Mark
  <2> QED
    BY <1>0, <1>1, <2>1 DEF VisitTrue, InOneThread, OnThread, Spent
<1>8. CASE StopExamining(f)
  <2>1. /\ UNCHANGED <<visit, thread, advertised, fresh, hand, used>> /\ fpc[f] = "examine"
        /\ fpc'[f] = "enqueue" /\ left'[f] = {}
    BY <1>8 DEF StopExamining
  <2> QED
    BY <1>0, <1>1, <2>1 DEF VisitTrue, InOneThread, OnThread, Spent
<1>9. CASE Enqueue(f)
  <2>1. /\ UNCHANGED <<visit, thread, advertised, left, fresh>> /\ fpc[f] = "enqueue"
        /\ fpc'[f] = "read" /\ hand'[f] = {}
    BY <1>9 DEF Enqueue
  <2> QED
    BY <1>0, <1>1, <2>1 DEF VisitTrue, InOneThread, OnThread, Spent
<1>10. CASE MarkThreadRead(f)
  <2>1. /\ UNCHANGED <<visit, left, fresh, hand>> /\ fpc[f] = "read" /\ fpc'[f] = "threads"
    BY <1>10 DEF MarkThreadRead
  <2> QED
    BY <1>0, <1>1, <2>1 DEF VisitTrue, InOneThread, OnThread
<1>11. CASE FetchDone(f) \/ FetchExit(f)
  <2>1. /\ fpc'[f] = "idle" /\ visit'[f] = {} /\ left'[f] = {} /\ fresh'[f] = {} /\ hand'[f] = {}
    BY <1>11 DEF FetchDone, FetchExit, FetcherGone
  <2> QED
    BY <2>1 DEF VisitTrue, InOneThread, OnThread
<1> QED
  BY <1>2, <1>3, <1>4, <1>5, <1>6, <1>7, <1>8, <1>9, <1>10, <1>11 DEF FetcherNext

(* Nothing a thread's count said was more than there is now. *)
LEMMA VisitInvStep ==
    ASSUME FetchInv, VisitInv, FetchNext
    PROVE  VisitInv'
<1> USE DEF FetchInv, FetchTypeOK
<1>1. ASSUME NEW c \in Comment, Post(c)
      PROVE  VisitInv'
  <2>1. \A t : Count(t) \in Nat
    BY CountFacts
  <2>2. \A t : Count(t)' \in Nat /\ Count(t) <= Count(t)'
    BY <1>1, <2>1, PostCounts
  <2>3. UNCHANGED <<lastSeen, fetcherVars>>
    BY <1>1 DEF Post
  <2>4. \A t : InThread(t)' = InThread(t)
    BY DEF InThread
  <2>5. \A f \in Fetcher : VisitTrue(f)'
    <3> SUFFICES ASSUME NEW f \in Fetcher
                 PROVE  VisitTrue(f)'
      OBVIOUS
    <3>1. VisitTrue(f)
      BY DEF VisitInv
    <3>2. \A v \in visit[f] : v.thread \in Thread /\ v.count \in Nat \cup {Unpublished}
      OBVIOUS
    <3> QED
      BY <2>1, <2>2, <2>3, <3>1, <3>2 DEF VisitTrue, fetcherVars, Unpublished
  <2>6. \A f \in Fetcher : InOneThread(f)'
    BY <2>3, <2>4 DEF VisitInv, InOneThread, fetcherVars, Spent
  <2>7. SeenTrue'
    BY <2>1, <2>2, <2>3 DEF VisitInv, SeenTrue, Unpublished
  <2>8. OvershootsOneThread'
    BY <2>3, <2>4 DEF VisitInv, OvershootsOneThread, fetcherVars
  <2> QED
    BY <2>5, <2>6, <2>7, <2>8 DEF VisitInv
<1>2. ASSUME NEW f \in Fetcher,
             FetcherNext(f) \/ FetchExit(f) \/ \E v \in visit[f] : FetchFailed(f, v)
      PROVE  VisitInv'
  <2>1. Alone(f)
    BY <1>2, WorkerAlone
  <2>2. \A g \in Fetcher : VisitTrue(g)' /\ InOneThread(g)'
    BY <1>2, <2>1, WorkerVisits, OthersKeepVisits
  <2>3. \A t : Count(t)' = Count(t) /\ InThread(t)' = InThread(t)
    BY <2>1 DEF Count, InThread, Alone
  <2>4. VisitTrue(f) /\ InOneThread(f) /\ SeenTrue /\ OvershootsOneThread
    BY DEF VisitInv
  <2>5. SeenTrue'
    <3>1. CASE MarkThreadRead(f)
      <4> SUFFICES ASSUME NEW t \in Thread
                   PROVE  lastSeen'[t] <= Count(t)
        BY <2>3 DEF SeenTrue
      <4>1. Count(t) \in Nat /\ lastSeen[t] <= Count(t)
        BY <2>4, CountFacts DEF SeenTrue
      <4>2. /\ thread[f] \in Thread /\ advertised[f] <= Count(thread[f])
            /\ advertised[f] \in Nat \cup {Unpublished}
        BY <2>4, <3>1 DEF VisitTrue, OnThread, MarkThreadRead
      <4>3. \/ lastSeen'[t] = lastSeen[t]
            \/ t = thread[f] /\ advertised[f] = Unpublished /\ lastSeen'[t] = 0
            \/ t = thread[f] /\ lastSeen'[t] = advertised[f]
        BY <3>1, <4>2 DEF MarkThreadRead
      <4> QED
        BY <4>1, <4>2, <4>3
    <3>2. CASE lastSeen' = lastSeen
      BY <2>3, <2>4, <3>2 DEF SeenTrue
    <3> QED
      BY <1>2, <3>1, <3>2 DEF FetcherNext, FetchExit, FetchFailed, ListThreads, SkipUnchanged,
         FetchThread, PassOver, Take, Mark, StopExamining, Enqueue, FetchDone, FetcherGone
  <2>6. OvershootsOneThread'
    <3> SUFFICES ASSUME CommentBudget > 0, NEW g \in Fetcher
                 PROVE  \E t \in Thread :
                            used'[g] < CommentBudget + Cardinality(InThread(t) \cap Kept)
      BY <2>3 DEF OvershootsOneThread
    <3>0. PICK t \in Thread : used[g] < CommentBudget + Cardinality(InThread(t) \cap Kept)
      BY <2>4 DEF OvershootsOneThread
    <3>5. CommentBudget \in Nat /\ used[g] \in Nat
      BY FetchAssumption
    <3>1. CASE used'[g] = used[g]
      BY <3>0, <3>1
    <3>2. CASE Enqueue(f) /\ g = f
      <4>1. /\ used'[f] = used[f] + Cardinality(hand[f])
            /\ fpc[f] = "enqueue"
        BY <3>2 DEF Enqueue
      <4>2. /\ thread[f] \in Thread /\ used[f] < CommentBudget
            /\ hand[f] \subseteq InThread(thread[f]) \cap Kept
        BY <2>4, <4>1, FetchAssumption DEF VisitTrue, InOneThread, OnThread, Spent
      <4>3. /\ Cardinality(hand[f]) <= Cardinality(InThread(thread[f]) \cap Kept)
            /\ Cardinality(hand[f]) \in Nat /\ Cardinality(InThread(thread[f]) \cap Kept) \in Nat
        <5>1. IsFiniteSet(InThread(thread[f]) \cap Kept)
          BY QueueAssumption, FS_Subset DEF InThread
        <5> QED
          BY <4>2, <5>1, FS_Subset, FS_CardinalityType
      <4>4. used'[f] < CommentBudget + Cardinality(InThread(thread[f]) \cap Kept)
        BY <3>2, <3>5, <4>1, <4>2, <4>3
      <4> QED
        BY <3>2, <4>2, <4>4
    <3>3. CASE used'[g] = 0
      <4>1. Cardinality(InThread(t) \cap Kept) \in Nat
        <5>1. InThread(t) \cap Kept \in SUBSET Comment
          BY DEF InThread
        <5> QED
          BY <5>1, CountIsNat
      <4>2. used'[g] < CommentBudget + Cardinality(InThread(t) \cap Kept)
        BY <3>3, <3>5, <4>1
      <4> QED
        BY <4>2
    <3>4. used'[g] = used[g] \/ (Enqueue(f) /\ g = f) \/ used'[g] = 0
      <4>1. CASE Enqueue(f)
        BY <4>1 DEF Enqueue
      <4>2. CASE FetchDone(f) \/ FetchExit(f)
        BY <4>2 DEF FetchDone, FetchExit, FetcherGone
      <4> QED
        BY <1>2, <4>1, <4>2 DEF FetcherNext, FetchFailed, ListThreads, SkipUnchanged, FetchThread,
         PassOver, Take, Mark, StopExamining, MarkThreadRead
    <3> QED
      BY <3>1, <3>2, <3>3, <3>4
  <2> QED
    BY <2>2, <2>5, <2>6 DEF VisitInv
<1> QED
  BY <1>1, <1>2 DEF FetchNext

(* Where no thread is capped, what a visit passed over is marked. *)
LEMMA ExhaustStep ==
    ASSUME ThreadCap = 0, FetchInv, VisitInv, ExhaustInv, FetchNext
    PROVE  ExhaustInv'
<1> USE DEF FetchInv, FetchTypeOK
<1>0. \A t : Count(t) \in Nat /\ (Count(t) = 0 => posted \cap InThread(t) = {})
  BY CountFacts
<1>1. ASSUME NEW c \in Comment, Post(c)
      PROVE  ExhaustInv'
  <2>1. \A t : Count(t)' = Count(t) + (IF c \in InThread(t) THEN 1 ELSE 0)
    BY <1>1, PostCounts
  <2>2. UNCHANGED <<skip, lastSeen, fetcherVars>> /\ posted' = posted \cup {c}
    BY <1>1 DEF Post
  <2>3. \A t : InThread(t)' = InThread(t)
    BY DEF InThread
  <2>4. ASSUME NEW t, Count(t)' <= Count(t)
        PROVE  Count(t)' = Count(t) /\ posted' \cap InThread(t) = posted \cap InThread(t)
    BY <1>0, <2>1, <2>2, <2>4
  <2>5. \A f \in Fetcher : Examined(f)'
    <3> SUFFICES ASSUME NEW f \in Fetcher, fpc[f] \in OnThread, Count(thread[f])' <= advertised[f]
                 PROVE  posted' \cap InThread(thread[f]) \cap Kept \subseteq skip \cup left[f] \cup fresh[f]
      BY <2>2, <2>3 DEF Examined, fetcherVars
    <3>1. advertised[f] <= Count(thread[f]) /\ Examined(f)
      BY DEF VisitInv, VisitTrue, ExhaustInv
    <3> DEFINE t == thread[f]
    <3>2. Count(t) \in Nat /\ advertised[f] \in Int /\ t' = t
      BY <1>0, <2>2 DEF Unpublished, fetcherVars
    <3>3. Count(t)' = Count(t) + (IF c \in InThread(t) THEN 1 ELSE 0)
      BY <2>1, <2>2 DEF fetcherVars
    <3>4. c \notin InThread(t) /\ Count(t) <= advertised[f]
      BY <3>1, <3>2, <3>3
    <3> QED
      BY <2>2, <3>1, <3>4 DEF Examined
  <2>6. UnchangedIsExhausted'
    <3> SUFFICES ASSUME NEW t \in Thread, lastSeen[t] # Unpublished, Count(t)' <= lastSeen[t]
                 PROVE  posted' \cap InThread(t) \cap Kept \subseteq skip
      BY <2>2, <2>3 DEF UnchangedIsExhausted, Unchanged
    <3>1. lastSeen[t] <= Count(t) /\ lastSeen[t] \in Int /\ Count(t) \in Nat
      BY <1>0 DEF VisitInv, SeenTrue, Unpublished
    <3>2. c \notin InThread(t) /\ Count(t) <= lastSeen[t]
      BY <2>1, <3>1
    <3> QED
      BY <1>0, <2>2, <3>2 DEF ExhaustInv, UnchangedIsExhausted, Unchanged, Unpublished
  <2> QED
    BY <2>5, <2>6 DEF ExhaustInv
<1>2. ASSUME NEW f \in Fetcher,
             FetcherNext(f) \/ FetchExit(f) \/ \E v \in visit[f] : FetchFailed(f, v)
      PROVE  ExhaustInv'
  <2>1. Alone(f)
    BY <1>2, WorkerAlone
  <2>2. \A t : Count(t)' = Count(t) /\ InThread(t)' = InThread(t) /\ posted' = posted
    BY <2>1 DEF Count, InThread, Alone
  <2>3. Examined(f) /\ VisitTrue(f) /\ InOneThread(f) /\ UnchangedIsExhausted
    BY DEF VisitInv, ExhaustInv
  <2>4. skip \subseteq skip'
    BY <1>2 DEF FetcherNext, FetchExit, FetchFailed, ListThreads, SkipUnchanged, FetchThread,
       PassOver, Take, Mark, MarkIngested, StopExamining, Enqueue, MarkThreadRead, FetchDone, FetcherGone
  <2>5. \A g \in Fetcher \ {f} : Examined(g)'
    <3> SUFFICES ASSUME NEW g \in Fetcher \ {f}
                 PROVE  Examined(g)'
      OBVIOUS
    <3>1. /\ fpc'[g] = fpc[g] /\ thread'[g] = thread[g] /\ advertised'[g] = advertised[g]
          /\ left'[g] = left[g] /\ fresh'[g] = fresh[g]
      BY <2>1 DEF Alone
    <3>2. Examined(g)
      BY DEF ExhaustInv
    <3> QED
      BY <2>2, <2>4, <3>1, <3>2 DEF Examined
  <2>6. Examined(f)'
    <3>1. CASE \E v \in visit[f] : FetchThread(f, v)
      BY <2>2, <3>1 DEF FetchThread, Examined
    <3>2. CASE \E c \in left[f] : PassOver(f, c) \/ Take(f, c)
      <4> PICK c \in left[f] : PassOver(f, c) \/ Take(f, c)
        BY <3>2
      <4>1. /\ fpc[f] = "examine" /\ thread' = thread /\ advertised' = advertised /\ skip' = skip
            /\ left'[f] = left[f] \ {c} /\ fresh[f] \subseteq fresh'[f]
            /\ c \in skip \/ c \notin Kept \/ c \in fresh'[f]
        BY <2>3 DEF PassOver, Take, InOneThread
      <4> QED
        BY <2>2, <2>3, <4>1 DEF Examined, OnThread
    <3>3. CASE Mark(f)
      BY <2>2, <2>3, <3>3 DEF Mark, MarkIngested, Examined, OnThread
    <3>4. CASE StopExamining(f)
      <4>1. left[f] = {} /\ left'[f] = {} /\ fpc[f] = "examine"
            /\ UNCHANGED <<thread, advertised, fresh, skip>>
        BY <3>4 DEF StopExamining, Capped
      <4> QED
        BY <2>2, <2>3, <4>1 DEF Examined, OnThread
    <3>5. CASE Enqueue(f)
      <4>1. UNCHANGED <<thread, advertised, left, fresh, skip>> /\ fpc[f] = "enqueue"
        BY <3>5 DEF Enqueue
      <4> QED
        BY <2>2, <2>3, <4>1 DEF Examined, OnThread
    <3>6. CASE fpc'[f] \notin OnThread
      BY <3>6 DEF Examined
    <3> QED
      BY <1>2, <3>1, <3>2, <3>3, <3>4, <3>5, <3>6 DEF FetcherNext, FetchExit, FetchFailed,
         ListThreads, SkipUnchanged, MarkThreadRead, FetchDone, FetcherGone, FetchGoto, OnThread
  <2>7. UnchangedIsExhausted'
    <3> SUFFICES ASSUME NEW t \in Thread, lastSeen'[t] # Unpublished, Count(t) <= lastSeen'[t]
                 PROVE  posted \cap InThread(t) \cap Kept \subseteq skip'
      BY <2>2 DEF UnchangedIsExhausted, Unchanged
    <3>1. CASE lastSeen'[t] = lastSeen[t]
      BY <1>0, <2>3, <2>4, <3>1 DEF UnchangedIsExhausted, Unchanged, Unpublished
    <3>2. CASE MarkThreadRead(f) /\ t = thread[f] /\ lastSeen'[t] # lastSeen[t]
      <4>1. /\ fpc[f] = "read" /\ skip' = skip
            /\ lastSeen'[t] = IF advertised[f] = Unpublished THEN 0 ELSE advertised[f]
        BY <3>2 DEF MarkThreadRead
      <4>2. left[f] = {} /\ fresh[f] = {}
        BY <2>3, <4>1 DEF InOneThread, OnThread
      <4>3. CASE advertised[f] = Unpublished
        BY <1>0, <4>1, <4>3
      <4>4. CASE advertised[f] # Unpublished
        BY <2>3, <3>2, <4>1, <4>2, <4>4 DEF Examined, OnThread
      <4> QED
        BY <4>3, <4>4
    <3> QED
      BY <1>2, <3>1, <3>2 DEF FetcherNext, FetchExit, FetchFailed, ListThreads, SkipUnchanged,
         FetchThread, PassOver, Take, Mark, StopExamining, Enqueue, MarkThreadRead, FetchDone,
         FetcherGone
  <2> QED
    BY <2>5, <2>6, <2>7 DEF ExhaustInv
<1> QED
  BY <1>1, <1>2 DEF FetchNext

(* One worker marks a comment that no batch holds. *)
LEMMA OnceStep ==
    ASSUME \A f, g \in Fetcher : f = g, FetchInv, OnceInv, FetchNext
    PROVE  OnceInv'
<1> USE DEF FetchInv, FetchTypeOK, FetchGoto
<1>1. ASSUME UNCHANGED <<batches, skip>>,
             \A f \in Fetcher : hand'[f] \subseteq hand[f] /\ fresh'[f] \cap skip = {}
      PROVE  OnceInv'
  BY <1>1 DEF OnceInv, QueuedOnce, Queued, InHand
<1>2. ASSUME NEW f \in Fetcher, Enqueue(f)
      PROVE  OnceInv'
  <2>1. hand[f] \in SUBSET Comment /\ hand'[f] = {} /\ skip' = skip /\ fresh' = fresh
    BY <1>2 DEF Enqueue
  <2>2. \A g \in Fetcher : g = f
    OBVIOUS
  <2>3. hand[f] \cap Queued = {} /\ hand[f] \subseteq skip
    BY DEF OnceInv, InHand
  <2>4. CASE batches' = batches
    BY <1>1, <2>1, <2>2, <2>4 DEF OnceInv
  <2>5. CASE EnqueueBatch(hand[f])
    <3>1. Queued' = Queued \cup hand[f]
      BY <2>1, <2>5, EnqueuedIsQueued
    <3>2. /\ batches' = Append(batches, [comments |-> hand[f], status |-> "pending"])
          /\ batches \in Seq(Batch) /\ [comments |-> hand[f], status |-> "pending"] \in Batch
      BY <2>1, <2>5 DEF EnqueueBatch, Batch, QueueTypeOK
    <3>3. /\ DOMAIN batches' = DOMAIN batches \cup {Len(batches) + 1}
          /\ \A b \in DOMAIN batches : batches'[b] = batches[b] /\ b # Len(batches) + 1
          /\ batches'[Len(batches) + 1].comments = hand[f]
      BY <3>2
    <3>4. \A b \in DOMAIN batches : batches[b].comments \cap hand[f] = {}
      BY <2>3 DEF Queued
    <3>5. QueuedOnce'
      BY <3>3, <3>4 DEF OnceInv, QueuedOnce
    <3> QED
      BY <2>1, <2>2, <2>3, <3>1, <3>5 DEF OnceInv, InHand
  <2> QED
    BY <1>2, <2>4, <2>5 DEF Enqueue
<1>3. ASSUME NEW f \in Fetcher, Mark(f)
      PROVE  OnceInv'
  <2>1. /\ skip' = skip \cup fresh[f] /\ hand'[f] = hand[f] \cup fresh[f] /\ fresh'[f] = {}
        /\ batches' = batches
    BY <1>3 DEF Mark, MarkIngested
  <2>2. \A g \in Fetcher : g = f
    OBVIOUS
  <2>3. fresh[f] \cap Queued = {}
    BY DEF OnceInv
  <2> QED
    BY <2>1, <2>2, <2>3 DEF OnceInv, QueuedOnce, Queued, InHand
<1>4. ASSUME NEW f \in Fetcher, NEW c \in left[f], Take(f, c)
      PROVE  OnceInv'
  BY <1>1, <1>4 DEF Take, OnceInv
<1>5. ASSUME NEW f \in Fetcher, FetchDone(f) \/ FetchExit(f)
      PROVE  OnceInv'
  BY <1>1, <1>5 DEF FetchDone, FetchExit, FetcherGone, OnceInv
<1>6. CASE UNCHANGED <<batches, skip, hand, fresh>>
  BY <1>1, <1>6 DEF OnceInv
<1> QED
  BY <1>2, <1>3, <1>4, <1>5, <1>6 DEF FetchNext, FetcherNext, ListThreads, SkipUnchanged,
     FetchFailed, FetchThread, PassOver, StopExamining, MarkThreadRead, Post, fetcherVars

----------------------------------------------------------------------------
(* The comment ceiling is overshot by at most one thread's kept comments, by  *)
(* any number of workers, whatever the counts the listings publish.          *)
THEOREM CeilingOvershotByOneThread == Thread # {} => (FetchSpec => [](FetchInv /\ VisitInv))
<1> SUFFICES ASSUME Thread # {}
             PROVE  FetchSpec => [](FetchInv /\ VisitInv)
  OBVIOUS
<1>1. FetchInit => VisitInv
  <2> SUFFICES ASSUME FetchInit
               PROVE  VisitInv
    OBVIOUS
  <2>1. FetchTypeOK
    BY QueueAssumption, FetchAssumption
       DEF FetchInit, FetchTypeOK, QueueTypeOK, FetchStage, Unpublished
  <2>2. SeenTrue
    BY <2>1, CountFacts DEF FetchInit, SeenTrue, Unpublished
  <2>3. OvershootsOneThread
    <3> SUFFICES ASSUME CommentBudget > 0, NEW f \in Fetcher
                 PROVE  \E t \in Thread :
                            used[f] < CommentBudget + Cardinality(InThread(t) \cap Kept)
      BY DEF OvershootsOneThread
    <3>1. PICK t \in Thread : TRUE
      OBVIOUS
    <3>2. Cardinality(InThread(t) \cap Kept) \in Nat /\ used[f] = 0 /\ CommentBudget \in Nat
      <4>1. InThread(t) \cap Kept \in SUBSET Comment
        BY DEF InThread
      <4> QED
        BY <4>1, CountIsNat, FetchAssumption DEF FetchInit
    <3>3. used[f] < CommentBudget + Cardinality(InThread(t) \cap Kept)
      BY <3>2
    <3> QED
      BY <3>3
  <2> QED
    BY <2>2, <2>3 DEF FetchInit, VisitInv, VisitTrue, InOneThread, OnThread
<1>2. FetchInv /\ VisitInv /\ [FetchNext]_fetchVars => VisitInv'
  <2>1. ASSUME VisitInv, UNCHANGED fetchVars
        PROVE  VisitInv'
    BY <2>1 DEF fetchVars, fetchOnly, fetcherVars, VisitInv, VisitTrue, InOneThread, Spent, SeenTrue,
       OvershootsOneThread, Count, InThread
  <2> QED
    BY <2>1, VisitInvStep
<1> QED
  BY <1>1, <1>2, FetchInvariant, PTL DEF FetchSpec

(* Where threads are not capped, a thread the worker passes over as unchanged *)
(* has nothing the archive lacks, for any number of overlapping workers that *)
(* exit anywhere.                                                            *)
THEOREM UnchangedHoldsNothingNew ==
    Thread # {} /\ ThreadCap = 0 => (FetchSpec => []UnchangedIsExhausted)
<1> SUFFICES ASSUME Thread # {}, ThreadCap = 0
             PROVE  FetchSpec => []UnchangedIsExhausted
  OBVIOUS
<1>1. FetchInit => ExhaustInv
  BY DEF FetchInit, ExhaustInv, Examined, OnThread, UnchangedIsExhausted, Unchanged
<1>2. FetchInv /\ VisitInv /\ ExhaustInv /\ [FetchNext]_fetchVars => ExhaustInv'
  <2>1. ASSUME ExhaustInv, UNCHANGED fetchVars
        PROVE  ExhaustInv'
    BY <2>1 DEF fetchVars, fetchOnly, fetcherVars, ExhaustInv, Examined, UnchangedIsExhausted,
       Unchanged, Count, InThread
  <2> QED
    BY <2>1, ExhaustStep
<1>3. ExhaustInv => UnchangedIsExhausted
  BY DEF ExhaustInv
<1>4. FetchSpec => [](FetchInv /\ VisitInv)
  BY CeilingOvershotByOneThread
<1> QED
  BY <1>1, <1>2, <1>3, <1>4, PTL DEF FetchSpec

(* A single worker never queues a comment twice, wherever it is killed.      *)
THEOREM OneWorkerQueuesOnce ==
    (\A f, g \in Fetcher : f = g) => (FetchSpec => []QueuedOnce)
<1> SUFFICES ASSUME \A f, g \in Fetcher : f = g
             PROVE  FetchSpec => []QueuedOnce
  OBVIOUS
<1>1. FetchInit => OnceInv
  BY DEF FetchInit, OnceInv, QueuedOnce, Queued, InHand
<1>2. FetchInv /\ OnceInv /\ [FetchNext]_fetchVars => OnceInv'
  <2>1. ASSUME OnceInv, UNCHANGED fetchVars
        PROVE  OnceInv'
    BY <2>1 DEF fetchVars, fetchOnly, fetcherVars, OnceInv, QueuedOnce, Queued, InHand
  <2> QED
    BY <2>1, OnceStep
<1>3. OnceInv => QueuedOnce
  BY DEF OnceInv
<1> QED
  BY <1>1, <1>2, <1>3, FetchInvariant, PTL DEF FetchSpec

(* Re-reading neither loses nor repeats: with one worker and no cap, for any  *)
(* threads and counts and any exits.                                         *)
THEOREM ReReadingIsExact ==
    Thread # {} /\ ThreadCap = 0 /\ (\A f, g \in Fetcher : f = g)
        => (FetchSpec => []VisitsAreExact)
<1> SUFFICES ASSUME Thread # {}, ThreadCap = 0, \A f, g \in Fetcher : f = g
             PROVE  FetchSpec => []VisitsAreExact
  OBVIOUS
<1>1. VisitInv => OvershootsOneThread
  BY DEF VisitInv
<1>2. UnchangedIsExhausted /\ OvershootsOneThread /\ QueuedOnce => VisitsAreExact
  BY DEF VisitsAreExact
<1>3. FetchSpec => [](FetchInv /\ VisitInv)
  BY CeilingOvershotByOneThread
<1>4. FetchSpec => []UnchangedIsExhausted
  BY UnchangedHoldsNothingNew
<1>5. FetchSpec => []QueuedOnce
  BY OneWorkerQueuesOnce
<1> QED
  BY <1>1, <1>2, <1>3, <1>4, <1>5, PTL

-----------------------------------------------------------------------------
(* The deep walk of a feed                                                 *)

(* A set of numbers has a least one. *)
LEMMA LeastOfNaturals ==
    ASSUME NEW T \in SUBSET Nat, T # {}
    PROVE  Min(T) \in T /\ \A n \in T : Min(T) <= n
<1>1. \E m \in T : \A n \in T : ~(<<n, m>> \in OpToRel(<, Nat))
  BY WFMin, NatLessThanWellFounded
<1>2. \A m, n \in Nat : ~(<<n, m>> \in OpToRel(<, Nat)) => m <= n
  BY DEF OpToRel
<1>3. \E m \in T : \A n \in T : m <= n
  BY <1>1, <1>2
<1> QED
  BY <1>3 DEF Min

WalkSteps == {"none", "listing", "fetching"}
Walks == [step : WalkSteps, want : Nat, until : Nat, cursor : Nat, out : SUBSET Stories,
          todo : SUBSET Stories]
Apart == \A s, t \in Stories : s # t /\ created[s] > 0 => created[s] # created[t]
(* The cursor of a listing is its oldest story. *)
CursorIsOldest ==
    walk.step = "listing" =>
        \/ walk.cursor = 0 /\ walk.out = {}
        \/ /\ walk.cursor # 0 /\ \A u \in walk.out : created[u] >= walk.cursor
           /\ \E u \in walk.out : created[u] = walk.cursor
BackfillInv ==
    /\ created \in [Stories -> Nat] /\ Apart
    /\ walk \in Walks
    /\ \A s \in walk.out : created[s] > 0 /\ created[s] >= walk.until
    /\ CursorIsOldest
    /\ NoHole

(* The newest stories before the cursor are listed next. *)
LEMMA PageHasNoHole ==
    ASSUME BackfillInv, walk.step = "listing", NEW size, NEW p \in Pages(walk.cursor, size),
           NEW kept, kept = {s \in p \ walk.out : created[s] >= walk.until}
    PROVE  /\ p \subseteq Stories /\ p \cap walk.out = {}
           /\ \A s \in p : created[s] > 0
           /\ \A s \in walk.out \cup kept, t \in Hits(0) :
                 /\ created[s] < created[t] /\ t \notin walk.out \cup kept
                 => \A u \in walk.out \cup kept : created[u] < created[t]
<1>1. /\ p \subseteq Hits(walk.cursor)
      /\ \A s \in p, t \in Hits(walk.cursor) \ p : created[s] >= created[t]
  BY DEF Pages
<1>2. /\ created \in [Stories -> Nat] /\ walk.cursor \in Nat /\ walk.out \subseteq Stories
      /\ walk.until \in Nat
  BY DEF BackfillInv, Walks
<1>3. p \subseteq Stories /\ \A s \in p : created[s] > 0 /\ (walk.cursor = 0 \/ created[s] < walk.cursor)
  BY <1>1 DEF Hits
<1>4. p \cap walk.out = {}
  <2> SUFFICES ASSUME NEW s \in p, s \in walk.out PROVE FALSE
    OBVIOUS
  <2>1. walk.cursor # 0 /\ created[s] >= walk.cursor
    BY DEF BackfillInv, CursorIsOldest
  <2> QED
    BY <1>2, <1>3, <2>1
<1>5. ASSUME NEW s \in walk.out \cup kept, NEW t \in Hits(0), created[s] < created[t],
             t \notin walk.out \cup kept, NEW u \in walk.out \cup kept
      PROVE  created[u] < created[t]
  <2>1. t \in Stories /\ created[t] > 0 /\ s \in Stories /\ u \in Stories
    BY <1>2, <1>3 DEF Hits
  <2>2. created[s] >= walk.until
    BY DEF BackfillInv
  <2>3. t \notin p
    BY <1>2, <1>5, <2>1, <2>2
  <2>4. ASSUME NEW o \in walk.out, created[o] < created[t]
        PROVE  created[u] < created[t]
    <3>1. \A v \in walk.out : created[v] < created[t]
      BY <1>5, <2>4 DEF BackfillInv, NoHole
    <3>2. CASE u \in walk.out
      BY <3>1, <3>2
    <3>3. CASE u \in kept
      <4>1. walk.cursor # 0 /\ \E w \in walk.out : created[w] = walk.cursor
        BY <2>4 DEF BackfillInv, CursorIsOldest
      <4>2. walk.cursor < created[t] /\ created[u] < walk.cursor
        BY <1>3, <3>1, <3>3, <4>1
      <4> QED
        BY <1>2, <2>1, <4>2
    <3> QED
      BY <3>2, <3>3
  <2>5. CASE s \in walk.out
    BY <1>5, <2>4, <2>5
  <2>6. CASE s \in p
    <3>1. t \notin Hits(walk.cursor)
      BY <1>1, <1>2, <1>5, <2>1, <2>3, <2>6
    <3>2. walk.cursor # 0 /\ created[t] >= walk.cursor
      BY <1>2, <2>1, <3>1 DEF Hits
    <3>3. PICK o \in walk.out : created[o] = walk.cursor
      BY <3>2 DEF BackfillInv, CursorIsOldest
    <3>4. created[o] # created[t]
      BY <1>2, <1>5, <2>1, <3>3 DEF BackfillInv, Apart
    <3>5. created[o] < created[t]
      BY <1>2, <2>1, <3>2, <3>3, <3>4
    <3> QED
      BY <2>4, <3>5
  <2> QED
    BY <2>5, <2>6
<1> QED
  BY <1>3, <1>4, <1>5

LEMMA ListPageStep ==
    ASSUME BackfillInv, ListPage
    PROVE  BackfillInv'
<1>1. PICK p \in Pages(walk.cursor, Min({PageSize, walk.want - Cardinality(walk.out)})) :
        LET new == p \ walk.out
            kept == {s \in new : created[s] >= walk.until}
            oldest == IF new = {} THEN 0 ELSE Min({created[s] : s \in new})
            out == walk.out \cup kept
            over == \/ Cardinality(out) = walk.want \/ oldest = 0 \/ oldest < walk.until
                    \/ kept = {} /\ walk.cursor = oldest
        IN walk' = IF ~over THEN [walk EXCEPT !.out = out, !.cursor = Cursor(oldest)]
                   ELSE IF out = {} THEN NoWalk
                   ELSE [walk EXCEPT !.step = "fetching", !.out = out, !.todo = out]
  BY DEF ListPage
<1> DEFINE kept == {s \in p \ walk.out : created[s] >= walk.until}
           oldest == IF p \ walk.out = {} THEN 0 ELSE Min({created[s] : s \in p \ walk.out})
           out == walk.out \cup kept
<1>2. \/ /\ walk' = [walk EXCEPT !.out = out, !.cursor = oldest]
         /\ oldest # 0 /\ ~(oldest < walk.until)
      \/ walk' = NoWalk
      \/ walk' = [walk EXCEPT !.step = "fetching", !.out = out, !.todo = out]
  BY <1>1 DEF Cursor
<1>3. walk.step = "listing" /\ created' = created
  BY DEF ListPage
<1>4. /\ p \subseteq Stories /\ p \cap walk.out = {}
      /\ \A s \in p : created[s] > 0
      /\ \A s \in out, t \in Hits(0) :
            created[s] < created[t] /\ t \notin out => \A u \in out : created[u] < created[t]
  <2> DEFINE size == Min({PageSize, walk.want - Cardinality(walk.out)})
  <2>1. p \in Pages(walk.cursor, size) /\ kept = {s \in p \ walk.out : created[s] >= walk.until}
    BY <1>1
  <2> HIDE DEF size, kept
  <2> QED
    BY <1>3, <2>1, PageHasNoHole
<1>5. /\ created \in [Stories -> Nat] /\ walk \in Walks
      /\ \A s \in out : s \in Stories /\ created[s] > 0 /\ created[s] >= walk.until
  BY <1>4 DEF BackfillInv, Walks
<1>6. oldest # 0 => oldest \in Nat /\ (\E s \in p : created[s] = oldest) /\ \A s \in p : oldest <= created[s]
  <2> SUFFICES ASSUME oldest # 0
               PROVE  oldest \in Nat /\ (\E s \in p : created[s] = oldest) /\ \A s \in p : oldest <= created[s]
    OBVIOUS
  <2> DEFINE T == {created[s] : s \in p \ walk.out}
  <2>1. T \in SUBSET Nat /\ T # {} /\ oldest = Min(T)
    BY <1>4, <1>5
  <2>2. Min(T) \in T /\ \A n \in T : Min(T) <= n
    BY <2>1, LeastOfNaturals
  <2>3. \A s \in p : created[s] \in T
    BY <1>4
  <2> QED
    BY <2>1, <2>2, <2>3
<1> HIDE DEF oldest
<1>7. CASE /\ walk' = [walk EXCEPT !.out = out, !.cursor = oldest]
           /\ oldest # 0 /\ ~(oldest < walk.until)
  <2>1. /\ walk' \in Walks /\ walk'.out = out /\ walk'.cursor = oldest /\ walk'.until = walk.until
        /\ walk'.step = "listing"
    BY <1>3, <1>5, <1>6, <1>7 DEF Walks
  <2>2. /\ oldest \in Nat /\ \A s \in p : oldest <= created[s]
        /\ \E s \in p : created[s] = oldest
    BY <1>6, <1>7
  <2>3. p \subseteq kept
    BY <1>4, <1>5, <1>7, <2>2 DEF Walks
  <2>4. \A u \in walk.out : created[u] >= oldest
    <3>1. PICK s \in p : created[s] = oldest
      BY <2>2
    <3>2. walk.cursor = 0 \/ created[s] < walk.cursor
      BY <1>1, <3>1 DEF Pages, Hits
    <3> QED
      BY <1>3, <1>4, <1>5, <2>2, <3>1, <3>2 DEF BackfillInv, CursorIsOldest, Walks
  <2>5. CursorIsOldest'
    BY <1>3, <1>7, <2>1, <2>2, <2>3, <2>4 DEF CursorIsOldest
  <2>6. NoHole'
    BY <1>3, <1>4, <2>1 DEF NoHole, Hits
  <2> QED
    BY <1>3, <1>5, <2>1, <2>5, <2>6 DEF BackfillInv, Apart
<1>8. CASE walk' = NoWalk
  BY <1>3, <1>8 DEF BackfillInv, Apart, NoWalk, Walks, WalkSteps, CursorIsOldest, NoHole
<1>9. CASE walk' = [walk EXCEPT !.step = "fetching", !.out = out, !.todo = out]
  <2>1. walk' \in Walks /\ walk'.out = out /\ walk'.until = walk.until /\ walk'.step = "fetching"
    BY <1>5, <1>9 DEF Walks, WalkSteps
  <2>2. NoHole'
    BY <1>3, <1>4, <2>1 DEF NoHole, Hits
  <2> QED
    BY <1>3, <1>5, <2>1, <2>2 DEF BackfillInv, Apart, CursorIsOldest
<1> QED
  BY <1>2, <1>7, <1>8, <1>9

LEMMA BackfillStep ==
    ASSUME BackfillInv, BackfillNext
    PROVE  BackfillInv'
<1>1. ASSUME NEW s \in Stories, StoryPosted(s)
      PROVE  BackfillInv'
  <2>1. PICK at \in 1..Times : /\ \A t \in Stories : created[t] < at
                               /\ created' = [created EXCEPT ![s] = at]
    BY <1>1 DEF StoryPosted
  <2>2. at \in Nat /\ at > 0 /\ walk' = walk /\ created[s] = 0 /\ s \notin walk.out
    BY <1>1, BackfillAssumption DEF StoryPosted, BackfillInv
  <2>3. created' \in [Stories -> Nat] /\ created'[s] = at /\ \A t \in Stories \ {s} : created'[t] = created[t]
    BY <2>1, <2>2 DEF BackfillInv
  <2>4. \A t \in walk.out : t \in Stories \ {s} /\ created'[t] = created[t]
    BY <2>2, <2>3 DEF BackfillInv, Walks
  <2>5. Apart'
    BY <2>1, <2>2, <2>3 DEF BackfillInv, Apart
  <2>6. NoHole'
    <3> SUFFICES ASSUME NEW x \in walk.out, NEW t \in Hits(0)', created'[x] < created'[t],
                        t \notin walk.out, NEW u \in walk.out
                 PROVE  created'[u] < created'[t]
      BY <2>2 DEF NoHole
    <3>1. CASE t = s
      BY <2>1, <2>3, <2>4, <3>1
    <3>2. CASE t # s
      <4>1. t \in Hits(0) /\ created'[t] = created[t]
        BY <2>3, <3>2 DEF Hits
      <4> QED
        BY <2>4, <4>1 DEF BackfillInv, NoHole
    <3> QED
      BY <3>1, <3>2
  <2>7. CursorIsOldest'
    BY <2>2, <2>4 DEF BackfillInv, CursorIsOldest
  <2> QED
    BY <2>2, <2>3, <2>4, <2>5, <2>6, <2>7 DEF BackfillInv
<1>2. ASSUME NEW s \in Stories, FetchStory(s) \/ StoryFailed(s)
      PROVE  BackfillInv'
  <2>1. /\ created' = created /\ walk.step = "fetching"
        /\ walk' = [walk EXCEPT !.todo = @ \ {s}]
    BY <1>2 DEF FetchStory, StoryFailed
  <2>2. /\ walk' \in Walks /\ walk'.out = walk.out /\ walk'.until = walk.until
        /\ walk'.step = "fetching"
    BY <2>1 DEF BackfillInv, Walks
  <2> QED
    BY <2>1, <2>2 DEF BackfillInv, Apart, CursorIsOldest, NoHole, Hits
<1>3. ASSUME NEW want \in 1..Cardinality(Stories), NEW until \in 0..Times, StartWalk(want, until)
      PROVE  BackfillInv'
  <2>1. Cardinality(Stories) \in Nat
    BY BackfillAssumption, FS_CardinalityType
  <2>2. want \in Nat /\ until \in Nat
    BY <2>1, BackfillAssumption
  <2>3. /\ walk' \in Walks /\ walk'.out = {} /\ walk'.cursor = 0 /\ walk'.step = "listing"
        /\ created' = created
    BY <1>3, <2>2 DEF StartWalk, NoWalk, Walks, WalkSteps
  <2> QED
    BY <2>3 DEF BackfillInv, Apart, CursorIsOldest, NoHole
<1>4. CASE ListFailed \/ WalkDone \/ WalkKilled
  <2>1. walk' = NoWalk /\ created' = created
    BY <1>4 DEF ListFailed, WalkDone, WalkKilled
  <2> QED
    BY <2>1 DEF BackfillInv, Apart, NoWalk, Walks, WalkSteps, CursorIsOldest, NoHole
<1> QED
  BY <1>1, <1>2, <1>3, <1>4, ListPageStep DEF BackfillNext

(* A deep walk leaves no hole, for any feed whose stories are a second apart, *)
(* any page size, boundary and stories that come meanwhile (backfill.go:     *)
(* the cursor is strict, so that stories of one second may be lost).         *)
THEOREM WalksHaveNoHole == ~Shared => (BackfillSpec => []NoHole)
<1> SUFFICES ASSUME ~Shared PROVE BackfillSpec => []NoHole
  OBVIOUS
<1>1. BackfillInit => BackfillInv
  <2> SUFFICES ASSUME BackfillInit PROVE BackfillInv
    OBVIOUS
  <2>1. created \in [Stories -> Nat] /\ Apart
    BY BackfillAssumption DEF BackfillInit, Apart
  <2> QED
    BY <2>1 DEF BackfillInit, BackfillInv, NoWalk, Walks, WalkSteps, CursorIsOldest, NoHole
<1>2. BackfillInv /\ [BackfillNext]_backfillVars => BackfillInv'
  <2>1. ASSUME BackfillInv, UNCHANGED backfillVars
        PROVE  BackfillInv'
    BY <2>1 DEF backfillVars, BackfillInv, Apart, CursorIsOldest, NoHole, Hits
  <2> QED
    BY <2>1, BackfillStep
<1>3. BackfillInv => NoHole
  BY DEF BackfillInv
<1> QED
  BY <1>1, <1>2, <1>3, PTL DEF BackfillSpec

-----------------------------------------------------------------------------
(* The rotation                                                            *)

Fields == {"order", "enabled", "rotated", "posts", "comments", "visit"}
VisitFields == {"step", "left", "err"}
(* The first source of a run's order that has yet to be tried. *)
From == IF liveRun.visit.step = "record" THEN 2 ELSE 1
(* The sources to come are in the order of their last visits, and one that   *)
(* was passed over without a visit has been excused for it.                  *)
OrderKept ==
    liveRun.rotated =>
        LET order == liveRun.order
        IN /\ order \in Seq(Names) /\ order # <<>>
           /\ \A i, j \in DOMAIN order : i < j => order[i] # order[j]
           /\ \A i, j \in DOMAIN order : From <= i /\ i < j => state[order[i]] <= state[order[j]]
           /\ \A f \in enabled, j \in DOMAIN order :
                 /\ From <= j /\ \A i \in DOMAIN order : From <= i => order[i] # f
                 /\ state[f] < lives
                 => overtaken[f][order[j]] <= breaks
RotationInv ==
    /\ lives \in Nat /\ breaks \in Nat
    /\ state \in [Names -> Nat] /\ \A f \in Names : state[f] <= lives
    /\ overtaken \in [Names -> [Names -> Nat]]
    /\ \A f, g \in Names : overtaken[f][g] > 0 => state[f] < state[g]
    /\ \A f, g \in Names : overtaken[f][g] <= 1 + breaks
    /\ enabled \subseteq Names /\ enabled # {}
    /\ DOMAIN liveRun = Fields /\ DOMAIN liveRun.visit = VisitFields
    /\ liveRun # NoLive => liveRun.enabled = enabled
    /\ OrderKept

(* Excuses do not run out. *)
LEMMA RotationRunEnds ==
    ASSUME RotationInv, liveRun' = NoLive, UNCHANGED <<enabled, state, overtaken, lives>>,
           breaks' \in Nat, breaks <= breaks'
    PROVE  RotationInv'
<1>1. DOMAIN NoLive = Fields /\ DOMAIN NoLive.visit = VisitFields /\ NoLive.rotated = FALSE
  BY DEF NoLive, NoVisit, Fields, VisitFields
<1>2. \A f, g \in Names : overtaken[f][g] <= 1 + breaks'
  BY DEF RotationInv
<1> QED
  BY <1>1, <1>2 DEF RotationInv, OrderKept

(* A visit is under way: nothing is tried and nothing is passed. *)
LEMMA VisitGoesOn ==
    ASSUME RotationInv, liveRun # NoLive, UNCHANGED <<enabled, state, overtaken, lives, breaks>>,
           liveRun.visit.step # "record",
           DOMAIN liveRun' = Fields, DOMAIN liveRun'.visit = VisitFields,
           liveRun'.visit.step # "record", liveRun'.order = liveRun.order,
           liveRun'.enabled = liveRun.enabled, liveRun'.rotated = liveRun.rotated
    PROVE  RotationInv'
<1>1. From = 1 /\ From' = 1
  BY DEF From
<1>2. OrderKept'
  BY <1>1 DEF RotationInv, OrderKept
<1> QED
  BY <1>2 DEF RotationInv

(* The first source is passed: it was tried, is off, or is excused. *)
LEMMA SourcePassed ==
    ASSUME RotationInv, liveRun # NoLive, UNCHANGED <<enabled, state, overtaken, lives>>,
           liveRun' = NextFeed, breaks' \in Nat, breaks <= breaks',
           liveRun.visit.step = "record" \/ Visited \notin enabled \/ breaks' = breaks + 1
    PROVE  RotationInv'
<1>1. CASE Len(liveRun.order) = 1
  BY <1>1, RotationRunEnds DEF NextFeed
<1>2. CASE Len(liveRun.order) # 1
  <2>1. /\ DOMAIN liveRun' = Fields /\ liveRun'.visit = NoVisit /\ DOMAIN NoVisit = VisitFields
        /\ liveRun'.order = Tail(liveRun.order) /\ liveRun'.enabled = liveRun.enabled
        /\ liveRun'.rotated = liveRun.rotated
    BY <1>2 DEF NextFeed, RotationInv, Fields, NoVisit, VisitFields
  <2>2. From' = 1 /\ From \in {1, 2}
    BY <2>1 DEF From, NoVisit
  <2>3. \A f, g \in Names : overtaken[f][g] <= 1 + breaks'
    BY DEF RotationInv
  <2>4. ASSUME liveRun.rotated
        PROVE  OrderKept'
    <3> DEFINE order == liveRun.order
               rest == {i \in DOMAIN order : From <= i}
               next == Tail(order)
    <3>1. /\ order \in Seq(Names) /\ order # <<>>
          /\ \A i, j \in DOMAIN order : i < j => order[i] # order[j]
          /\ \A i, j \in rest : i < j => state[order[i]] <= state[order[j]]
          /\ \A f \in enabled, j \in rest :
                 (\A i \in rest : order[i] # f) /\ state[f] < lives
                 => overtaken[f][order[j]] <= breaks
      BY <2>4 DEF RotationInv, OrderKept
    <3>2. /\ next \in Seq(Names) /\ Len(next) = Len(order) - 1 /\ Len(order) \in Nat
          /\ \A i \in 1..Len(next) : next[i] = order[i + 1]
          /\ DOMAIN next = 1..Len(next) /\ DOMAIN order = 1..Len(order) /\ Len(order) >= 1
          /\ Visited = order[1]
      BY <3>1, HeadTailProperties, LenProperties, EmptySeq DEF Visited
    <3>3. next # <<>>
      <4>1. Len(next) # 0
        BY <1>2, <3>2
      <4> QED
        BY <4>1, EmptySeq
    <3>4. \A i \in DOMAIN next : i + 1 \in rest /\ i + 1 \in DOMAIN order /\ next[i] = order[i + 1]
      BY <2>2, <3>2
    <3> HIDE DEF order, next
    <3>5. \A i, j \in DOMAIN next : i < j => next[i] # next[j] /\ state[next[i]] <= state[next[j]]
      <4> SUFFICES ASSUME NEW i \in DOMAIN next, NEW j \in DOMAIN next, i < j
                   PROVE  next[i] # next[j] /\ state[next[i]] <= state[next[j]]
        OBVIOUS
      <4>1. i + 1 < j + 1
        BY <3>2
      <4> QED
        BY <3>1, <3>4, <4>1
    <3>6. ASSUME NEW f \in enabled, NEW j \in DOMAIN next, \A i \in DOMAIN next : next[i] # f,
                 state[f] < lives
          PROVE  overtaken[f][next[j]] <= breaks'
      <4>1. j + 1 \in rest /\ next[j] = order[j + 1] /\ f \in Names /\ next[j] \in Names
        BY <3>2, <3>4 DEF RotationInv
      <4>2. overtaken[f][next[j]] \in Nat /\ breaks \in Nat
        BY <4>1 DEF RotationInv
      <4>3. CASE \A i \in rest : order[i] # f
        BY <3>1, <3>6, <4>1, <4>2, <4>3
      <4>4. CASE ~\A i \in rest : order[i] # f
        <5>1. PICK i \in rest : order[i] = f
          BY <4>4
        <5>2. i = 1
          <6> SUFFICES ASSUME i # 1 PROVE FALSE
            OBVIOUS
          <6>1. i - 1 \in DOMAIN next /\ (i - 1) + 1 = i
            BY <3>2 DEF order
          <6> QED
            BY <3>4, <3>6, <5>1, <6>1
        <5>3. liveRun.visit.step # "record" /\ f = Visited
          BY <3>2, <5>1, <5>2 DEF From
        <5>4. breaks' = breaks + 1
          BY <5>3
        <5> QED
          BY <2>3, <4>1, <4>2, <5>4 DEF RotationInv
      <4> QED
        BY <4>3, <4>4
    <3>7. next = liveRun'.order
      BY <2>1 DEF next, order
    <3>8. \A i \in DOMAIN next : From' <= i
      BY <2>2, <3>2
    <3>9. /\ next \in Seq(Names) /\ next # <<>>
          /\ \A i, j \in DOMAIN next : i < j => next[i] # next[j]
          /\ \A i, j \in DOMAIN next : From' <= i /\ i < j => state'[next[i]] <= state'[next[j]]
      BY <3>2, <3>3, <3>5
    <3>10. \A f \in enabled', j \in DOMAIN next :
              /\ From' <= j /\ \A i \in DOMAIN next : From' <= i => next[i] # f
              /\ state'[f] < lives'
              => overtaken'[f][next[j]] <= breaks'
      BY <3>6, <3>8
    <3> HIDE DEF rest
    <3> QED
      BY <3>7, <3>9, <3>10 DEF OrderKept
  <2>5. OrderKept'
    BY <2>1, <2>4 DEF OrderKept
  <2>6. liveRun' # NoLive => liveRun'.enabled = enabled
    BY <2>1 DEF RotationInv
  <2> QED
    BY <2>1, <2>3, <2>5, <2>6 DEF RotationInv
<1> QED
  BY <1>1, <1>2

(* A source is tried: it has overtaken one that is still to come for the     *)
(* first time, or one that is excused.                                       *)
LEMMA SourceTried ==
    ASSUME RotationInv, NEW done \in BOOLEAN, TouchSource(done)
    PROVE  RotationInv'
<1>1. /\ liveRun # NoLive /\ liveRun.visit.step = "touch" /\ liveRun.enabled = enabled
      /\ liveRun' = [liveRun EXCEPT !.visit.step = "record"] /\ UNCHANGED <<enabled, lives>>
  BY DEF TouchSource, NoneLive, RotationInv
<1>2. /\ DOMAIN liveRun' = Fields /\ DOMAIN liveRun'.visit = VisitFields
      /\ liveRun'.visit.step = "record" /\ liveRun'.order = liveRun.order
      /\ liveRun'.enabled = liveRun.enabled /\ liveRun'.rotated = liveRun.rotated
      /\ From = 1 /\ From' = 2 /\ Visited' = Visited
  BY <1>1 DEF RotationInv, Fields, VisitFields, From, Visited
<1> DEFINE order == liveRun.order
<1>3. ASSUME liveRun.rotated
      PROVE  /\ order \in Seq(Names) /\ order # <<>> /\ Visited = order[1]
             /\ Len(order) \in Nat /\ Len(order) >= 1 /\ DOMAIN order = 1..Len(order)
             /\ \A i, j \in DOMAIN order : i < j => order[i] # order[j]
             /\ \A i, j \in DOMAIN order : i < j => state[order[i]] <= state[order[j]]
             /\ \A f \in enabled, j \in DOMAIN order :
                   (\A i \in DOMAIN order : order[i] # f) /\ state[f] < lives
                   => overtaken[f][order[j]] <= breaks
  <2>1. /\ order \in Seq(Names) /\ order # <<>>
        /\ Len(order) \in Nat /\ Len(order) >= 1 /\ DOMAIN order = 1..Len(order)
        /\ Visited = order[1]
    BY <1>3, LenProperties, EmptySeq, HeadTailProperties DEF RotationInv, OrderKept, Visited
  <2>2. \A i \in DOMAIN order : From <= i
    BY <1>2, <2>1
  <2> QED
    BY <1>3, <2>1, <2>2 DEF RotationInv, OrderKept
<1>4. CASE ~done
  <2>1. breaks' = breaks + 1 /\ UNCHANGED <<state, overtaken>>
    BY <1>4 DEF TouchSource, Break
  <2>2. breaks' \in Nat /\ \A f, g \in Names : overtaken[f][g] <= breaks'
    BY <2>1 DEF RotationInv
  <2>3. ASSUME liveRun.rotated
        PROVE  OrderKept'
    <3>1. \A f \in enabled, j \in DOMAIN order : f \in Names /\ order[j] \in Names
      BY <1>3, <2>3 DEF RotationInv
    <3> QED
      BY <1>1, <1>2, <1>3, <2>1, <2>2, <2>3, <3>1 DEF OrderKept
  <2>4. OrderKept'
    BY <1>2, <2>3 DEF OrderKept
  <2> QED
    BY <1>1, <1>2, <2>1, <2>2, <2>4 DEF RotationInv
<1>5. CASE done
  <2>1. /\ breaks' = breaks /\ state' = [state EXCEPT ![Visited] = lives]
        /\ overtaken' = [f \in Names |-> [g \in Names |->
              IF f = Visited THEN 0
              ELSE IF liveRun.rotated /\ g = Visited /\ f \in enabled /\ state[f] < lives
                   THEN overtaken[f][g] + 1 ELSE overtaken[f][g]]]
    BY <1>1, <1>5 DEF TouchSource
  <2>2. /\ state' \in [Names -> Nat] /\ lives \in Nat
        /\ \A f \in Names : /\ state[f] \in Nat /\ state[f] <= lives
                             /\ state'[f] = IF f = Visited THEN lives ELSE state[f]
    BY <2>1 DEF RotationInv
  <2>3. \A f, g \in Names : overtaken[f][g] \in Nat
    BY DEF RotationInv
  <2>4. overtaken' \in [Names -> [Names -> Nat]]
    BY <2>1, <2>3
  <2>5. ASSUME NEW f \in Names, NEW g \in Names
        PROVE  /\ overtaken'[f][g] > 0 => state'[f] < state'[g]
               /\ overtaken'[f][g] <= 1 + breaks
    <3>1. overtaken[f][g] > 0 => state[f] < state[g]
      BY DEF RotationInv
    <3>2. CASE f = Visited
      BY <2>1, <3>2 DEF RotationInv
    <3>3. CASE f # Visited /\ liveRun.rotated /\ g = Visited /\ f \in enabled /\ state[f] < lives
      <4>1. overtaken'[f][g] = overtaken[f][g] + 1 /\ state'[f] < state'[g]
        BY <2>1, <2>2, <3>3
      <4>2. overtaken[f][g] <= breaks
        <5>1. g = order[1] /\ 1 \in DOMAIN order
          BY <1>3, <3>3
        <5>2. CASE \A i \in DOMAIN order : order[i] # f
          BY <1>3, <3>3, <5>1, <5>2
        <5>3. CASE ~\A i \in DOMAIN order : order[i] # f
          <6>1. PICK i \in DOMAIN order : order[i] = f
            BY <5>3
          <6>2. 1 < i
            BY <1>3, <3>3, <6>1
          <6>3. state[g] <= state[f]
            BY <1>3, <3>3, <5>1, <6>1, <6>2
          <6> QED
            BY <2>2, <2>3, <3>1, <6>3 DEF RotationInv
        <5> QED
          BY <5>2, <5>3
      <4> QED
        BY <2>3, <4>1, <4>2 DEF RotationInv
    <3>4. CASE f # Visited /\ ~(liveRun.rotated /\ g = Visited /\ f \in enabled /\ state[f] < lives)
      <4>1. overtaken'[f][g] = overtaken[f][g] /\ state'[f] = state[f]
        BY <2>1, <2>2, <3>4
      <4>2. state[f] < state[g] => state'[f] < state'[g]
        BY <2>2, <4>1
      <4> QED
        BY <3>1, <4>1, <4>2 DEF RotationInv
    <3> QED
      BY <3>2, <3>3, <3>4
  <2>6. ASSUME liveRun.rotated
        PROVE  OrderKept'
    <3> DEFINE rest == {i \in DOMAIN order : i >= 2}
    <3>1. \A i \in rest : i > 1 /\ order[i] # Visited /\ order[i] \in Names
      BY <1>3, <2>6
    <3>2. \A i, j \in rest : i < j => state'[order[i]] <= state'[order[j]]
      BY <1>3, <2>2, <2>6, <3>1
    <3>3. ASSUME NEW f \in enabled, NEW j \in rest, \A i \in rest : order[i] # f, state'[f] < lives
          PROVE  overtaken'[f][order[j]] <= breaks
      <4>1. f \in Names /\ f # Visited
        BY <2>2, <3>3 DEF RotationInv
      <4>2. \A i \in DOMAIN order : order[i] # f
        BY <1>3, <2>6, <3>3, <4>1
      <4>3. overtaken'[f][order[j]] = overtaken[f][order[j]] /\ state'[f] = state[f]
        BY <2>1, <2>2, <3>1, <4>1
      <4> QED
        BY <1>3, <2>6, <3>3, <4>2, <4>3
    <3>4. liveRun'.order = order /\ UNCHANGED <<enabled, lives, breaks>>
      BY <1>1, <1>2, <2>1
    <3>5. \A i \in DOMAIN order : From' <= i => i \in rest
      BY <1>2
    <3>6. \A i \in rest : i \in DOMAIN order /\ From' <= i
      BY <1>2
    <3> HIDE DEF rest, order
    <3>7. \A i, j \in DOMAIN order : From' <= i /\ i < j => j \in rest
      BY <1>2, <1>3, <2>6 DEF rest
    <3> QED
      BY <1>3, <2>6, <3>2, <3>3, <3>4, <3>5, <3>6, <3>7 DEF OrderKept
  <2>7. OrderKept'
    BY <1>2, <2>6 DEF OrderKept
  <2>8. liveRun' # NoLive => liveRun'.enabled = enabled'
    BY <1>1, <1>2
  <2> QED
    BY <1>1, <1>2, <2>1, <2>2, <2>4, <2>5, <2>7, <2>8 DEF RotationInv
<1> QED
  BY <1>4, <1>5

LEMMA RotationStep ==
    ASSUME RotationInv, RotationNext
    PROVE  RotationInv'
<1>0. breaks \in Nat /\ lives \in Nat /\ DOMAIN liveRun = Fields /\ DOMAIN liveRun.visit = VisitFields
  BY DEF RotationInv
<1>1. ASSUME NEW only \in SUBSET Names, NEW readable \in BOOLEAN, StartLive(only, readable)
      PROVE  RotationInv'
  <2>1. /\ liveRun = NoLive /\ lives' = lives + 1 /\ UNCHANGED <<enabled, state, overtaken>>
        /\ breaks' \in Nat /\ breaks <= breaks'
    BY <1>0, <1>1 DEF StartLive, NoneLive, Break
  <2>2. PICK order \in IF readable THEN SourceOrder(Selected(only)) ELSE {Selected(only)} :
          liveRun' = [NoLive EXCEPT !.order = order, !.enabled = enabled,
                                    !.rotated = readable /\ only = {}]
    BY <1>1 DEF StartLive
  <2>3. /\ DOMAIN liveRun' = Fields /\ liveRun'.visit = NoVisit /\ DOMAIN NoVisit = VisitFields
        /\ liveRun'.order = order /\ liveRun'.enabled = enabled
        /\ liveRun'.rotated = (readable /\ only = {})
    BY <2>2 DEF NoLive, NoVisit, Fields, VisitFields
  <2>4. From' = 1
    BY <2>3 DEF From, NoVisit
  <2>5. \A f, g \in Names : overtaken[f][g] <= 1 + breaks'
    BY <2>1 DEF RotationInv
  <2>6. ASSUME readable /\ only = {}
        PROVE  OrderKept'
    <3> DEFINE place(f) == CHOOSE i \in DOMAIN Feeds : Feeds[i] = f
    <3>1. /\ order \in [DOMAIN Feeds -> Names]
          /\ \A f \in Names : \E i \in DOMAIN Feeds : order[i] = f
          /\ \A i, j \in DOMAIN Feeds : i < j =>
                 \/ state[order[i]] < state[order[j]]
                 \/ state[order[i]] = state[order[j]] /\ place(order[i]) < place(order[j])
      BY <2>2, <2>6 DEF SourceOrder, Selected, Names
    <3>2. DOMAIN Feeds = 1..Len(Feeds) /\ Len(Feeds) \in Nat
      BY RotationAssumption, LenProperties
    <3>3. order \in Seq(Names) /\ DOMAIN order = DOMAIN Feeds
      BY <3>1, <3>2, IsASeq
    <3>4. \A f \in Names : place(f) \in Nat /\ state[f] \in Nat
      BY <3>2 DEF Names, ToSet, RotationInv
    <3> HIDE DEF place
    <3>5. \A i, j \in DOMAIN order : i < j => order[i] # order[j] /\ state[order[i]] <= state[order[j]]
      <4> SUFFICES ASSUME NEW i \in DOMAIN order, NEW j \in DOMAIN order, i < j
                   PROVE  order[i] # order[j] /\ state[order[i]] <= state[order[j]]
        OBVIOUS
      <4>1. order[i] \in Names /\ order[j] \in Names
        BY <3>1, <3>3
      <4> QED
        BY <3>1, <3>3, <3>4, <4>1
    <3>6. order # <<>> /\ \A f \in enabled : \E i \in DOMAIN order : order[i] = f
      <4>1. \A f \in enabled : \E i \in DOMAIN order : order[i] = f
        BY <3>1, <3>3 DEF RotationInv
      <4>2. DOMAIN order # {}
        BY <4>1 DEF RotationInv
      <4> QED
        BY <3>3, <4>1, <4>2
    <3>7. \A i \in DOMAIN order : From' <= i
      BY <2>4, <3>2, <3>3
    <3> QED
      BY <2>1, <2>3, <3>3, <3>5, <3>6, <3>7 DEF OrderKept
  <2>7. OrderKept'
    BY <2>3, <2>6 DEF OrderKept
  <2>8. \A f \in Names : state[f] <= lives'
    BY <2>1 DEF RotationInv
  <2> QED
    BY <1>0, <2>1, <2>3, <2>5, <2>7, <2>8 DEF RotationInv
<1>2. ASSUME NEW f \in Names, Toggle(f)
      PROVE  RotationInv'
  <2>1. /\ liveRun = NoLive /\ UNCHANGED <<state, liveRun, lives, breaks>> /\ liveRun.rotated = FALSE
        /\ enabled' \subseteq Names /\ enabled' # {}
        /\ overtaken' = [overtaken EXCEPT ![f] = [g \in Names |-> 0]]
    BY <1>2 DEF Toggle, NoneLive, SymDiff, RotationInv, NoLive
  <2>2. /\ overtaken' \in [Names -> [Names -> Nat]]
        /\ \A h, g \in Names : overtaken'[h][g] = 0 \/ overtaken'[h][g] = overtaken[h][g]
    BY <2>1 DEF RotationInv
  <2>3. OrderKept'
    BY <2>1 DEF OrderKept
  <2>4. \A h, g \in Names : overtaken'[h][g] <= 1 + breaks
    <3>1. \A h, g \in Names : overtaken[h][g] <= 1 + breaks
      BY DEF RotationInv
    <3> QED
      BY <1>0, <2>2, <3>1
  <2>5. \A h, g \in Names : overtaken'[h][g] > 0 => state[h] < state[g]
    BY <2>2 DEF RotationInv
  <2> QED
    BY <2>1, <2>2, <2>3, <2>4, <2>5 DEF RotationInv
<1>3. CASE Unreached \/ LiveExit
  BY <1>0, <1>3, RotationRunEnds DEF Unreached, LiveExit, Moved, Break
<1>4. CASE SkipDisabled
  <2>1. liveRun # NoLive /\ Visited \notin enabled
    BY <1>4 DEF SkipDisabled, NoneLive, RotationInv
  <2> QED
    BY <1>0, <1>4, <2>1, SourcePassed DEF SkipDisabled, Moved
<1>5. CASE SessionFailed
  BY <1>0, <1>5, SourcePassed DEF SessionFailed, NoneLive, Break
<1>6. ASSUME NEW done \in BOOLEAN, RecordRunOutcome(done)
      PROVE  RotationInv'
  BY <1>0, <1>6, SourcePassed DEF RecordRunOutcome, NoneLive, Break
<1>7. ASSUME \/ FeedFailed \/ FeedRead \/ ReadAdvert \/ ThreadFailed
             \/ \E n \in 1..Depth : OpenFeed(n)
             \/ \E kept \in 0..1 : ReadThread(kept)
      PROVE  RotationInv'
  <2>1. /\ liveRun # NoLive /\ UNCHANGED <<enabled, state, overtaken, lives, breaks>>
        /\ liveRun.visit.step # "record"
    BY <1>7 DEF FeedFailed, FeedRead, ReadAdvert, ThreadFailed, OpenFeed, ReadThread, Moved, NoneLive
  <2>2. /\ DOMAIN NoVisit = VisitFields /\ VisitFields = {"step", "left", "err"}
        /\ Fields = {"order", "enabled", "rotated", "posts", "comments", "visit"}
    BY DEF NoVisit, VisitFields, Fields
  <2>3. /\ DOMAIN liveRun' = Fields /\ DOMAIN liveRun'.visit = VisitFields
        /\ liveRun'.visit.step # "record" /\ liveRun'.order = liveRun.order
        /\ liveRun'.enabled = liveRun.enabled /\ liveRun'.rotated = liveRun.rotated
    <3>1. CASE FeedFailed
      BY <1>0, <2>2, <3>1 DEF FeedFailed, Moved
    <3>4. ASSUME NEW n \in 1..Depth, OpenFeed(n)
          PROVE  /\ DOMAIN liveRun' = Fields /\ DOMAIN liveRun'.visit = VisitFields
                 /\ liveRun'.visit.step # "record" /\ liveRun'.order = liveRun.order
                 /\ liveRun'.enabled = liveRun.enabled /\ liveRun'.rotated = liveRun.rotated
      <4> DEFINE v == [NoVisit EXCEPT !.step = "reading", !.left = n]
      <4>1. liveRun' = [liveRun EXCEPT !.visit = v]
        BY <3>4 DEF OpenFeed, Moved
      <4>2. DOMAIN v = VisitFields /\ v.step = "reading"
        BY <2>2
      <4> HIDE DEF v
      <4> QED
        BY <1>0, <2>2, <4>1, <4>2
    <3>2. CASE FeedRead \/ ThreadFailed
      BY <1>0, <2>1, <2>2, <3>2 DEF FeedRead, ThreadFailed, Moved
    <3>3. CASE ReadAdvert
      BY <1>0, <2>1, <2>2, <3>3 DEF ReadAdvert, Moved
    <3>5. ASSUME NEW kept \in 0..1, ReadThread(kept)
          PROVE  /\ DOMAIN liveRun' = Fields /\ DOMAIN liveRun'.visit = VisitFields
                 /\ liveRun'.visit.step # "record" /\ liveRun'.order = liveRun.order
                 /\ liveRun'.enabled = liveRun.enabled /\ liveRun'.rotated = liveRun.rotated
      BY <1>0, <2>1, <2>2, <3>5 DEF ReadThread, Moved
    <3> QED
      BY <1>7, <3>1, <3>2, <3>3, <3>4, <3>5
  <2> QED
    BY <2>1, <2>3, VisitGoesOn
<1> QED
  BY <1>1, <1>2, <1>3, <1>4, <1>5, <1>6, <1>7, SourceTried DEF RotationNext

(* The rotation starves no source, for any sources, ceilings and depth, any  *)
(* edit of sources.yaml between runs and any runs asked for by name; what    *)
(* dies or cannot be written excuses one visit each (main.go, SourceOrder).  *)
THEOREM NoSourceIsStarved == RotationSpec => []NoneOvertaken
<1>1. RotationInit => RotationInv
  BY DEF RotationInit, RotationInv, OrderKept, NoLive, NoVisit, Fields, VisitFields
<1>2. RotationInv /\ [RotationNext]_rotationVars => RotationInv'
  <2>1. ASSUME RotationInv, UNCHANGED rotationVars
        PROVE  RotationInv'
    BY <2>1 DEF rotationVars, RotationInv, OrderKept, From
  <2> QED
    BY <2>1, RotationStep
<1>3. RotationInv => NoneOvertaken
  BY DEF RotationInv, NoneOvertaken
<1> QED
  BY <1>1, <1>2, <1>3, PTL DEF RotationSpec

-----------------------------------------------------------------------------
(* The adverts of portals                                                  *)

AdvertVisits == [step : {"next", "known", "queue"}, ad : SUBSET Advert]
(* An advert on its way to the queue has no batch there. *)
ListingsInv ==
    /\ queuedAds \in [Advert -> {0, 1}]
    /\ visiting \in [Visitors -> AdvertVisits]
    /\ \A v \in Visitors : visiting[v].step = "queue" => \A a \in visiting[v].ad : queuedAds[a] = 0

LEMMA ListingsStep ==
    ASSUME ListingsInv, ListingsNext, \A v, w \in Visitors : v = w
    PROVE  ListingsInv'
<1>1. ASSUME \/ \E a \in Advert, p \in Prices : Reprice(a, p)
             \/ \E a \in Advert : SweepPayload(a) \/ SyncVector(a) \/ CheckDuplicate(a)
             \/ Printed
      PROVE  ListingsInv'
  <2>1. UNCHANGED <<queuedAds, visiting>>
    BY <1>1 DEF Reprice, SweepPayload, SyncVector, CheckDuplicate, Printed
  <2> QED
    BY <2>1 DEF ListingsInv
<1>2. ASSUME NEW v \in Visitors, NEW a \in Advert, RecordObservation(v, a)
      PROVE  ListingsInv'
  BY <1>2 DEF RecordObservation, ListingsInv, AdvertVisits
<1>3. ASSUME NEW v \in Visitors, AlreadyIngestedListing(v)
      PROVE  ListingsInv'
  <2>1. visiting[v] \in AdvertVisits /\ queuedAds' = queuedAds
    BY <1>3 DEF AlreadyIngestedListing, ListingsInv
  <2>2. CASE \E a \in visiting[v].ad : queuedAds[a] > 0
    <3>1. visiting' = [visiting EXCEPT ![v] = NoAdvert]
      BY <1>3, <2>2 DEF AlreadyIngestedListing, ListingsInv
    <3> QED
      BY <2>1, <3>1 DEF ListingsInv, AdvertVisits, NoAdvert
  <2>3. CASE ~\E a \in visiting[v].ad : queuedAds[a] > 0
    <3> DEFINE w == [visiting[v] EXCEPT !.step = "queue"]
    <3>1. visiting' = [visiting EXCEPT ![v] = w]
      BY <1>3, <2>3 DEF AlreadyIngestedListing, ListingsInv
    <3>2. w \in AdvertVisits /\ w.ad = visiting[v].ad
      BY <2>1 DEF AdvertVisits
    <3>3. \A a \in w.ad : queuedAds[a] = 0
      BY <2>1, <2>3, <3>2 DEF ListingsInv, AdvertVisits
    <3> HIDE DEF w
    <3> QED
      BY <2>1, <3>1, <3>2, <3>3 DEF ListingsInv
  <2> QED
    BY <2>2, <2>3
<1>4. ASSUME NEW v \in Visitors, EnqueueListing(v)
      PROVE  ListingsInv'
  <2>1. /\ visiting[v].step = "queue" /\ visiting[v].ad \subseteq Advert
        /\ visiting' = [visiting EXCEPT ![v] = NoAdvert]
        /\ queuedAds' = [a \in Advert |-> IF a \in visiting[v].ad THEN queuedAds[a] + 1
                                          ELSE queuedAds[a]]
    BY <1>4 DEF EnqueueListing, ListingsInv, AdvertVisits
  <2>2. \A a \in visiting[v].ad : queuedAds[a] = 0
    BY <2>1 DEF ListingsInv
  <2>3. queuedAds' \in [Advert -> {0, 1}]
    BY <2>1, <2>2 DEF ListingsInv
  <2>4. \A w \in Visitors : visiting'[w] = NoAdvert
    BY <2>1 DEF ListingsInv
  <2> QED
    BY <2>1, <2>3, <2>4 DEF ListingsInv, AdvertVisits, NoAdvert
<1>5. ASSUME NEW v \in Visitors, AdvertDropped(v)
      PROVE  ListingsInv'
  BY <1>5 DEF AdvertDropped, ListingsInv, AdvertVisits, NoAdvert
<1> QED
  BY <1>1, <1>2, <1>3, <1>4, <1>5 DEF ListingsNext

(* One worker queues an advert once, for any adverts and prices, however     *)
(* often it is seen, repriced, swept or dropped half way (main.go, the look  *)
(* into the queue and the insert are two statements: two workers may not).  *)
THEOREM OneVisitorQueuesOnce ==
    (\A v, w \in Visitors : v = w) => (ListingsSpec => []AdvertQueuedOnce)
<1> SUFFICES ASSUME \A v, w \in Visitors : v = w PROVE ListingsSpec => []AdvertQueuedOnce
  OBVIOUS
<1>1. ListingsInit => ListingsInv
  BY DEF ListingsInit, ListingsInv, NoAdvert, AdvertVisits
<1>2. ListingsInv /\ [ListingsNext]_listingVars => ListingsInv'
  <2>1. ASSUME ListingsInv, UNCHANGED listingVars
        PROVE  ListingsInv'
    BY <2>1 DEF listingVars, ListingsInv
  <2> QED
    BY <2>1, ListingsStep
<1>3. ListingsInv => AdvertQueuedOnce
  BY DEF ListingsInv, AdvertQueuedOnce
<1> QED
  BY <1>1, <1>2, <1>3, PTL DEF ListingsSpec

-----------------------------------------------------------------------------
(* Turns of the loop                                                       *)

TurnSteps == {"rest", "fetch", "run", "queue", "settle", "export"}
Works == [verb : {"none", "cycle", "ingest", "press"}, step : TurnSteps,
          fetches : BOOLEAN, live : BOOLEAN, brought : Nat]
(* A turn whose fetch failed on rows goes nowhere but to their export. *)
CycleInv ==
    /\ atWork \in [Turns -> Works]
    /\ \A t \in seedings : ~(t.fetches /\ t.live)
    /\ unsheeted \subseteq Turns /\ \A p \in unsheeted : atWork[p].step = "export"

(* A turn moves on: those of the others stay. *)
LEMMA TurnMoves ==
    ASSUME CycleInv, NEW p \in Turns, NEW w \in Works, atWork' = [atWork EXCEPT ![p] = w],
           unsheeted' \subseteq unsheeted \cup {p}, p \in unsheeted' => w.step = "export",
           seedings' = seedings
    PROVE  CycleInv'
BY DEF CycleInv

LEMMA CycleStep ==
    ASSUME CycleInv, CycleNext
    PROVE  CycleInv'
<1>1. CASE ReapRun
  BY <1>1 DEF ReapRun, CycleInv
<1>2. ASSUME NEW p \in Turns, NEW live \in BOOLEAN,
             \/ StartTick(p, live)
             \/ \E measured \in BOOLEAN : StartIngest(p, live, measured)
             \/ \E fetches \in BOOLEAN : Press(p, fetches, live)
      PROVE  CycleInv'
  <2>1. PICK w \in Works : Takes(p, w) /\ UNCHANGED <<seedings, unsheeted>>
    BY <1>2 DEF StartTick, StartIngest, Press, NoWork, Works, TurnSteps, Takes
  <2>2. p \notin unsheeted
    BY <2>1 DEF Takes, In, CycleInv
  <2> QED
    BY <2>1, <2>2, TurnMoves DEF Takes
<1>3. ASSUME NEW p \in Turns, WorkerBrings(p)
      PROVE  CycleInv'
  <2>1. atWork[p] \in Works /\ atWork[p].step = "fetch" /\ p \notin unsheeted
    BY <1>3 DEF WorkerBrings, In, CycleInv
  <2> DEFINE w == [atWork[p] EXCEPT !.brought = @ + 1]
  <2>2. w \in Works /\ atWork' = [atWork EXCEPT ![p] = w] /\ UNCHANGED <<seedings, unsheeted>>
    BY <1>3, <2>1 DEF WorkerBrings, Works, CycleInv
  <2> HIDE DEF w
  <2> QED
    BY <2>1, <2>2, TurnMoves
<1>4. ASSUME NEW p \in Turns, NEW s \in TurnSteps, GoesTo(p, s),
             unsheeted' \subseteq unsheeted \cup {p}, p \in unsheeted' => s = "export", seedings' = seedings
      PROVE  CycleInv'
  <2> DEFINE w == [atWork[p] EXCEPT !.step = s]
  <2>1. w \in Works /\ w.step = s /\ atWork' = [atWork EXCEPT ![p] = w]
    BY <1>4 DEF GoesTo, Works, TurnSteps, CycleInv
  <2> HIDE DEF w
  <2> QED
    BY <1>4, <2>1, TurnMoves
<1>5. ASSUME NEW p \in Turns, Rests(p), unsheeted' \subseteq unsheeted, p \notin unsheeted',
             seedings' = seedings
      PROVE  CycleInv'
  <2>1. NoWork \in Works
    BY DEF NoWork, Works, TurnSteps
  <2> QED
    BY <1>5, <2>1, TurnMoves DEF Rests
<1>6. ASSUME NEW p \in Turns, WorkerEnds(p)
      PROVE  CycleInv'
  <2>1. p \notin unsheeted
    BY <1>6 DEF WorkerEnds, In, CycleInv
  <2> QED
    BY <1>4, <1>6, <2>1 DEF WorkerEnds, TurnSteps
<1>7. ASSUME NEW p \in Turns, WorkerFails(p)
      PROVE  CycleInv'
  <2>1. p \notin unsheeted
    BY <1>7 DEF WorkerFails, In, CycleInv
  <2>2. CASE atWork[p].verb = "press"
    BY <1>5, <1>7, <2>1, <2>2 DEF WorkerFails, FailedFetch, TurnSteps
  <2>3. CASE atWork[p].verb # "press"
    BY <1>4, <1>7, <2>1, <2>3 DEF WorkerFails, FailedFetch, TurnSteps
  <2> QED
    BY <2>2, <2>3
<1>8. ASSUME NEW p \in Turns, ExportCsvs(p) \/ TurnKilled(p)
      PROVE  CycleInv'
  BY <1>5, <1>8 DEF ExportCsvs, TurnKilled
<1>9. ASSUME NEW p \in Turns, StartPipeline(p)
      PROVE  CycleInv'
  <2>1. p \notin unsheeted
    BY <1>9 DEF StartPipeline, In, CycleInv
  <2> QED
    BY <1>4, <1>5, <1>9, <2>1 DEF StartPipeline, TurnSteps
<1>10. ASSUME NEW p \in Turns, ReadQueue(p)
       PROVE  CycleInv'
  <2>1. p \notin unsheeted /\ atWork[p] \in Works
    BY <1>10 DEF ReadQueue, In, CycleInv
  <2> DEFINE w == [atWork[p] EXCEPT !.step = "settle"]
  <2>2. w \in Works /\ atWork' = [atWork EXCEPT ![p] = w] /\ unsheeted' = unsheeted
    BY <1>10, <2>1 DEF ReadQueue, GoesTo, Works, TurnSteps, CycleInv
  <2> HIDE DEF w
  <2>3. \A t \in seedings' : ~(t.fetches /\ t.live)
    BY <1>10 DEF ReadQueue, MaySeedFixtures, CycleInv
  <2> QED
    BY <2>1, <2>2, <2>3 DEF CycleInv
<1>11. ASSUME NEW p \in Turns, NEW remaining \in 0..waiting, SettleQueue(p, remaining)
       PROVE  CycleInv'
  <2>1. p \notin unsheeted
    BY <1>11 DEF SettleQueue, In, CycleInv
  <2> QED
    BY <1>4, <1>11, <2>1 DEF SettleQueue, TurnSteps
<1> QED
  BY <1>1, <1>2, <1>3, <1>6, <1>7, <1>8, <1>9, <1>10, <1>11 DEF CycleNext

(* A turn leaves behind what it did, for any processes whose turns overlap,  *)
(* any queue, any kill and any fetch that fails half way (cli.py, cmd_cycle  *)
(* and cmd_ingest).                                                          *)
THEOREM TurnsAreHonest == CycleSpec => []TickIsHonest
<1>1. CycleInit => CycleInv
  BY DEF CycleInit, CycleInv, NoWork, Works, TurnSteps
<1>2. CycleInv /\ [CycleNext]_cycleVars => CycleInv'
  <2>1. ASSUME CycleInv, UNCHANGED cycleVars
        PROVE  CycleInv'
    BY <2>1 DEF cycleVars, CycleInv
  <2> QED
    BY <2>1, CycleStep
<1>3. CycleInv => TickIsHonest
  BY DEF CycleInv, TickIsHonest, In
<1> QED
  BY <1>1, <1>2, <1>3, PTL DEF CycleSpec

-----------------------------------------------------------------------------
(* The specs of sites                                                      *)

SpecStatus == {"none", "proposed", "validated", "approved", "active", "drifted"}
Verb == {"none", "validate", "sample", "approve", "activate", "run", "deposit", "drift"}
Command == [verb : Verb, spec : SpecIds \cup {"none"}, kind : ActorKinds \cup {"none", "agent"},
            pages : Nat, samples : Nat]
SpecTypes ==
    /\ status \in [SpecIds -> SpecStatus]
    /\ gates = [s \in SpecIds |-> gates[s]]
    /\ command \in [Commanders -> Command]
    /\ deposited \in [SpecIds -> Nat]

(* What a spec at a status, or that was at it, has in its gates. *)
Backed(passed, at) ==
    /\ at \in {"validated", "approved", "active"} =>
          \E n \in GatePages..MaxSamples : <<"validated", n>> \in passed
    /\ at \in {"approved", "active"} => <<"approved", "human">> \in passed
    /\ at = "active" => <<"active", "human">> \in passed

(* The status a command took its spec from, which may have changed since. *)
TakenFrom(verb) ==
    IF verb = "approve" THEN "validated"
    ELSE IF verb = "activate" THEN "approved"
    ELSE IF verb \in {"run", "deposit"} THEN "active" ELSE "none"

SpecBacked(s) ==
    /\ Backed(gates[s], status[s])
    /\ deposited[s] > 0 => Backed(gates[s], "active")
CommandBacked(p) ==
    command[p].verb # "none" =>
        /\ command[p].spec \in SpecIds
        /\ Backed(gates[command[p].spec], TakenFrom(command[p].verb))
        /\ command[p].verb \in {"approve", "activate"} => command[p].kind = "human"
        /\ command[p].verb = "validate" => command[p].samples = 0
        /\ command[p].verb = "sample" => command[p].pages + command[p].samples <= MaxSamples

SpecInv ==
    /\ SpecTypes
    /\ \A s \in SpecIds : SpecBacked(s)
    /\ \A p \in Commanders : CommandBacked(p)

----------------------------------------------------------------------------
(* A gate that was passed stays passed. *)
LEMMA BackedKept ==
    ASSUME NEW G, NEW H, G \subseteq H, NEW at, Backed(G, at)
    PROVE  Backed(H, at)
  BY DEF Backed

(* No status, or one before the first gate, asks for nothing. *)
LEMMA NothingToBack ==
    ASSUME NEW G
    PROVE  Backed(G, "none") /\ Backed(G, "proposed") /\ Backed(G, "drifted")
  BY DEF Backed

(* A step that changes no status, gate or deposit, and of one process's      *)
(* command, which it ends: what it held was backed, and nothing is asked of  *)
(* the one that has ended.                                                   *)
LEMMA EndedKeeps ==
    ASSUME SpecInv, NEW p \in Commanders, CommandEnds(p),
           UNCHANGED <<status, gates, deposited>>
    PROVE  SpecInv'
<1>1. NoCommand \in Command
  BY DEF NoCommand, Command, Verb
<1>2. SpecTypes'
  BY <1>1 DEF SpecInv, SpecTypes, CommandEnds
<1>3. \A s \in SpecIds : SpecBacked(s)'
  BY DEF SpecInv, SpecBacked
<1>4. ASSUME NEW q \in Commanders
      PROVE  CommandBacked(q)'
  <2>1. CASE q = p
    BY <2>1 DEF SpecInv, SpecTypes, CommandEnds, CommandBacked, NoCommand
  <2>2. CASE q # p
    BY <2>2 DEF SpecInv, SpecTypes, CommandEnds, CommandBacked
  <2> QED
    BY <2>1, <2>2
<1> QED
  BY <1>2, <1>3, <1>4 DEF SpecInv

(* A command that goes on to a command that is backed. *)
LEMMA MovedKeeps ==
    ASSUME SpecInv, NEW p \in Commanders, NEW c \in Command,
           command' = [command EXCEPT ![p] = c],
           c.spec \in SpecIds, Backed(gates[c.spec], TakenFrom(c.verb)),
           c.verb \in {"approve", "activate"} => c.kind = "human",
           c.verb = "validate" => c.samples = 0,
           c.verb = "sample" => c.pages + c.samples <= MaxSamples,
           UNCHANGED <<status, gates, deposited>>
    PROVE  SpecInv'
<1>1. SpecTypes'
  BY DEF SpecInv, SpecTypes
<1>2. \A s \in SpecIds : SpecBacked(s)'
  BY DEF SpecInv, SpecBacked
<1>3. ASSUME NEW q \in Commanders
      PROVE  CommandBacked(q)'
  <2>1. CASE q = p
    BY <2>1 DEF SpecInv, SpecTypes, CommandBacked
  <2>2. CASE q # p
    BY <2>2 DEF SpecInv, SpecTypes, CommandBacked
  <2> QED
    BY <2>1, <2>2
<1> QED
  BY <1>1, <1>2, <1>3 DEF SpecInv

(* A command that writes the status it may write, and ends. *)
LEMMA WrittenKeeps ==
    ASSUME SpecInv, NEW p \in Commanders, command[p].verb # "none", CommandEnds(p),
           NEW new \in SpecStatus, NEW by, SetStatus(command[p].spec, new, by),
           Backed(gates[command[p].spec] \cup {<<new, by>>}, new),
           UNCHANGED deposited
    PROVE  SpecInv'
<1> DEFINE t == command[p].spec
<1>1. t \in SpecIds
  BY DEF SpecInv, CommandBacked
<1>2. NoCommand \in Command
  BY DEF NoCommand, Command, Verb
<1>3. SpecTypes'
  BY <1>1, <1>2 DEF SpecInv, SpecTypes, CommandEnds, SetStatus
<1>4. \A s \in SpecIds : gates[s] \subseteq gates'[s]
  BY <1>1 DEF SpecInv, SpecTypes, SetStatus
<1>5. ASSUME NEW s \in SpecIds
      PROVE  SpecBacked(s)'
  <2>1. Backed(gates'[s], status'[s])
    <3>1. CASE s = t
      <4>1. gates'[s] = gates[t] \cup {<<new, by>>} /\ status'[s] = new
        BY <3>1, <1>1 DEF SpecInv, SpecTypes, SetStatus
      <4> QED
        BY <4>1
    <3>2. CASE s # t
      <4>1. gates'[s] = gates[s] /\ status'[s] = status[s]
        BY <3>2, <1>1 DEF SpecInv, SpecTypes, SetStatus
      <4> QED
        BY <4>1 DEF SpecInv, SpecBacked
    <3> QED
      BY <3>1, <3>2
  <2>2. deposited'[s] > 0 => Backed(gates'[s], "active")
    BY <1>4, BackedKept DEF SpecInv, SpecBacked
  <2> QED
    BY <2>1, <2>2 DEF SpecBacked
<1>6. ASSUME NEW q \in Commanders
      PROVE  CommandBacked(q)'
  <2>1. CASE q = p
    BY <2>1 DEF SpecInv, SpecTypes, CommandEnds, CommandBacked, NoCommand
  <2>2. CASE q # p
    <3>1. command'[q] = command[q]
      BY <2>2 DEF SpecInv, SpecTypes, CommandEnds
    <3>2. command[q].verb # "none" =>
             Backed(gates'[command[q].spec], TakenFrom(command[q].verb))
      BY <1>4, BackedKept DEF SpecInv, CommandBacked
    <3> QED
      BY <3>1, <3>2 DEF SpecInv, CommandBacked
  <2> QED
    BY <2>1, <2>2
<1> QED
  BY <1>3, <1>5, <1>6 DEF SpecInv

----------------------------------------------------------------------------
LEMMA SpecInvInit == SpecInit => SpecInv
<1> SUFFICES ASSUME SpecInit
             PROVE  SpecInv
  OBVIOUS
<1>1. SpecTypes
  BY DEF SpecInit, SpecTypes, SpecStatus, NoCommand, Command, Verb
<1>2. \A s \in SpecIds : SpecBacked(s)
  BY NothingToBack DEF SpecInit, SpecBacked
<1>3. \A p \in Commanders : CommandBacked(p)
  BY DEF SpecInit, NoCommand, CommandBacked
<1> QED
  BY <1>1, <1>2, <1>3 DEF SpecInv

LEMMA SpecInvStep ==
    ASSUME SpecInv, [SpecNext]_specVars
    PROVE  SpecInv'
<1> USE SpecAssumption
<1>1. ASSUME NEW s \in SpecIds, ProposeSpec(s)
      PROVE  SpecInv'
  <2>1. /\ SpecTypes'
        /\ \A t \in SpecIds : gates[t] \subseteq gates'[t]
        /\ status'[s] = "proposed" /\ \A t \in SpecIds \ {s} : status'[t] = status[t]
        /\ deposited' = deposited /\ command' = command
    BY <1>1 DEF SpecInv, SpecTypes, ProposeSpec, SetStatus, SpecStatus
  <2>2. \A t \in SpecIds : SpecBacked(t)'
    BY <2>1, BackedKept, NothingToBack DEF SpecInv, SpecBacked
  <2>3. \A p \in Commanders : CommandBacked(p)'
    BY <2>1, BackedKept DEF SpecInv, CommandBacked
  <2> QED
    BY <2>1, <2>2, <2>3 DEF SpecInv
<1>2. ASSUME NEW p \in Commanders, NEW s \in SpecIds, NEW who \in ActorKinds,
             NEW verb \in {"validate", "approve", "activate", "drift", "run"},
             StartCommand(p, verb, s, who)
      PROVE  SpecInv'
  <2> DEFINE c == [NoCommand EXCEPT !.verb = verb, !.spec = s, !.kind = who]
  <2>1. c \in Command /\ c.verb = verb /\ c.spec = s /\ c.kind = who /\ c.samples = 0
    BY DEF NoCommand, Command, Verb
  <2>2. Backed(gates[s], status[s]) /\ status[s] \in TakesFrom(verb)
    BY <1>2 DEF SpecInv, SpecBacked, StartCommand
  <2>3. TakenFrom(verb) # "none" => status[s] = TakenFrom(verb)
    BY <2>2 DEF TakesFrom, TakenFrom
  <2>4. Backed(gates[s], TakenFrom(verb))
    BY <2>2, <2>3, NothingToBack
  <2> QED
    BY <1>2, <2>1, <2>4, MovedKeeps DEF StartCommand, MayAct
<1>3. ASSUME NEW p \in Commanders, PageRefused(p) \/ RunEnds(p) \/ CommandKilled(p)
      PROVE  SpecInv'
  BY <1>3, EndedKeeps DEF PageRefused, RunEnds, CommandKilled
<1>4. ASSUME NEW p \in Commanders, NEW n \in 0..MaxSamples, ReadListing(p, n)
      PROVE  SpecInv'
  <2> DEFINE c == [command[p] EXCEPT !.verb = "sample", !.pages = n]
  <2>1. CASE n = 0
    BY <1>4, <2>1, EndedKeeps DEF ReadListing
  <2>2. CASE n # 0
    <3>1. command[p] \in Command /\ command[p].verb = "validate"
      BY <1>4 DEF ReadListing, SpecInv, SpecTypes
    <3>2. command[p].spec \in SpecIds
      BY <3>1 DEF SpecInv, CommandBacked
    <3>3. command[p].samples = 0
      BY <3>1 DEF SpecInv, CommandBacked
    <3>4. /\ c \in Command /\ c.verb = "sample" /\ c.spec = command[p].spec
          /\ c.pages = n /\ c.samples = 0
      <4>1. n \in Nat
        OBVIOUS
      <4> QED
        BY <3>1, <3>3, <4>1 DEF Command, Verb
    <3>5. command' = [command EXCEPT ![p] = c]
      BY <1>4, <2>2 DEF ReadListing
    <3>6. Backed(gates[c.spec], TakenFrom(c.verb))
      BY <3>4, NothingToBack DEF TakenFrom
    <3>7. c.pages + c.samples <= MaxSamples
      BY <3>4
    <3> QED
      BY <1>4, <3>2, <3>4, <3>5, <3>6, <3>7, MovedKeeps DEF ReadListing
  <2> QED
    BY <2>1, <2>2
<1>5. ASSUME NEW p \in Commanders, SamplePage(p)
      PROVE  SpecInv'
  <2>1. /\ command[p] \in Command /\ command[p].verb = "sample"
        /\ command[p].pages \in Nat \ {0} /\ command[p].samples \in Nat
    BY <1>5 DEF SamplePage, SpecInv, SpecTypes, Command
  <2>2. /\ command[p].spec \in SpecIds
        /\ command[p].pages + command[p].samples <= MaxSamples
    BY <2>1 DEF SpecInv, CommandBacked
  <2>3. ASSUME NEW k \in {command[p].samples, command[p].samples + 1},
               command' = [command EXCEPT ![p].pages = @ - 1, ![p].samples = k]
        PROVE  SpecInv'
    <3> DEFINE c == [command[p] EXCEPT !.pages = @ - 1, !.samples = k]
    <3>1. /\ c \in Command /\ c.verb = "sample" /\ c.spec = command[p].spec
          /\ c.pages = command[p].pages - 1 /\ c.samples = k
      <4>1. k \in Nat /\ command[p].pages - 1 \in Nat
        BY <2>1
      <4>2. \A m \in Nat : [command[p] EXCEPT !.pages = m, !.samples = k] \in Command
        BY <2>1, <4>1 DEF Command
      <4> QED
        BY <2>1, <4>1, <4>2 DEF Command
    <3>2. command' = [command EXCEPT ![p] = c]
      BY <2>3
    <3>3. Backed(gates[c.spec], TakenFrom(c.verb))
      BY <3>1, NothingToBack DEF TakenFrom
    <3>4. c.pages + c.samples <= MaxSamples
      BY <3>1, <2>1, <2>2
    <3> QED
      BY <1>5, <2>2, <3>1, <3>2, <3>3, <3>4, MovedKeeps DEF SamplePage
  <2>4. CASE command' = [command EXCEPT ![p].pages = @ - 1, ![p].samples = @ + 1]
    BY <2>3, <2>4
  <2>5. CASE command' = [command EXCEPT ![p].pages = @ - 1]
    <3>1. [command[p] EXCEPT !.pages = @ - 1]
            = [command[p] EXCEPT !.pages = @ - 1, !.samples = command[p].samples]
      BY <2>1 DEF Command
    <3>2. command' = [command EXCEPT ![p].pages = @ - 1, ![p].samples = command[p].samples]
      BY <2>5, <3>1
    <3> QED
      BY <2>3, <3>2
  <2>6. CASE CommandEnds(p)
    BY <1>5, <2>6, EndedKeeps DEF SamplePage
  <2> QED
    BY <1>5, <2>4, <2>5, <2>6 DEF SamplePage
<1>6. ASSUME NEW p \in Commanders, Proved(p)
      PROVE  SpecInv'
  <2>1. CASE command[p].samples < GatePages
    BY <1>6, <2>1, EndedKeeps DEF Proved
  <2>2. CASE ~(command[p].samples < GatePages)
    <3> DEFINE G == gates[command[p].spec] \cup {<<"validated", command[p].samples>>}
    <3>1. command[p].verb = "sample" /\ command[p].pages = 0 /\ command[p].samples \in Nat
      BY <1>6 DEF Proved, SpecInv, SpecTypes, Command
    <3>2. command[p].samples \in GatePages..MaxSamples
      BY <3>1, <2>2 DEF SpecInv, CommandBacked
    <3>3. Backed(G, "validated")
      BY <3>2 DEF Backed
    <3>4. command[p].verb # "none" /\ "validated" \in SpecStatus
      BY <3>1 DEF SpecStatus
    <3> QED
      BY <1>6, <2>2, <3>3, <3>4, WrittenKeeps DEF Proved
  <2> QED
    BY <2>1, <2>2
<1>7. ASSUME NEW p \in Commanders, ApproveSpec(p)
      PROVE  SpecInv'
  <2>1. command[p].verb = "approve" /\ command[p].kind = "human"
    BY <1>7 DEF ApproveSpec, SpecInv, CommandBacked
  <2>2. Backed(gates[command[p].spec], "validated")
    BY <2>1 DEF SpecInv, CommandBacked, TakenFrom
  <2>3. Backed(gates[command[p].spec] \cup {<<"approved", command[p].kind>>}, "approved")
    BY <2>1, <2>2 DEF Backed
  <2>4. command[p].verb # "none" /\ "approved" \in SpecStatus
    BY <2>1 DEF SpecStatus
  <2> QED
    BY <1>7, <2>3, <2>4, WrittenKeeps DEF ApproveSpec
<1>8. ASSUME NEW p \in Commanders, ActivateSpec(p)
      PROVE  SpecInv'
  <2>1. command[p].verb = "activate" /\ command[p].kind = "human"
    BY <1>8 DEF ActivateSpec, SpecInv, CommandBacked
  <2>2. Backed(gates[command[p].spec], "approved")
    BY <2>1 DEF SpecInv, CommandBacked, TakenFrom
  <2>3. Backed(gates[command[p].spec] \cup {<<"active", command[p].kind>>}, "active")
    BY <2>1, <2>2 DEF Backed
  <2>4. command[p].verb # "none" /\ "active" \in SpecStatus
    BY <2>1 DEF SpecStatus
  <2> QED
    BY <1>8, <2>3, <2>4, WrittenKeeps DEF ActivateSpec
<1>9. ASSUME NEW p \in Commanders, MarkDrifted(p)
      PROVE  SpecInv'
  <2>1. command[p].verb # "none" /\ "drifted" \in SpecStatus
    BY <1>9 DEF MarkDrifted, SpecStatus
  <2> QED
    BY <1>9, <2>1, NothingToBack, WrittenKeeps DEF MarkDrifted
<1>10. ASSUME NEW p \in Commanders, NEW n \in 0..RunLimit, RunListing(p, n)
       PROVE  SpecInv'
  <2>1. command[p] \in Command /\ command[p].verb = "run" /\ n \in Nat
    BY <1>10 DEF RunListing, SpecInv, SpecTypes
  <2>2. command[p].spec \in SpecIds /\ Backed(gates[command[p].spec], "active")
    BY <2>1 DEF SpecInv, CommandBacked, TakenFrom
  <2>3. CASE n > 0
    <3> DEFINE c == [command[p] EXCEPT !.verb = "deposit", !.pages = n]
    <3>1. c \in Command /\ c.verb = "deposit" /\ c.spec = command[p].spec
      BY <2>1 DEF Command, Verb
    <3>2. command' = [command EXCEPT ![p] = c]
      BY <1>10, <2>3 DEF RunListing
    <3>3. Backed(gates[c.spec], TakenFrom(c.verb))
      BY <2>2, <3>1 DEF TakenFrom
    <3> QED
      BY <1>10, <2>2, <3>1, <3>2, <3>3, MovedKeeps DEF RunListing
  <2>4. CASE ~(n > 0) /\ status[command[p].spec] \in TakesFrom("drift")
    <3> DEFINE c == [command[p] EXCEPT !.verb = "drift", !.kind = "agent"]
    <3>1. c \in Command /\ c.verb = "drift" /\ c.spec = command[p].spec
      BY <2>1 DEF Command, Verb
    <3>2. command' = [command EXCEPT ![p] = c]
      BY <1>10, <2>4 DEF RunListing
    <3>3. Backed(gates[c.spec], TakenFrom(c.verb))
      BY <3>1, NothingToBack DEF TakenFrom
    <3> QED
      BY <1>10, <2>2, <3>1, <3>2, <3>3, MovedKeeps DEF RunListing
  <2>5. CASE ~(n > 0) /\ status[command[p].spec] \notin TakesFrom("drift")
    BY <1>10, <2>5, EndedKeeps DEF RunListing
  <2> QED
    BY <2>3, <2>4, <2>5
<1>11. ASSUME NEW p \in Commanders, RunThread(p)
       PROVE  SpecInv'
  <2> DEFINE t == command[p].spec
  <2>1. /\ command[p] \in Command /\ command[p].verb = "deposit"
        /\ command[p].pages \in Nat \ {0}
    BY <1>11 DEF RunThread, SpecInv, SpecTypes, Command
  <2>2. t \in SpecIds /\ Backed(gates[t], "active")
    BY <2>1 DEF SpecInv, CommandBacked, TakenFrom
  <2> DEFINE c == [command[p] EXCEPT !.pages = @ - 1]
  <2>3. /\ c \in Command /\ c.verb = command[p].verb /\ c.spec = t
    BY <2>1 DEF Command
  <2>4. command' = [command EXCEPT ![p] = c] /\ UNCHANGED <<status, gates>>
    BY <1>11 DEF RunThread
  <2>5. /\ deposited' \in [SpecIds -> Nat]
        /\ \A s \in SpecIds \ {t} : deposited'[s] = deposited[s]
    BY <1>11, <2>2 DEF RunThread, SpecInv, SpecTypes
  <2>6. SpecTypes'
    BY <2>3, <2>4, <2>5 DEF SpecInv, SpecTypes
  <2>7. \A s \in SpecIds : SpecBacked(s)'
    BY <2>2, <2>4, <2>5 DEF SpecInv, SpecBacked
  <2>8. ASSUME NEW q \in Commanders
        PROVE  CommandBacked(q)'
    <3>1. CASE q = p
      <4>1. command'[p] = c
        BY <2>4 DEF SpecInv, SpecTypes
      <4> QED
        BY <3>1, <4>1, <2>1, <2>2, <2>3, <2>4 DEF CommandBacked, TakenFrom
    <3>2. CASE q # p
      <4>1. command'[q] = command[q]
        BY <2>4, <3>2 DEF SpecInv, SpecTypes
      <4> QED
        BY <4>1, <2>4 DEF SpecInv, CommandBacked
    <3> QED
      BY <3>1, <3>2
  <2> QED
    BY <2>6, <2>7, <2>8 DEF SpecInv
<1>12. CASE UNCHANGED specVars
  BY <1>12 DEF specVars, SpecInv, SpecTypes, SpecBacked, CommandBacked
<1> QED
  BY <1>1, <1>2, <1>3, <1>4, <1>5, <1>6, <1>7, <1>8, <1>9, <1>10, <1>11, <1>12 DEF SpecNext

----------------------------------------------------------------------------
(* The inductive invariant: what every spec and every command under way is   *)
(* backed by, the gates that specs.py's commands test before they write.     *)
THEOREM SpecInvariant == SpecSpec => []SpecInv
<1>1. SpecInit => SpecInv
  BY SpecInvInit
<1>2. SpecInv /\ [SpecNext]_specVars => SpecInv'
  BY SpecInvStep
<1> QED
  BY <1>1, <1>2, PTL DEF SpecSpec

(* The statuses, commands and deposits of specs.py keep their types. *)
THEOREM SpecTypesHold == SpecSpec => []SpecTypes
<1>1. SpecInv => SpecTypes
  BY DEF SpecInv
<1> QED
  BY <1>1, SpecInvariant, PTL

(* However many processes run `jester specs`, on however many specs and with *)
(* whatever limits, none is active, and none deposits, unless it was shown   *)
(* on the pages the gate asks for and a human approved and activated it.     *)
THEOREM NoneActiveUnproved == SpecSpec => []ActiveIsProved
<1>1. SpecInv => ActiveIsProved
  BY DEF SpecInv, SpecBacked, Backed, ActiveIsProved
<1> QED
  BY <1>1, SpecInvariant, PTL

-----------------------------------------------------------------------------
(* The archive of signals                                                  *)

CollectorSteps == {"idle", "ask", "write", "close", "clear"}
KeptRow == [text : Texts, rules : Nat, number : Nat]
(* What was shown is shown or kept, each row under a number of its own. *)
History(was, row, kept) ==
    /\ was \subseteq {row.text} \cup {k.text : k \in kept}
    /\ \A k \in kept : k.number < row.revisions
    /\ \A k, l \in kept : k.number = l.number => k = l
SignalTypes ==
    /\ site \in [Items -> Texts \cup {None}] /\ rules \in Nat
    /\ record \in [Items -> SignalRow \cup {None}] /\ revision \in [Items -> SUBSET KeptRow]
    /\ shown \in [Items -> SUBSET Texts]
    /\ step \in [Collectors -> CollectorSteps]
    /\ unasked \in [Collectors -> SUBSET Queries] /\ whole \in [Collectors -> SUBSET Queries]
    /\ found \in [Collectors -> [Queries -> [Items -> Texts \cup {None}]]]
    /\ old \in [Collectors -> ReadRow \cup {None}]
ArchiveIsSound ==
    \A i \in Items :
        /\ record[i] = None => revision[i] = {} /\ shown[i] = {}
        /\ record[i] # None => /\ History(shown[i], record[i], revision[i])
                               /\ i \in Matches(record[i].query)
                               /\ record[i].removed => i \in offSince
        /\ site[i] = None => i \in offSince
(* A row read before the transaction is the row there is, or is gone. *)
OldIsCurrent(c) ==
    /\ step[c] # "write" => old[c] = None
    /\ step[c] = "write" /\ old[c] = None => Seen(c) = {}
    /\ old[c] # None =>
          /\ old[c].row = None => record[old[c].item] = None
          /\ old[c].row # None /\ record[old[c].item] # None =>
                /\ old[c].row.text = record[old[c].item].text
                /\ old[c].row.revisions = record[old[c].item].revisions
(* What a query read to its end did not return was off the source, or old. *)
ReadsAreWhole(c) ==
    /\ step[c] = "idle" => whole[c] = {}
    /\ whole[c] \cap unasked[c] = {}
    /\ \A q \in Queries, i \in Items : found[c][q][i] # None => i \in Matches(q)
    /\ \A q \in whole[c], i \in Items :
          i \in Matches(q) /\ found[c][q][i] = None =>
             i \in aged \cup offSince \/ (step[c] \in {"close", "clear"} /\ i \in Seen(c))
    /\ step[c] = "close" => \A i \in Seen(c) : record[i] # None => found[c][record[i].query][i] # None
SignalsInv ==
    /\ SignalTypes /\ ArchiveIsSound
    /\ \A c \in Collectors : OldIsCurrent(c) /\ ReadsAreWhole(c)

-----------------------------------------------------------------------------
(* A row that is refreshed is kept when what it says or its score changed.   *)
LEMMA RefreshKeeps ==
    ASSUME rules \in Nat, NEW s, NEW was \in SignalRow, NEW q \in Queries, NEW t \in Texts, NEW S,
           s.row \in SignalRow, s.kept \in SUBSET KeptRow, DOMAIN s = {"row", "kept"},
           was.text = s.row.text, was.revisions = s.row.revisions, History(S, s.row, s.kept)
    PROVE  LET r == Refreshed(was, s, q, t)
           IN /\ r.row \in SignalRow /\ r.kept \in SUBSET KeptRow /\ DOMAIN r = {"row", "kept"}
              /\ r.row.removed = FALSE /\ r.row.query = q
              /\ History(S \cup {t}, r.row, r.kept)
<1> DEFINE r == Refreshed(was, s, q, t)
           changed == was.text # t \/ was.rules # rules
           number == was.revisions + IF changed THEN 1 ELSE 0
           row == [s.row EXCEPT !.text = t, !.query = q, !.rules = rules, !.removed = FALSE,
                     !.unseen = FALSE, !.revisions = number]
           kept == IF changed THEN s.kept \cup {Revision(was)} ELSE s.kept
<1>1. r = [row |-> row, kept |-> kept]
  BY DEF Refreshed
<1>2. was.revisions \in Nat /\ was.rules \in Nat /\ was.text \in Texts
  BY DEF SignalRow
<1>3. /\ row \in SignalRow /\ row.removed = FALSE /\ row.query = q /\ row.text = t
      /\ row.revisions = was.revisions + IF changed THEN 1 ELSE 0
  <2>1. number \in Nat
    BY <1>2
  <2> HIDE DEF number
  <2>2. row \in SignalRow /\ row.removed = FALSE /\ row.query = q /\ row.text = t /\ row.revisions = number
    BY <2>1 DEF SignalRow
  <2> QED
    BY <2>2 DEF number
<1>4. Revision(was) \in KeptRow /\ Revision(was).text = was.text /\ Revision(was).number = was.revisions
  BY <1>2 DEF Revision, KeptRow
<1>5. kept \in SUBSET KeptRow
  BY <1>4
<1> HIDE DEF row
<1>6. History(S \cup {t}, row, kept)
  <2>1. CASE changed
    <3>1. kept = s.kept \cup {Revision(was)} /\ row.revisions = was.revisions + 1
      BY <1>3, <2>1
    <3>2. \A k \in s.kept : k.number < was.revisions /\ k.number \in Nat
      BY DEF History, KeptRow
    <3>3. S \subseteq {k.text : k \in kept}
      BY <1>4, <3>1 DEF History
    <3> HIDE DEF kept, changed
    <3> QED
      BY <1>2, <1>3, <1>4, <3>1, <3>2, <3>3 DEF History
  <2>2. CASE ~changed
    BY <1>2, <1>3, <2>2 DEF History
  <2> QED
    BY <2>1, <2>2
<1> HIDE DEF kept
<1> QED
  BY <1>1, <1>3, <1>5, <1>6

(* What a sighting does to the row and the rows kept, one after another.     *)
LEMMA SightingsAreKept ==
    ASSUME SignalsInv, NEW c \in Collectors, step[c] = "write", ~Clash(c),
           NEW i \in Seen(c) \ Vanished(c)
    PROVE  /\ AfterPass(c, i).row \in SignalRow /\ AfterPass(c, i).kept \in SUBSET KeptRow
           /\ AfterPass(c, i).row.removed = FALSE
           /\ found[c][AfterPass(c, i).row.query][i] # None
           /\ History(shown[i] \cup ({found[c][q][i] : q \in Queries} \ {None}),
                      AfterPass(c, i).row, AfterPass(c, i).kept)
<1>1. /\ i \in Items /\ NQueries \in Nat /\ None \notin SignalRow /\ None \notin Texts
      /\ None \notin ReadRow /\ rules \in Nat
      /\ \A q \in Queries : found[c][q][i] \in Texts \cup {None}
      /\ record[i] \in SignalRow \cup {None} /\ revision[i] \in SUBSET KeptRow
      /\ old[c] \in ReadRow \cup {None}
  BY SignalsAssumption DEF SignalsInv, SignalTypes, Seen, SeenBy
<1>2. \A q \in Queries : (i \in SeenBy(c, q)) = (found[c][q][i] # None)
  BY <1>1 DEF SeenBy
<1> DEFINE base == [row |-> record[i], kept |-> revision[i]]
           stale == old[c].item = i
           was(q, s) == IF stale /\ \A p \in 1..(q - 1) : i \notin SeenBy(c, p)
                        THEN old[c].row ELSE s.row
           then(q, s) == IF i \notin SeenBy(c, q) THEN s
                         ELSE IF was(q, s) = None THEN [s EXCEPT !.row = FreshRow(q, found[c][q][i])]
                         ELSE Refreshed(was(q, s), s, q, found[c][q][i])
           IsPass(f, n) == f = [q \in 0..n |-> IF q = 0 THEN base ELSE then(q, f[q - 1])]
<1>3. \E f : IsPass(f, NQueries)
  <2> HIDE DEF then, base
  <2> DEFINE Bad == {n \in Nat : ~\E f : IsPass(f, n)}
  <2>1. SUFFICES Bad = {}
    BY <1>1
  <2>2. SUFFICES ASSUME Bad # {} PROVE FALSE
    OBVIOUS
  <2>3. \E n \in Bad : \A m \in Bad : ~(<<m, n>> \in OpToRel(<, Nat))
    BY <2>2, WFMin, NatLessThanWellFounded
  <2>4. PICK n \in Bad : \A m \in Bad : ~(m < n)
    BY <2>3 DEF OpToRel
  <2>5. CASE n = 0
    <3>1. IsPass([q \in 0..0 |-> base], 0)
      OBVIOUS
    <3> QED
      BY <2>5, <3>1
  <2>6. CASE n # 0
    <3>0. n \in Nat
      BY <2>4
    <3>1. n - 1 \in Nat /\ n - 1 < n /\ n - 1 \notin Bad
      <4> HIDE DEF Bad
      <4> QED
        BY <2>4, <2>6, <3>0
    <3>2. PICK f : IsPass(f, n - 1)
      <4> HIDE DEF IsPass
      <4> QED
        BY <3>1
    <3> DEFINE g == [q \in 0..n |-> IF q = n THEN then(n, f[n - 1]) ELSE f[q]]
    <3>3. \A q \in 0..n : g[q] = IF q = 0 THEN base ELSE then(q, g[q - 1])
      <4> SUFFICES ASSUME NEW q \in 0..n
                   PROVE  g[q] = IF q = 0 THEN base ELSE then(q, g[q - 1])
        OBVIOUS
      <4>1. \A p \in 0..(n - 1) : g[p] = f[p] /\ f[p] = IF p = 0 THEN base ELSE then(p, f[p - 1])
        BY <3>1, <3>2
      <4>2. CASE q = n
        BY <2>6, <3>1, <4>1, <4>2
      <4>3. CASE q # n
        <5>1. q \in 0..(n - 1) /\ (q # 0 => q - 1 \in 0..(n - 1))
          BY <3>1, <4>3
        <5> HIDE DEF g
        <5> QED
          BY <4>1, <5>1
      <4> QED
        BY <4>2, <4>3
    <3>4. IsPass(g, n)
      <4>1. g = [q \in 0..n |-> g[q]]
        OBVIOUS
      <4> HIDE DEF g
      <4> QED
        BY <3>3, <4>1
    <3> QED
      BY <3>4
  <2> QED
    BY <2>5, <2>6
<1> DEFINE after == CHOOSE f : IsPass(f, NQueries)
<1>4. IsPass(after, NQueries)
  BY <1>3
<1>5. AfterPass(c, i) = after[NQueries]
  BY DEF AfterPass
<1>6. /\ after[0] = base
      /\ \A q \in 1..NQueries : after[q] = then(q, after[q - 1])
  <2> HIDE DEF then, base, after
  <2>1. \A q \in 0..NQueries : after[q] = IF q = 0 THEN base ELSE then(q, after[q - 1])
    BY <1>4
  <2> QED
    BY <1>1, <2>1
<1> HIDE DEF after, IsPass
<1> DEFINE seen(q) == {p \in 1..q : i \in SeenBy(c, p)}
           Good(q) ==
             LET s == after[q] IN
             IF seen(q) = {} THEN s = base
             ELSE /\ s.row \in SignalRow /\ s.kept \in SUBSET KeptRow /\ DOMAIN s = {"row", "kept"}
                  /\ s.row.removed = FALSE /\ s.row.query \in seen(q)
                  /\ History(shown[i] \cup {found[c][p][i] : p \in seen(q)}, s.row, s.kept)
<1>7. ASSUME NEW q \in 1..NQueries, Good(q - 1)
      PROVE  Good(q)
  <2> DEFINE s == after[q - 1]
             t == found[c][q][i]
             S == shown[i] \cup {found[c][p][i] : p \in seen(q - 1)}
  <2>1. after[q] = then(q, s) /\ q \in Queries /\ q \in Nat
    BY <1>1, <1>6 DEF Queries
  <2>2. CASE i \notin SeenBy(c, q)
    <3>1. seen(q) = seen(q - 1)
      BY <1>1, <2>2
    <3>2. after[q] = s
      BY <2>1, <2>2
    <3> HIDE DEF seen, then, base
    <3> QED
      BY <1>7, <3>1, <3>2
  <2>3. CASE i \in SeenBy(c, q)
    <3>1. seen(q) = seen(q - 1) \cup {q} /\ t \in Texts
      BY <1>1, <1>2, <2>1, <2>3
    <3>2. /\ shown[i] \cup {found[c][p][i] : p \in seen(q)} = S \cup {t} /\ seen(q) # {}
          /\ q \in seen(q)
      BY <3>1
    <3>3. after[q] = IF was(q, s) = None THEN [s EXCEPT !.row = FreshRow(q, t)]
                     ELSE Refreshed(was(q, s), s, q, t)
      BY <2>1, <2>3
    <3>4. \/ /\ was(q, s) = None /\ s = [row |-> None, kept |-> {}] /\ S = {}
          \/ /\ was(q, s) \in SignalRow /\ s.row \in SignalRow /\ s.kept \in SUBSET KeptRow
             /\ DOMAIN s = {"row", "kept"} /\ was(q, s).text = s.row.text
             /\ was(q, s).revisions = s.row.revisions /\ History(S, s.row, s.kept)
      <4>1. CASE seen(q - 1) = {}
        <5>1. s = base /\ S = shown[i] /\ \A p \in 1..(q - 1) : i \notin SeenBy(c, p)
          BY <1>7, <4>1
        <5>2. was(q, s) = IF stale THEN old[c].row ELSE record[i]
          BY <5>1
        <5>3. record[i] # None => History(shown[i], record[i], revision[i])
          BY <1>1 DEF SignalsInv, ArchiveIsSound
        <5>4. record[i] = None => shown[i] = {} /\ revision[i] = {}
          BY <1>1 DEF SignalsInv, ArchiveIsSound
        <5>5. ASSUME stale
              PROVE  /\ record[i] = None => was(q, s) = None
                     /\ record[i] # None => /\ was(q, s) \in SignalRow /\ was(q, s).text = record[i].text
                                            /\ was(q, s).revisions = record[i].revisions
          <6>1. old[c] \in ReadRow /\ old[c] # None
            BY <1>1, <2>3 DEF SignalsInv, OldIsCurrent, Seen
          <6>2. old[c].row \in SignalRow \cup {None}
            BY <6>1 DEF ReadRow
          <6>3. old[c].row = None => record[i] = None
            BY <5>5, <6>1 DEF SignalsInv, OldIsCurrent
          <6>4. old[c].row # None => record[i] # None
            BY <5>5, <6>1 DEF Vanished
          <6>5. old[c].row # None => /\ old[c].row.text = record[i].text
                                     /\ old[c].row.revisions = record[i].revisions
            BY <5>5, <6>1, <6>4 DEF SignalsInv, OldIsCurrent
          <6> QED
            BY <1>1, <5>2, <5>5, <6>2, <6>3, <6>4, <6>5
        <5>6. ASSUME ~stale
              PROVE  /\ record[i] = None => was(q, s) = None
                     /\ record[i] # None => /\ was(q, s) \in SignalRow /\ was(q, s).text = record[i].text
                                            /\ was(q, s).revisions = record[i].revisions
          BY <1>1, <5>2, <5>6
        <5>7. s.row = record[i] /\ s.kept = revision[i] /\ DOMAIN s = {"row", "kept"}
          BY <5>1
        <5> HIDE DEF was, stale
        <5>8. CASE record[i] = None
          BY <5>1, <5>4, <5>5, <5>6, <5>8
        <5>9. CASE record[i] # None
          <6> HIDE DEF s, S
          <6> QED
            BY <1>1, <5>1, <5>3, <5>5, <5>6, <5>7, <5>9
        <5> QED
          BY <5>8, <5>9
      <4>2. CASE seen(q - 1) # {}
        <5>1. was(q, s) = s.row
          BY <4>2
        <5> HIDE DEF was
        <5> QED
          BY <1>7, <4>2, <5>1
      <4> QED
        BY <4>1, <4>2
    <3>5. CASE was(q, s) = None /\ s = [row |-> None, kept |-> {}] /\ S = {}
      <4> DEFINE w == was(q, s)
                 begun == FreshRow(q, t)
      <4> HIDE DEF w, s, begun
      <4>1. after[q] = [row |-> begun, kept |-> {}]
        <5>1. w = None => after[q] = [s EXCEPT !.row = begun]
          BY <3>3 DEF w, begun
        <5>2. w = None
          BY <3>5 DEF w, s
        <5>3. s = [row |-> None, kept |-> {}]
          BY <3>5
        <5> QED
          BY <5>1, <5>2, <5>3
      <4>2. FreshRow(q, t) \in SignalRow /\ FreshRow(q, t).text = t /\ FreshRow(q, t).query = q
            /\ FreshRow(q, t).removed = FALSE
        BY <1>1, <2>1, <3>1 DEF FreshRow, SignalRow
      <4>3. History(S \cup {t}, FreshRow(q, t), {})
        BY <3>5, <4>2 DEF History
      <4>4. /\ after[q].row \in SignalRow /\ after[q].kept \in SUBSET KeptRow
            /\ DOMAIN after[q] = {"row", "kept"} /\ after[q].row.removed = FALSE
            /\ after[q].row.query = q /\ History(S \cup {t}, after[q].row, after[q].kept)
        BY <4>1, <4>2, <4>3 DEF begun
      <4> HIDE DEF seen, S, t
      <4> QED
        BY <3>2, <4>4
    <3>6. CASE /\ was(q, s) \in SignalRow /\ s.row \in SignalRow /\ s.kept \in SUBSET KeptRow
               /\ DOMAIN s = {"row", "kept"} /\ was(q, s).text = s.row.text
               /\ was(q, s).revisions = s.row.revisions /\ History(S, s.row, s.kept)
      <4> DEFINE w == was(q, s)
      <4>0. /\ w \in SignalRow /\ w.text = s.row.text /\ w.revisions = s.row.revisions
            /\ after[q] = IF w = None THEN [s EXCEPT !.row = FreshRow(q, t)]
                          ELSE Refreshed(w, s, q, t)
        BY <3>3, <3>6
      <4> HIDE DEF seen, S, t, w, s
      <4>1. after[q] = Refreshed(w, s, q, t)
        BY <1>1, <4>0
      <4>2. /\ after[q].row \in SignalRow /\ after[q].kept \in SUBSET KeptRow
            /\ DOMAIN after[q] = {"row", "kept"} /\ after[q].row.removed = FALSE
            /\ after[q].row.query = q /\ History(S \cup {t}, after[q].row, after[q].kept)
        <5>1. /\ rules \in Nat /\ q \in Queries /\ t \in Texts /\ s.row \in SignalRow
              /\ s.kept \in SUBSET KeptRow /\ DOMAIN s = {"row", "kept"} /\ History(S, s.row, s.kept)
          BY <1>1, <2>1, <3>1, <3>6
        <5>2. w \in SignalRow /\ w.text = s.row.text /\ w.revisions = s.row.revisions
          BY <4>0
        <5> DEFINE r == Refreshed(w, s, q, t)
        <5>3. /\ r.row \in SignalRow /\ r.kept \in SUBSET KeptRow /\ DOMAIN r = {"row", "kept"}
              /\ r.row.removed = FALSE /\ r.row.query = q
              /\ History(S \cup {t}, r.row, r.kept)
          BY <5>1, <5>2, RefreshKeeps
        <5> HIDE DEF r
        <5> QED
          BY <4>1, <5>3 DEF r
      <4> QED
        BY <3>2, <4>2
    <3> QED
      BY <3>4, <3>5, <3>6
  <2> QED
    BY <2>2, <2>3
<1>8. Good(0)
  BY <1>6
<1>9. Good(NQueries)
  <2> HIDE DEF Good
  <2> DEFINE Bad == {n \in Nat : n <= NQueries /\ ~Good(n)}
  <2> SUFFICES ASSUME Bad # {} PROVE FALSE
    BY <1>1
  <2>1. \E n \in Bad : \A m \in Bad : ~(<<m, n>> \in OpToRel(<, Nat))
    BY WFMin, NatLessThanWellFounded
  <2>2. PICK n \in Bad : \A m \in Bad : ~(m < n)
    BY <2>1 DEF OpToRel
  <2>3. n # 0 /\ n \in 1..NQueries /\ n - 1 \notin Bad
    BY <1>1, <1>8, <2>2
  <2> QED
    BY <1>1, <1>7, <2>3
<1>10. seen(NQueries) # {} /\ seen(NQueries) = {q \in Queries : found[c][q][i] # None}
  BY <1>1, <1>2 DEF Seen, Queries
<1>11. {found[c][p][i] : p \in seen(NQueries)} = {found[c][q][i] : q \in Queries} \ {None}
  BY <1>10
<1> HIDE DEF seen
<1> QED
  BY <1>5, <1>9, <1>10, <1>11

-----------------------------------------------------------------------------
(* The rows change beside a pass: they say what they said, or are gone. *)
LEMMA PassStands ==
    ASSUME SignalsInv, NEW c \in Collectors, UNCHANGED <<step, unasked, whole, found, old>>,
           aged \subseteq aged', offSince \subseteq offSince',
           \A i \in Items : record'[i] # None =>
              /\ record[i] # None /\ record'[i].query = record[i].query
              /\ step[c] = "write" => /\ record'[i].text = record[i].text
                                      /\ record'[i].revisions = record[i].revisions
    PROVE  OldIsCurrent(c)' /\ ReadsAreWhole(c)'
<1>1. Seen(c)' = Seen(c) /\ Seen(c) \subseteq Items
  BY DEF Seen, SeenBy
<1>2. old[c] # None => old[c].item \in Items /\ step[c] = "write"
  BY DEF SignalsInv, SignalTypes, OldIsCurrent, ReadRow
<1>3. OldIsCurrent(c)'
  <2>1. OldIsCurrent(c)
    BY DEF SignalsInv
  <2>2. old[c]' = old[c] /\ step[c]' = step[c]
    OBVIOUS
  <2> QED
    BY <1>1, <1>2, <2>1, <2>2 DEF OldIsCurrent
<1>4. ReadsAreWhole(c)'
  <2>1. ReadsAreWhole(c)
    BY DEF SignalsInv
  <2>2. step' = step /\ whole' = whole /\ unasked' = unasked /\ found' = found
    OBVIOUS
  <2>3. \A q \in whole[c], i \in Items :
          i \in Matches(q) /\ found[c][q][i] = None =>
             i \in aged' \cup offSince' \/ (step[c] \in {"close", "clear"} /\ i \in Seen(c))
    BY <2>1 DEF ReadsAreWhole
  <2>4. step[c] = "close" => \A i \in Seen(c) : record'[i] # None => found[c][record'[i].query][i] # None
    BY <1>1, <2>1 DEF ReadsAreWhole
  <2> QED
    BY <1>1, <2>1, <2>2, <2>3, <2>4 DEF ReadsAreWhole
<1> QED
  BY <1>3, <1>4

(* A row that is touched says what it said, and was off its source if it is  *)
(* marked gone.                                                              *)
LEMMA RowsTouched ==
    ASSUME SignalsInv, UNCHANGED <<site, rules, revision, shown, offSince>>,
           record' \in [Items -> SignalRow \cup {None}],
           \A i \in Items : record'[i] # None =>
              /\ record[i] # None /\ record'[i].text = record[i].text
              /\ record'[i].query = record[i].query /\ record'[i].revisions = record[i].revisions
              /\ record'[i].removed => i \in offSince,
           \A i \in Items : record'[i] = None => record[i] = None
    PROVE  ArchiveIsSound'
BY DEF SignalsInv, ArchiveIsSound, History

LEMMA WorldStep ==
    ASSUME SignalsInv,
           \/ \E i \in Items : \E t \in Texts \cup {None} : Publish(i, t)
           \/ \E i \in Items : Outgrow(i)
           \/ Unwatched \/ EditRules
    PROVE  SignalsInv'
<1>1. ASSUME NEW i \in Items, NEW t \in Texts \cup {None}, Publish(i, t)
      PROVE  SignalsInv'
  <2>1. /\ site' = [site EXCEPT ![i] = t] /\ offSince \subseteq offSince'
        /\ t = None => i \in offSince'
        /\ UNCHANGED <<aged, rules, record, revision, step, unasked, whole, found, old, shown>>
    BY <1>1 DEF Publish, archive, pass
  <2>2. SignalTypes'
    BY <2>1 DEF SignalsInv, SignalTypes
  <2>3. ArchiveIsSound'
    BY <2>1 DEF SignalsInv, SignalTypes, ArchiveIsSound
  <2>4. \A c \in Collectors : OldIsCurrent(c)' /\ ReadsAreWhole(c)'
    BY <2>1, PassStands
  <2> QED
    BY <2>2, <2>3, <2>4 DEF SignalsInv
<1>2. ASSUME \/ EditRules \/ \E i \in Items : Outgrow(i)
      PROVE  SignalsInv'
  <2>1. /\ aged \subseteq aged' /\ rules' \in Nat
        /\ UNCHANGED <<site, record, revision, step, unasked, whole, found, old, offSince, shown>>
    BY <1>2 DEF Outgrow, EditRules, archive, pass, SignalsInv, SignalTypes
  <2>2. SignalTypes' /\ ArchiveIsSound'
    BY <2>1 DEF SignalsInv, SignalTypes, ArchiveIsSound
  <2>3. \A c \in Collectors : OldIsCurrent(c)' /\ ReadsAreWhole(c)'
    BY <2>1, PassStands
  <2> QED
    BY <2>2, <2>3 DEF SignalsInv
<1>3. CASE Unwatched
  <2>1. /\ record' = [i \in Items |-> IF record[i] = None THEN None
                                      ELSE [record[i] EXCEPT !.unseen = TRUE]]
        /\ UNCHANGED <<site, aged, rules, revision, step, unasked, whole, found, old, offSince, shown>>
    BY <1>3 DEF Unwatched, source, pass
  <2>2. \A i \in Items : record[i] # None =>
          /\ record'[i] \in SignalRow /\ record'[i].text = record[i].text
          /\ record'[i].query = record[i].query /\ record'[i].revisions = record[i].revisions
          /\ record'[i].removed = record[i].removed
    <3> SUFFICES ASSUME NEW i \in Items, record[i] # None
                 PROVE  /\ record'[i] \in SignalRow /\ record'[i].text = record[i].text
                        /\ record'[i].query = record[i].query
                        /\ record'[i].revisions = record[i].revisions
                        /\ record'[i].removed = record[i].removed
      OBVIOUS
    <3>1. record'[i] = [record[i] EXCEPT !.unseen = TRUE] /\ record[i] \in SignalRow
      BY <2>1 DEF SignalsInv, SignalTypes
    <3> QED
      BY <3>1 DEF SignalRow
  <2>3. \A i \in Items : record[i] = None => record'[i] = None
    BY <2>1
  <2>4. \A i \in Items : record'[i] = None => record[i] = None
    BY <2>2, SignalsAssumption
  <2>5. record' \in [Items -> SignalRow \cup {None}]
    BY <2>1, <2>2, <2>3
  <2>6. SignalTypes'
    BY <2>1, <2>5 DEF SignalsInv, SignalTypes
  <2>7. ArchiveIsSound'
    BY <2>1, <2>2, <2>3, <2>4, <2>5, RowsTouched DEF SignalsInv, ArchiveIsSound
  <2>8. \A c \in Collectors : OldIsCurrent(c)' /\ ReadsAreWhole(c)'
    BY <2>1, <2>2, <2>3, PassStands
  <2> QED
    BY <2>6, <2>7, <2>8 DEF SignalsInv
<1> QED
  BY <1>1, <1>2, <1>3

LEMMA OperatorStep ==
    ASSUME SignalsInv, "write" \notin OperatorDuring,
           \/ \E i \in Items : \E o \in Outcomes \cup {None} : SetOutcome(i, o)
           \/ \E i \in Items : \E snap \in revision[i] : Restore(i, snap)
           \/ Reclassify \/ Retention
    PROVE  SignalsInv'
<1>1. ASSUME \/ \E i \in Items : \E o \in Outcomes \cup {None} : SetOutcome(i, o)
             \/ Reclassify
      PROVE  SignalsInv'
  <2>1. UNCHANGED <<site, aged, rules, revision, step, unasked, whole, found, old, offSince, shown>>
    BY <1>1 DEF SetOutcome, Reclassify, source, pass
  <2>2. /\ record' \in [Items -> SignalRow \cup {None}]
        /\ \A i \in Items : record[i] # None =>
              /\ record'[i] \in SignalRow /\ record'[i].text = record[i].text
              /\ record'[i].query = record[i].query /\ record'[i].revisions = record[i].revisions
              /\ record'[i].removed = record[i].removed
        /\ \A i \in Items : record[i] = None => record'[i] = None
    <3>1. ASSUME NEW i \in Items, NEW o \in Outcomes \cup {None}, SetOutcome(i, o)
          PROVE  /\ record' \in [Items -> SignalRow \cup {None}]
                 /\ \A j \in Items : record[j] # None =>
                       /\ record'[j] \in SignalRow /\ record'[j].text = record[j].text
                       /\ record'[j].query = record[j].query /\ record'[j].revisions = record[j].revisions
                       /\ record'[j].removed = record[j].removed
                 /\ \A j \in Items : record[j] = None => record'[j] = None
      <4> DEFINE row == [record[i] EXCEPT !.outcome = o]
      <4>1. record' = [record EXCEPT ![i] = row] /\ record[i] \in SignalRow
        BY <3>1 DEF SetOutcome, SignalsInv, SignalTypes
      <4>2. /\ row \in SignalRow /\ row.text = record[i].text /\ row.query = record[i].query
            /\ row.revisions = record[i].revisions /\ row.removed = record[i].removed
        BY <4>1 DEF SignalRow
      <4> HIDE DEF row
      <4> QED
        BY <4>1, <4>2, SignalsAssumption DEF SignalsInv, SignalTypes
    <3>2. CASE Reclassify
      <4>1. record' = [i \in Items |-> IF record[i] = None THEN None
                                       ELSE [record[i] EXCEPT !.rules = rules]]
        BY <3>2 DEF Reclassify
      <4>2. \A i \in Items : record[i] # None =>
              /\ record'[i] \in SignalRow /\ record'[i].text = record[i].text
              /\ record'[i].query = record[i].query /\ record'[i].revisions = record[i].revisions
              /\ record'[i].removed = record[i].removed
        BY <4>1 DEF SignalsInv, SignalTypes, SignalRow
      <4>3. \A i \in Items : record[i] = None => record'[i] = None
        BY <4>1
      <4> QED
        BY <4>1, <4>2, <4>3
    <3> QED
      BY <1>1, <3>1, <3>2
  <2>3. \A i \in Items : record'[i] = None => record[i] = None
    BY <2>2, SignalsAssumption
  <2>4. SignalTypes'
    BY <2>1, <2>2 DEF SignalsInv, SignalTypes
  <2>5. ArchiveIsSound'
    BY <2>1, <2>2, <2>3, RowsTouched DEF SignalsInv, ArchiveIsSound
  <2>6. \A c \in Collectors : OldIsCurrent(c)' /\ ReadsAreWhole(c)'
    BY <2>1, <2>2, PassStands
  <2> QED
    BY <2>4, <2>5, <2>6 DEF SignalsInv
<1>2. ASSUME NEW i \in Items, NEW snap \in revision[i], Restore(i, snap)
      PROVE  SignalsInv'
  <2> DEFINE differs == record[i].text # snap.text \/ record[i].rules # snap.rules
             kept == IF differs THEN revision[i] \cup {Revision(record[i])} ELSE revision[i]
             number == record[i].revisions + 1
             row == [record[i] EXCEPT !.text = snap.text, !.rules = snap.rules, !.revisions = number]
  <2>1. /\ record[i] # None /\ \A c \in Collectors : step[c] # "write"
        /\ UNCHANGED <<site, aged, rules, step, unasked, whole, found, old, offSince, shown>>
    BY <1>2 DEF Restore, source, pass
  <2>2. record[i] \in SignalRow /\ snap \in KeptRow /\ revision[i] \in SUBSET KeptRow /\ shown[i] \subseteq Texts
    BY <2>1 DEF SignalsInv, SignalTypes
  <2>3. revision' = [revision EXCEPT ![i] = kept] /\ record' = [record EXCEPT ![i] = row]
    BY <1>2 DEF Restore, SignalsInv, SignalTypes
  <2>4. number \in Nat /\ snap.text \in Texts /\ snap.rules \in Nat /\ record[i].revisions \in Nat
    BY <2>2 DEF KeptRow, SignalRow
  <2>5. /\ row \in SignalRow /\ row.text = snap.text /\ row.revisions = number
        /\ row.query = record[i].query /\ row.removed = record[i].removed /\ row # None
    <3> HIDE DEF number
    <3>1. row \in SignalRow
      BY <2>2, <2>4 DEF SignalRow
    <3> QED
      BY <2>2, <2>4, <3>1, SignalsAssumption DEF SignalRow
  <2>6. /\ Revision(record[i]) \in KeptRow /\ Revision(record[i]).text = record[i].text
        /\ Revision(record[i]).number = record[i].revisions
    BY <2>2 DEF Revision, KeptRow, SignalRow
  <2>7. kept \in SUBSET KeptRow /\ snap \in kept /\ (record[i].text = snap.text \/ Revision(record[i]) \in kept)
    BY <2>2, <2>6
  <2>8. History(shown[i], record[i], revision[i])
    BY <2>1 DEF SignalsInv, ArchiveIsSound
  <2>9. History(shown[i], row, kept)
    <3>1. \A k \in revision[i] : k.number < record[i].revisions /\ k.number \in Nat
      BY <2>2, <2>8 DEF History, KeptRow
    <3>2. kept \subseteq revision[i] \cup {Revision(record[i])} /\ revision[i] \subseteq kept
      OBVIOUS
    <3> HIDE DEF kept, row, differs
    <3>3. shown[i] \subseteq {row.text} \cup {k.text : k \in kept}
      BY <2>5, <2>6, <2>7, <2>8, <3>2 DEF History
    <3> QED
      BY <2>4, <2>5, <2>6, <2>8, <3>1, <3>2, <3>3 DEF History
  <2> HIDE DEF row, kept, differs, number
  <2>10. SignalTypes'
    BY <2>1, <2>3, <2>5, <2>7 DEF SignalsInv, SignalTypes
  <2>11. ArchiveIsSound'
    <3> SUFFICES ASSUME NEW j \in Items
                 PROVE  /\ record'[j] = None => revision'[j] = {} /\ shown[j] = {}
                        /\ record'[j] # None => /\ History(shown[j], record'[j], revision'[j])
                                                /\ j \in Matches(record'[j].query)
                                                /\ record'[j].removed => j \in offSince
                        /\ site[j] = None => j \in offSince
      BY <2>1 DEF ArchiveIsSound
    <3>1. CASE j = i
      <4>1. record'[j] = row /\ revision'[j] = kept
        BY <2>3, <3>1 DEF SignalsInv, SignalTypes
      <4> QED
        BY <2>1, <2>5, <2>9, <3>1, <4>1 DEF SignalsInv, ArchiveIsSound
    <3>2. CASE j # i
      <4>1. record'[j] = record[j] /\ revision'[j] = revision[j]
        BY <2>3, <3>2 DEF SignalsInv, SignalTypes
      <4> QED
        BY <4>1 DEF SignalsInv, ArchiveIsSound
    <3> QED
      BY <3>1, <3>2
  <2>12. \A c \in Collectors : OldIsCurrent(c)' /\ ReadsAreWhole(c)'
    <3>1. \A j \in Items : record'[j] # None => record[j] # None /\ record'[j].query = record[j].query
      BY <2>1, <2>3, <2>5 DEF SignalsInv, SignalTypes
    <3> QED
      BY <2>1, <3>1, PassStands
  <2> QED
    BY <2>10, <2>11, <2>12 DEF SignalsInv
<1>3. CASE Retention
  <2>1. PICK gone \in SUBSET Items :
          /\ record' = [i \in Items |-> IF i \in gone THEN None ELSE record[i]]
          /\ revision' = [i \in Items |-> IF i \in gone THEN {} ELSE revision[i]]
          /\ shown' = [i \in Items |-> IF i \in gone THEN {} ELSE shown[i]]
    BY <1>3 DEF Retention
  <2>2. UNCHANGED <<site, aged, rules, step, unasked, whole, found, old, offSince>>
    BY <1>3 DEF Retention, source, pass
  <2>3. SignalTypes'
    BY <2>1, <2>2 DEF SignalsInv, SignalTypes
  <2>4. ArchiveIsSound'
    BY <2>1, <2>2 DEF SignalsInv, ArchiveIsSound
  <2>5. \A c \in Collectors : OldIsCurrent(c)' /\ ReadsAreWhole(c)'
    BY <2>1, <2>2, PassStands
  <2> QED
    BY <2>3, <2>4, <2>5 DEF SignalsInv
<1> QED
  BY <1>1, <1>2, <1>3

LEMMA CollectorStep ==
    ASSUME SignalsInv, \A c, d \in Collectors : c = d, NEW c \in Collectors,
           \/ \E k \in {"run", "recovery"} : StartPass(c, k)
           \/ \E q \in Queries : \E I \in SUBSET Items :
                 Search(c, q, I) \/ \E cut \in BOOLEAN : SearchFails(c, q, I, cut)
           \/ Peek(c) \/ MarkClosed(c) \/ ClearFailures(c) \/ CollectorDies(c)
    PROVE  SignalsInv'
<1>0. \A d \in Collectors : d = c
  OBVIOUS
<1>t. SignalTypes /\ ArchiveIsSound /\ OldIsCurrent(c) /\ ReadsAreWhole(c)
  BY DEF SignalsInv
<1>1. ASSUME NEW k \in {"run", "recovery"}, StartPass(c, k)
      PROVE  SignalsInv'
  <2>1. /\ step[c] = "idle" /\ step' = [step EXCEPT ![c] = "ask"]
        /\ \E queries \in SUBSET Queries : unasked' = [unasked EXCEPT ![c] = queries]
        /\ UNCHANGED <<site, aged, rules, record, revision, whole, found, old, offSince, shown>>
    BY <1>1 DEF StartPass, archive, source
  <2>2. SignalTypes' /\ ArchiveIsSound'
    BY <1>t, <2>1 DEF SignalTypes, ArchiveIsSound, CollectorSteps
  <2>3. step'[c] = "ask" /\ whole[c] = {}
    BY <1>t, <2>1 DEF SignalTypes, ReadsAreWhole
  <2>4. OldIsCurrent(c)' /\ ReadsAreWhole(c)'
    BY <1>t, <2>1, <2>3 DEF OldIsCurrent, ReadsAreWhole
  <2> QED
    BY <1>0, <2>2, <2>4 DEF SignalsInv
<1>2. ASSUME NEW q \in Queries, NEW I \in SUBSET Items,
             Search(c, q, I) \/ \E cut \in BOOLEAN : SearchFails(c, q, I, cut)
      PROVE  SignalsInv'
  <2>1. /\ step[c] = "ask" /\ q \in unasked[c] /\ I \subseteq Listed(q)
        /\ found' = [found EXCEPT ![c][q] = Sighting(I)]
        /\ unasked' = [unasked EXCEPT ![c] = unasked'[c]] /\ unasked'[c] \subseteq unasked[c] \ {q}
        /\ whole' = [whole EXCEPT ![c] = whole'[c]] /\ whole'[c] \subseteq whole[c] \cup {q}
        /\ q \in whole'[c] => I = Listed(q)
        /\ UNCHANGED <<site, aged, rules, record, revision, step, old, offSince, shown>>
    <3>1. q \in unasked[c] => q \notin whole[c]
      BY <1>t DEF ReadsAreWhole
    <3>2. CASE Search(c, q, I)
      <4>1. /\ unasked' = [unasked EXCEPT ![c] = unasked[c] \ {q}]
            /\ whole' = [whole EXCEPT ![c] = IF I = Listed(q) THEN whole[c] \cup {q} ELSE whole[c]]
        BY <1>t, <3>2 DEF Search, SignalTypes
      <4> QED
        BY <1>t, <3>1, <3>2, <4>1 DEF Search, Asks, archive, source, SignalTypes
    <3>3. ASSUME NEW cut \in BOOLEAN, SearchFails(c, q, I, cut)
          PROVE  /\ step[c] = "ask" /\ q \in unasked[c] /\ I \subseteq Listed(q)
                 /\ found' = [found EXCEPT ![c][q] = Sighting(I)]
                 /\ unasked' = [unasked EXCEPT ![c] = unasked'[c]] /\ unasked'[c] \subseteq unasked[c] \ {q}
                 /\ whole' = [whole EXCEPT ![c] = whole'[c]] /\ whole'[c] \subseteq whole[c] \cup {q}
                 /\ q \in whole'[c] => I = Listed(q)
                 /\ UNCHANGED <<site, aged, rules, record, revision, step, old, offSince, shown>>
      <4>1. /\ unasked' = [unasked EXCEPT ![c] = IF cut THEN {} ELSE unasked[c] \ {q}]
            /\ whole' = whole
        BY <1>t, <3>3 DEF SearchFails, SignalTypes
      <4> QED
        BY <1>t, <3>1, <3>3, <4>1 DEF SearchFails, Asks, archive, source, SignalTypes
    <3> QED
      BY <1>2, <3>2, <3>3
  <2>2. /\ found'[c] = [found[c] EXCEPT ![q] = Sighting(I)]
        /\ \A p \in Queries \ {q} : found'[c][p] = found[c][p]
        /\ found'[c][q] = Sighting(I)
    BY <1>t, <2>1 DEF SignalTypes
  <2>3. Sighting(I) \in [Items -> Texts \cup {None}] /\ \A i \in Items : Sighting(I)[i] # None <=> i \in I
    BY <1>t, <2>1, SignalsAssumption DEF Sighting, Listed, SignalTypes
  <2>4. SignalTypes' /\ ArchiveIsSound'
    BY <1>t, <2>1, <2>3 DEF SignalTypes, ArchiveIsSound
  <2>5. OldIsCurrent(c)'
    BY <1>t, <2>1 DEF OldIsCurrent
  <2>6. \A p \in Queries, i \in Items : found'[c][p][i] # None => i \in Matches(p)
    BY <1>t, <2>1, <2>2, <2>3 DEF ReadsAreWhole, Listed
  <2>7. ASSUME NEW p \in whole'[c], NEW i \in Items, i \in Matches(p), found'[c][p][i] = None
        PROVE  i \in aged \cup offSince
    <3>1. CASE p = q
      <4>1. i \notin Listed(q)
        BY <2>1, <2>2, <2>3, <2>7, <3>1
      <4>2. site[i] = None \/ i \in aged
        BY <2>7, <3>1, <4>1 DEF Listed
      <4> QED
        BY <1>t, <4>2 DEF ArchiveIsSound
    <3>2. CASE p # q
      <4>1. p \in whole[c] /\ p \in Queries
        BY <1>t, <2>1, <3>2 DEF SignalTypes
      <4> QED
        BY <1>t, <2>1, <2>2, <2>7, <3>2, <4>1 DEF ReadsAreWhole
    <3> QED
      BY <3>1, <3>2
  <2>8. whole'[c] \cap unasked'[c] = {}
    BY <1>t, <2>1 DEF ReadsAreWhole
  <2>9. ReadsAreWhole(c)'
    <3>1. step' = step /\ aged' = aged /\ offSince' = offSince /\ step[c] = "ask"
      BY <2>1
    <3> QED
      BY <2>6, <2>7, <2>8, <3>1 DEF ReadsAreWhole
  <2> QED
    BY <1>0, <2>4, <2>5, <2>9 DEF SignalsInv
<1>3. CASE Peek(c)
  <2>1. /\ step[c] = "ask" /\ step' = [step EXCEPT ![c] = "write"] /\ step'[c] = "write"
        /\ UNCHANGED <<site, aged, rules, record, revision, unasked, whole, found, offSince, shown>>
    BY <1>t, <1>3 DEF Peek, archive, source, SignalTypes
  <2>2. Seen(c)' = Seen(c) /\ old[c] = None
    BY <1>t, <2>1 DEF Seen, SeenBy, OldIsCurrent
  <2>3. \/ Seen(c) = {} /\ old' = old
        \/ \E i \in Items : old' = [old EXCEPT ![c] = [item |-> i, row |-> record[i]]]
    BY <1>3 DEF Peek, SeenBy
  <2>4. ASSUME NEW i \in Items, old' = [old EXCEPT ![c] = [item |-> i, row |-> record[i]]]
        PROVE  old' \in [Collectors -> ReadRow \cup {None}] /\ OldIsCurrent(c)'
    <3> DEFINE o == [item |-> i, row |-> record[i]]
    <3>1. o \in ReadRow /\ o # None /\ o.item = i /\ o.row = record[i]
      BY <1>t, SignalsAssumption DEF ReadRow, SignalTypes
    <3> HIDE DEF o
    <3>2. old'[c] = o /\ old' \in [Collectors -> ReadRow \cup {None}]
      BY <1>t, <2>4, <3>1 DEF SignalTypes, o
    <3> QED
      BY <2>1, <3>1, <3>2 DEF OldIsCurrent
  <2>5. old' \in [Collectors -> ReadRow \cup {None}] /\ OldIsCurrent(c)'
    <3>1. CASE Seen(c) = {} /\ old' = old
      BY <1>t, <2>1, <2>2, <3>1 DEF SignalTypes, OldIsCurrent
    <3> QED
      BY <2>3, <2>4, <3>1
  <2>6. SignalTypes' /\ ArchiveIsSound'
    BY <1>t, <2>1, <2>5 DEF SignalTypes, ArchiveIsSound, CollectorSteps
  <2>7. ReadsAreWhole(c)'
    BY <1>t, <2>1, <2>2 DEF ReadsAreWhole
  <2> QED
    BY <1>0, <2>5, <2>6, <2>7 DEF SignalsInv
<1>4. ASSUME Ends(c), UNCHANGED <<site, aged, rules, offSince, revision, shown>>,
             record' \in [Items -> SignalRow \cup {None}]
      PROVE  OldIsCurrent(c)' /\ ReadsAreWhole(c)' /\ SignalTypes'
  <2>1. NothingFound \in [Queries -> [Items -> Texts \cup {None}]]
        /\ \A q \in Queries, i \in Items : NothingFound[q][i] = None
    BY DEF NothingFound
  <2>2. SignalTypes'
    BY <1>t, <1>4, <2>1 DEF Ends, SignalTypes, CollectorSteps
  <2>3. step'[c] = "idle" /\ old'[c] = None /\ whole'[c] = {} /\ found'[c] = NothingFound
    BY <1>t, <1>4 DEF Ends, SignalTypes
  <2> QED
    BY <2>1, <2>2, <2>3 DEF OldIsCurrent, ReadsAreWhole
<1>7. ASSUME step[c] = "close", step' = [step EXCEPT ![c] = "clear"],
             UNCHANGED <<unasked, found, whole, old>>,
             UNCHANGED <<site, aged, rules, offSince, revision, shown>>,
             record' \in [Items -> SignalRow \cup {None}]
      PROVE  OldIsCurrent(c)' /\ ReadsAreWhole(c)' /\ SignalTypes'
  <2>1. SignalTypes' /\ step'[c] = "clear"
    BY <1>t, <1>7 DEF SignalTypes, CollectorSteps
  <2>2. Seen(c)' = Seen(c)
    BY <1>7 DEF Seen, SeenBy
  <2> QED
    BY <1>t, <1>7, <2>1, <2>2 DEF OldIsCurrent, ReadsAreWhole
<1>5. CASE ClearFailures(c) \/ CollectorDies(c)
  <2>1. Ends(c) /\ UNCHANGED <<site, aged, rules, record, revision, offSince, shown>>
    BY <1>5 DEF ClearFailures, CollectorDies, archive, source
  <2>2. ArchiveIsSound'
    BY <1>t, <2>1 DEF ArchiveIsSound
  <2>3. record' \in [Items -> SignalRow \cup {None}]
    BY <1>t, <2>1 DEF SignalTypes
  <2>4. OldIsCurrent(c)' /\ ReadsAreWhole(c)' /\ SignalTypes'
    BY <1>4, <2>1, <2>3
  <2> QED
    BY <1>0, <2>2, <2>4 DEF SignalsInv
<1>6. CASE MarkClosed(c)
  <2> DEFINE gone == IF TooMany(c) THEN {} ELSE Missing(c)
  <2>1. /\ step[c] = "close" /\ UNCHANGED <<site, aged, rules, offSince, revision, shown>>
        /\ record' = [i \in Items |-> IF i \in gone THEN [record[i] EXCEPT !.removed = TRUE]
                                      ELSE record[i]]
    BY <1>6 DEF MarkClosed, source
  <2>2. \A i \in Missing(c) : record[i] # None /\ i \in offSince /\ i \in Items
    <3> SUFFICES ASSUME NEW i \in Missing(c)
                 PROVE  record[i] # None /\ i \in offSince /\ i \in Items
      OBVIOUS
    <3> DEFINE q == record[i].query
    <3>1. /\ i \in Items /\ i \notin aged /\ record[i] # None /\ q \in Complete(c)
          /\ \A p \in Complete(c) : i \notin SeenBy(c, p)
      BY DEF Missing, Judged
    <3>2. q \in whole[c] /\ found[c][q][i] = None /\ i \in Matches(q)
      BY <1>t, <3>1 DEF Complete, SeenBy, ArchiveIsSound
    <3>3. i \notin Seen(c)
      BY <1>t, <2>1, <3>1, <3>2 DEF ReadsAreWhole
    <3> QED
      BY <1>t, <3>1, <3>2, <3>3 DEF ReadsAreWhole
  <2>3. \A i \in gone : i \in Items /\ record[i] \in SignalRow /\ i \in offSince
    BY <1>t, <2>2 DEF SignalTypes
  <2> HIDE DEF gone
  <2>4. \A i \in Items : i \in gone =>
          /\ record'[i] \in SignalRow /\ record'[i].text = record[i].text
          /\ record'[i].query = record[i].query /\ record'[i].revisions = record[i].revisions
    <3> SUFFICES ASSUME NEW i \in Items, i \in gone
                 PROVE  /\ record'[i] \in SignalRow /\ record'[i].text = record[i].text
                        /\ record'[i].query = record[i].query
                        /\ record'[i].revisions = record[i].revisions
      OBVIOUS
    <3>1. record'[i] = [record[i] EXCEPT !.removed = TRUE] /\ record[i] \in SignalRow
      BY <2>1, <2>3
    <3> QED
      BY <3>1 DEF SignalRow
  <2>5. \A i \in Items : i \notin gone => record'[i] = record[i]
    BY <2>1
  <2>6. record' \in [Items -> SignalRow \cup {None}]
    BY <1>t, <2>1, <2>4, <2>5 DEF SignalTypes
  <2>7. ArchiveIsSound'
    <3>1. \A i \in Items : record'[i] # None =>
              /\ record[i] # None /\ record'[i].text = record[i].text
              /\ record'[i].query = record[i].query /\ record'[i].revisions = record[i].revisions
              /\ record'[i].removed => i \in offSince
      BY <1>t, <2>3, <2>4, <2>5, SignalsAssumption DEF ArchiveIsSound
    <3>2. \A i \in Items : record'[i] = None => record[i] = None
      BY <2>4, <2>5, SignalsAssumption
    <3> QED
      BY <2>1, <2>6, <3>1, <3>2, RowsTouched
  <2>8. CASE Ends(c)
    BY <1>0, <1>4, <2>1, <2>6, <2>7, <2>8 DEF SignalsInv
  <2>9. CASE step' = [step EXCEPT ![c] = "clear"] /\ UNCHANGED <<unasked, found, whole, old>>
    BY <1>0, <1>7, <2>1, <2>6, <2>7, <2>9 DEF SignalsInv
  <2> QED
    BY <1>6, <2>8, <2>9 DEF MarkClosed
<1> QED
  BY <1>1, <1>2, <1>3, <1>5, <1>6

LEMMA UpsertStep ==
    ASSUME SignalsInv, \A c, d \in Collectors : c = d, NEW c \in Collectors, Upsert(c)
    PROVE  SignalsInv'
<1>t. SignalTypes /\ ArchiveIsSound /\ OldIsCurrent(c) /\ ReadsAreWhole(c) /\ \A d \in Collectors : d = c
  BY DEF SignalsInv
<1> DEFINE I == Seen(c) \ Vanished(c)
           texts(i) == {found[c][q][i] : q \in Queries} \ {None}
<1>1. /\ step[c] = "write" /\ ~Clash(c)
      /\ record' = [i \in Items |-> IF i \in I THEN AfterPass(c, i).row ELSE record[i]]
      /\ revision' = [i \in Items |-> IF i \in I THEN AfterPass(c, i).kept ELSE revision[i]]
      /\ shown' = [i \in Items |-> IF i \in I THEN shown[i] \cup texts(i) ELSE shown[i]]
      /\ offSince' = (offSince \ I) \cup {i \in I : site[i] = None}
      /\ step' = [step EXCEPT ![c] = "close"] /\ old' = [old EXCEPT ![c] = None]
      /\ UNCHANGED <<site, aged, rules, unasked, whole, found>>
  BY DEF Upsert, source
<1>2. I \subseteq Items /\ I \subseteq Seen(c) /\ \A i \in Seen(c) \ I : record[i] = None
  BY DEF Seen, SeenBy, Vanished
<1>3. \A i \in I :
        /\ AfterPass(c, i).row \in SignalRow /\ AfterPass(c, i).kept \in SUBSET KeptRow
        /\ AfterPass(c, i).row.removed = FALSE /\ found[c][AfterPass(c, i).row.query][i] # None
        /\ History(shown[i] \cup texts(i), AfterPass(c, i).row, AfterPass(c, i).kept)
  BY <1>1, SightingsAreKept
<1>4. \A i \in I : texts(i) \subseteq Texts
  BY <1>t, <1>2 DEF SignalTypes
<1> HIDE DEF I, texts
<1>5. /\ \A i \in I : record'[i] = AfterPass(c, i).row /\ revision'[i] = AfterPass(c, i).kept
                     /\ shown'[i] = shown[i] \cup texts(i)
      /\ \A i \in Items \ I : record'[i] = record[i] /\ revision'[i] = revision[i] /\ shown'[i] = shown[i]
  BY <1>1, <1>2
<1>6. SignalTypes'
  <2>1. record' \in [Items -> SignalRow \cup {None}]
    BY <1>t, <1>1, <1>3 DEF SignalTypes
  <2>2. revision' \in [Items -> SUBSET KeptRow]
    BY <1>t, <1>1, <1>3 DEF SignalTypes
  <2>3. shown' \in [Items -> SUBSET Texts]
    BY <1>t, <1>1, <1>4 DEF SignalTypes
  <2> QED
    BY <1>t, <1>1, <2>1, <2>2, <2>3 DEF SignalTypes, CollectorSteps
<1>7. \A i \in I : record'[i] \in SignalRow /\ record'[i] # None /\ record'[i].query \in Queries
                /\ found[c][record'[i].query][i] # None
  BY <1>3, <1>5, SignalsAssumption DEF SignalRow
<1>8. ArchiveIsSound'
  <2> SUFFICES ASSUME NEW i \in Items
               PROVE  /\ record'[i] = None => revision'[i] = {} /\ shown'[i] = {}
                      /\ record'[i] # None => /\ History(shown'[i], record'[i], revision'[i])
                                              /\ i \in Matches(record'[i].query)
                                              /\ record'[i].removed => i \in offSince'
                      /\ site'[i] = None => i \in offSince'
    BY DEF ArchiveIsSound
  <2>1. CASE i \in I
    <3>1. History(shown'[i], record'[i], revision'[i]) /\ record'[i].removed = FALSE
      BY <1>3, <1>5, <2>1
    <3>2. i \in Matches(record'[i].query)
      BY <1>t, <1>7, <2>1 DEF ReadsAreWhole
    <3> QED
      BY <1>1, <1>7, <2>1, <3>1, <3>2
  <2>2. CASE i \notin I
    BY <1>t, <1>1, <1>5, <2>2 DEF ArchiveIsSound
  <2> QED
    BY <2>1, <2>2
<1>9. step'[c] = "close" /\ old'[c] = None /\ Seen(c)' = Seen(c)
  BY <1>t, <1>1 DEF SignalTypes, Seen, SeenBy
<1>10. OldIsCurrent(c)'
  BY <1>9 DEF OldIsCurrent
<1>11. ReadsAreWhole(c)'
  <2>1. \A q \in whole[c], i \in Items :
          i \in Matches(q) /\ found[c][q][i] = None => i \in aged \cup offSince' \/ i \in Seen(c)
    BY <1>t, <1>1, <1>2 DEF ReadsAreWhole
  <2>2. \A i \in Seen(c) : record'[i] # None => found[c][record'[i].query][i] # None
    <3>1. Seen(c) \subseteq Items
      BY DEF Seen, SeenBy
    <3> QED
      BY <1>2, <1>5, <1>7, <3>1
  <2> QED
    BY <1>t, <1>1, <1>9, <2>1, <2>2 DEF ReadsAreWhole
<1> QED
  BY <1>t, <1>6, <1>8, <1>10, <1>11 DEF SignalsInv

(* The archive of signals tells the truth, for any items, texts and queries, *)
(* whatever fails, dies, is restored, scored again or deleted between two    *)
(* commits of the one collector; a restore stays out of the window between   *)
(* its first read and its transaction (signals/__init__.py, upsert).         *)
THEOREM OneCollectorKeepsHistory ==
    (\A c, d \in Collectors : c = d) /\ "write" \notin OperatorDuring
    => (SignalsSpec => []RecordsAreTrue)
<1> SUFFICES ASSUME \A c, d \in Collectors : c = d, "write" \notin OperatorDuring
             PROVE  SignalsSpec => []RecordsAreTrue
  OBVIOUS
<1>1. SignalsInit => SignalsInv
  <2> SUFFICES ASSUME SignalsInit PROVE SignalsInv
    OBVIOUS
  <2>1. SignalTypes
    BY DEF SignalsInit, SignalTypes, CollectorSteps, NothingFound
  <2>2. ArchiveIsSound
    BY DEF SignalsInit, ArchiveIsSound
  <2>3. \A c \in Collectors : OldIsCurrent(c) /\ ReadsAreWhole(c)
    BY DEF SignalsInit, OldIsCurrent, ReadsAreWhole, NothingFound
  <2> QED
    BY <2>1, <2>2, <2>3 DEF SignalsInv
<1>2. SignalsInv /\ [SignalsNext]_signalVars => SignalsInv'
  <2> SUFFICES ASSUME SignalsInv, [SignalsNext]_signalVars PROVE SignalsInv'
    OBVIOUS
  <2>1. CASE UNCHANGED signalVars
    <3>1. /\ UNCHANGED <<site, aged, rules, record, revision, step, unasked, whole, found, old, offSince, shown>>
      BY <2>1 DEF signalVars, archive, source, pass
    <3>2. SignalTypes' /\ ArchiveIsSound'
      BY <3>1 DEF SignalsInv, SignalTypes, ArchiveIsSound
    <3>3. \A c \in Collectors : OldIsCurrent(c)' /\ ReadsAreWhole(c)'
      BY <3>1, PassStands
    <3> QED
      BY <3>2, <3>3 DEF SignalsInv
  <2>2. CASE SignalsNext
    BY <2>2, WorldStep, OperatorStep, CollectorStep, UpsertStep DEF SignalsNext
  <2> QED
    BY <2>1, <2>2
<1>3. SignalsInv => RecordsAreTrue
  BY DEF SignalsInv, ArchiveIsSound, History, RecordsAreTrue, HistoryKept, ClosedWasGone
<1> QED
  BY <1>1, <1>2, <1>3, PTL DEF SignalsSpec

-----------------------------------------------------------------------------
(* The requests of the chain of sources                                    *)

(* What a source was sent today is what its row says, what died unsaved, and  *)
(* what the run at hand has not noted yet; and that run was only given what   *)
(* the row leaves.                                                           *)
Flying(s) == IF run.phase = "ask" /\ run.at = s THEN run.cost ELSE 0
RowsOfLimits ==
    /\ DOMAIN limit = Sources
    /\ \A s \in Sources :
          /\ DOMAIN limit[s] = {"until", "day", "requests"}
          /\ limit[s].day \in Nat /\ limit[s].requests \in Nat
          /\ limit[s].day <= Today /\ RequestsToday(s) <= RequestBudget
RunFields ==
    /\ DOMAIN run = DOMAIN Idle /\ run.cost \in Nat /\ run.budget \in Nat
    /\ run.phase \in {"ask", "mark", "save", "fold"} => run.at \in Sources
    /\ run.phase = "ask" =>
          run.cost <= run.budget /\ RequestsToday(run.at) + run.budget <= RequestBudget
Accounts ==
    /\ sent \in [Sources -> Nat] /\ unsaved \in [Sources -> Nat]
    /\ \A s \in Sources : sent[s] <= RequestsToday(s) + unsaved[s] + Flying(s)
ChainInv == now \in Nat /\ RowsOfLimits /\ RunFields /\ Accounts

----------------------------------------------------------------------------
LEMMA LaterDay ==
    ASSUME NEW n \in Nat
    PROVE  /\ n \div Day \in Nat /\ n \div Day <= (n + 1) \div Day
  BY SignalChainAssumption

LEMMA LeftOfBudget ==
    ASSUME RowsOfLimits, NEW s \in Sources
    PROVE  BudgetLeft(s) \in Nat /\ RequestsToday(s) + BudgetLeft(s) <= RequestBudget
<1>1. RequestsToday(s) \in Nat /\ RequestsToday(s) <= RequestBudget /\ RequestBudget \in Nat
  BY SignalChainAssumption DEF RowsOfLimits, RequestsToday
<1>2. RequestBudget - RequestsToday(s) \in Nat
  BY <1>1
<1> DEFINE spare == RequestBudget - RequestsToday(s)
<1>3. Max({0, spare}) = spare
  <2>1. spare \in {0, spare} /\ \A y \in {0, spare} : spare >= y
    BY <1>2
  <2>2. \A m \in {0, spare} : (\A y \in {0, spare} : m >= y) => m = spare
    BY <1>2
  <2> QED
    BY <2>1, <2>2 DEF Max
<1> QED
  BY <1>1, <1>2, <1>3 DEF BudgetLeft

(* Between requests the books stand, or a run is given what is left. *)
LEMMA ChainRests ==
    ASSUME ChainInv, UNCHANGED <<now, limit, sent, unsaved>>, run.phase # "ask",
           DOMAIN run' = DOMAIN Idle, run'.cost \in Nat, run'.budget \in Nat,
           run'.phase \in {"ask", "mark", "save", "fold"} => run'.at \in Sources,
           run'.phase = "ask" => run'.cost = 0 /\ run'.budget = BudgetLeft(run'.at)
    PROVE  ChainInv'
<1>1. RowsOfLimits' /\ now' \in Nat /\ \A s : RequestsToday(s)' = RequestsToday(s)
  BY DEF ChainInv, RowsOfLimits, RequestsToday, Today
<1>2. RunFields'
  <2>1. CASE run'.phase = "ask"
    <3> DEFINE t == run'.at
    <3>1. t \in Sources /\ run'.cost = 0 /\ run'.budget = BudgetLeft(t)
      BY <2>1
    <3>2. BudgetLeft(t) \in Nat /\ RequestsToday(t) + BudgetLeft(t) <= RequestBudget
      BY <3>1, LeftOfBudget DEF ChainInv
    <3>3. RequestsToday(run.at)' = RequestsToday(t)
      BY DEF RequestsToday, Today
    <3> QED
      BY <3>1, <3>2, <3>3 DEF RunFields
  <2>2. CASE run'.phase # "ask"
    BY <2>2 DEF RunFields
  <2> QED
    BY <2>1, <2>2
<1>3. \A s \in Sources : Flying(s) = 0 /\ Flying(s)' = 0
  BY DEF Flying
<1>4. Accounts'
  BY <1>1, <1>3 DEF ChainInv, Accounts
<1> QED
  BY <1>1, <1>2, <1>4 DEF ChainInv

(* A request is counted before it is answered. *)
LEMMA ChainSends ==
    ASSUME ChainInv, UNCHANGED <<now, limit, unsaved>>, CanSpend, Sends,
           DOMAIN run' = DOMAIN Idle, run'.cost = run.cost + 1, run'.budget = run.budget,
           run'.phase = "ask", run'.at = run.at
    PROVE  ChainInv'
<1>1. RowsOfLimits' /\ now' \in Nat /\ \A s : RequestsToday(s)' = RequestsToday(s)
  BY DEF ChainInv, RowsOfLimits, RequestsToday, Today
<1>2. RequestsToday(run.at)' = RequestsToday(run.at)
  BY DEF RequestsToday, Today
<1>3. RunFields'
  BY <1>2 DEF ChainInv, RunFields, CanSpend
<1>4. ASSUME NEW s \in Sources
      PROVE  sent'[s] <= RequestsToday(s) + unsaved[s] + Flying(s)'
  <2>1. /\ RequestsToday(s) \in Nat /\ unsaved[s] \in Nat /\ sent[s] \in Nat /\ run.cost \in Nat
        /\ sent[s] <= RequestsToday(s) + unsaved[s] + Flying(s)
    BY DEF ChainInv, Accounts, RowsOfLimits, RunFields, RequestsToday
  <2>2. CASE s = run.at
    BY <2>1, <2>2 DEF Flying, Sends, Source, CanSpend, ChainInv, Accounts
  <2>3. CASE s # run.at
    BY <2>1, <2>3 DEF Flying, Sends, Source, CanSpend, ChainInv, Accounts
  <2> QED
    BY <2>2, <2>3
<1>5. sent' \in [Sources -> Nat]
  <2>1. sent' = [sent EXCEPT ![run.at] = @ + 1] /\ sent \in [Sources -> Nat] /\ run.at \in Sources
    BY DEF ChainInv, RunFields, CanSpend, Accounts, Sends, Source
  <2>2. sent[run.at] + 1 \in Nat
    BY <2>1
  <2> QED
    BY <2>1, <2>2
<1> QED
  BY <1>1, <1>3, <1>4, <1>5 DEF ChainInv, Accounts

LEMMA ChainStep ==
    ASSUME ChainInv, ChainNext
    PROVE  ChainInv'
<1> USE DEF books, ghosts
<1>0. DOMAIN run = DOMAIN Idle /\ run.cost \in Nat /\ run.budget \in Nat
  BY DEF ChainInv, RunFields
<1>f. /\ {"phase", "kind", "at", "left", "attempt", "cost", "budget", "new", "rows", "failed",
          "stop", "wait", "start", "prev"} = DOMAIN Idle
      /\ Idle.phase = "idle" /\ Idle.cost = 0 /\ Idle.budget = 0
  BY DEF Idle
<1>1. CASE Begin \/ WalkEnds
  <2>1. run' = [Idle EXCEPT !.phase = "next"] \/ run' = Idle
    BY <1>1 DEF Begin, WalkEnds
  <2>2. /\ DOMAIN run' = DOMAIN Idle /\ run'.phase \in {"next", "idle"} /\ run'.cost = 0
        /\ run'.budget = 0
    BY <1>f, <2>1
  <2> QED
    BY <1>1, <2>2, ChainRests DEF Begin, WalkEnds
<1>2. CASE NextSource
  <2>1. CASE Blocked(Source)
    <3>1. run' = [Idle EXCEPT !.phase = "next", !.at = Source + 1, !.prev = "skipped"]
      BY <1>2, <2>1 DEF NextSource
    <3>2. /\ DOMAIN run' = DOMAIN Idle /\ run'.phase = "next" /\ run'.cost = 0
          /\ run'.budget = 0
      BY <1>f, <3>1
    <3> QED
      BY <1>2, <3>2, ChainRests DEF NextSource
  <2>2. CASE ~Blocked(Source)
    <3>1. Source \in Sources /\ AskSource("chain", Source)
      BY <1>2, <2>2 DEF NextSource
    <3>2. /\ DOMAIN run' = DOMAIN Idle /\ run'.phase = "ask" /\ run'.cost = 0
          /\ run'.budget = BudgetLeft(Source) /\ run'.at = Source
      BY <1>f, <3>1 DEF AskSource
    <3>3. run'.budget \in Nat
      BY <3>1, <3>2, LeftOfBudget DEF ChainInv
    <3> QED
      BY <1>2, <3>1, <3>2, <3>3, ChainRests DEF NextSource
  <2> QED
    BY <2>1, <2>2
<1>3. ASSUME NEW s \in Sources, Recover(s)
      PROVE  ChainInv'
  <2>1. CASE s \in owing
    <3>1. AskSource("recovery", s)
      BY <1>3, <2>1 DEF Recover
    <3>2. /\ DOMAIN run' = DOMAIN Idle /\ run'.phase = "ask" /\ run'.cost = 0
          /\ run'.budget = BudgetLeft(s) /\ run'.at = s
      BY <1>f, <3>1 DEF AskSource
    <3>3. run'.budget \in Nat
      BY <3>2, LeftOfBudget DEF ChainInv
    <3> QED
      BY <1>3, <3>2, <3>3, ChainRests DEF Recover
  <2>2. CASE s \notin owing
    <3>1. run' = run /\ run.phase = "idle"
      BY <1>3, <2>2 DEF Recover
    <3> QED
      BY <1>0, <1>3, <3>1, ChainRests DEF Recover
  <2> QED
    BY <2>1, <2>2
<1>4. CASE \/ \E rows, new \in BOOLEAN : Answered(rows, new)
           \/ AskedAgain \/ Raised \/ \E wait \in Waits : Limited(wait)
  <2>1. /\ CanSpend /\ Sends /\ UNCHANGED <<now, limit, unsaved>>
        /\ DOMAIN run' = DOMAIN Idle /\ run'.cost = run.cost + 1 /\ run'.budget = run.budget
        /\ run'.phase = run.phase /\ run'.at = run.at
    BY <1>0, <1>f, <1>4 DEF Answered, AskedAgain, Raised, Limited
  <2>2. run'.phase = "ask"
    BY <2>1 DEF CanSpend
  <2> QED
    BY <2>1, <2>2, ChainSends
<1>5. CASE BudgetSpent
  <2>1. /\ UNCHANGED <<now, limit, sent, unsaved>>
        /\ DOMAIN run' = DOMAIN Idle /\ run'.cost = run.cost /\ run'.budget = run.budget
        /\ run'.phase = run.phase /\ run'.at = run.at
    BY <1>0, <1>f, <1>5 DEF BudgetSpent
  <2> QED
    BY <2>1 DEF ChainInv, RowsOfLimits, RunFields, Accounts, Flying, RequestsToday, Today
<1>6. CASE RecordRequests
  <2>1. /\ run.phase = "ask" /\ run.at \in Sources /\ UNCHANGED <<now, sent, unsaved>>
        /\ DOMAIN run' = DOMAIN Idle /\ run'.cost = run.cost /\ run'.budget = run.budget
        /\ run'.phase = "mark" /\ run'.at = run.at
    BY <1>0, <1>f, <1>6 DEF RecordRequests, ChainInv, RunFields
  <2>2. /\ RequestsToday(run.at) \in Nat /\ RequestsToday(run.at) + run.cost <= RequestBudget
        /\ Today \in Nat
    BY <1>0, <2>1, LaterDay, SignalChainAssumption
       DEF ChainInv, RunFields, RowsOfLimits, RequestsToday, Today
  <2>3. CASE run.cost = 0
    <3>1. limit' = limit
      BY <1>6, <2>3 DEF RecordRequests
    <3>2. \A s \in Sources : Flying(s) = 0 /\ Flying(s)' = 0
      BY <2>1, <2>3 DEF Flying
    <3> QED
      BY <2>1, <3>1, <3>2 DEF ChainInv, RowsOfLimits, RunFields, Accounts, RequestsToday, Today
  <2>4. CASE run.cost # 0
    <3> DEFINE n == RequestsToday(run.at) + run.cost
    <3>1. limit' = [limit EXCEPT ![run.at].requests = n, ![run.at].day = Today]
      BY <1>6, <2>4 DEF RecordRequests, Source
    <3>2. /\ DOMAIN limit' = Sources
          /\ \A s \in Sources \ {run.at} : limit'[s] = limit[s]
          /\ DOMAIN limit'[run.at] = {"until", "day", "requests"}
          /\ limit'[run.at].requests = n /\ limit'[run.at].day = Today
      BY <2>1, <3>1 DEF ChainInv, RowsOfLimits
    <3>3. Today' = Today
      BY <2>1 DEF Today
    <3>4. /\ RequestsToday(run.at)' = n
          /\ \A s \in Sources \ {run.at} : RequestsToday(s)' = RequestsToday(s)
      BY <2>1, <3>2, <3>3 DEF RequestsToday
    <3>5. RowsOfLimits'
      <4> SUFFICES ASSUME NEW s \in Sources
                   PROVE  /\ DOMAIN limit'[s] = {"until", "day", "requests"}
                          /\ limit'[s].day \in Nat /\ limit'[s].requests \in Nat
                          /\ limit'[s].day <= Today /\ RequestsToday(s)' <= RequestBudget
        BY <3>2, <3>3 DEF RowsOfLimits
      <4>1. CASE s = run.at
        <5>1. RequestsToday(s)' = n
          BY <2>1, <3>2, <3>3, <4>1 DEF RequestsToday
        <5> QED
          BY <1>0, <2>2, <3>2, <4>1, <5>1
      <4>2. CASE s # run.at
        BY <3>2, <3>4, <4>2 DEF ChainInv, RowsOfLimits
      <4> QED
        BY <4>1, <4>2
    <3>6. Accounts'
      <4> SUFFICES ASSUME NEW s \in Sources
                   PROVE  sent[s] <= RequestsToday(s)' + unsaved[s] + Flying(s)'
        BY <2>1 DEF ChainInv, Accounts
      <4>1. Flying(s)' = 0 /\ sent[s] <= RequestsToday(s) + unsaved[s] + Flying(s)
        BY <2>1 DEF ChainInv, Accounts, Flying
      <4>2. CASE s = run.at
        <5>1. RequestsToday(s)' = n /\ Flying(s) = run.cost
          BY <2>1, <3>2, <3>3, <4>2 DEF RequestsToday, Flying
        <5>2. sent[s] \in Nat /\ unsaved[s] \in Nat /\ RequestsToday(s) \in Nat /\ run.cost \in Nat
          BY <1>0, <2>2, <4>2 DEF ChainInv, Accounts
        <5>3. n = RequestsToday(s) + run.cost
          BY <4>2
        <5> HIDE DEF n
        <5> QED
          BY <4>1, <5>1, <5>2, <5>3
      <4>3. CASE s # run.at
        BY <3>4, <4>1, <4>3 DEF Flying
      <4> QED
        BY <4>2, <4>3
    <3>7. RunFields'
      BY <1>0, <2>1 DEF RunFields
    <3> QED
      BY <2>1, <3>5, <3>6, <3>7 DEF ChainInv
  <2> QED
    BY <2>3, <2>4
<1>7. CASE MarkLimited
  <2>1. /\ run.phase = "mark" /\ run.at \in Sources /\ UNCHANGED <<now, sent, unsaved>>
        /\ DOMAIN run' = DOMAIN Idle /\ run'.cost = run.cost /\ run'.budget = run.budget
        /\ run'.phase = "save" /\ run'.at = run.at
    BY <1>0, <1>f, <1>7 DEF MarkLimited, ChainInv, RunFields
  <2>2. /\ DOMAIN limit' = Sources
        /\ \A s \in Sources : /\ DOMAIN limit'[s] = DOMAIN limit[s] /\ limit'[s].day = limit[s].day
                              /\ limit'[s].requests = limit[s].requests
    <3> DEFINE u == IF run.stop = "budget" THEN NextDay ELSE now + run.wait
    <3>1. limit' = limit \/ limit' = [limit EXCEPT ![run.at].until = u]
      BY <1>7 DEF MarkLimited, Source
    <3>2. DOMAIN limit = Sources /\ "until" \in DOMAIN limit[run.at]
      BY <2>1 DEF ChainInv, RowsOfLimits
    <3> HIDE DEF u
    <3>3. CASE limit' = limit
      BY <3>2, <3>3
    <3>4. CASE limit' = [limit EXCEPT ![run.at].until = u]
      BY <3>2, <3>4
    <3> QED
      BY <3>1, <3>3, <3>4
  <2> QED
    BY <1>0, <2>1, <2>2 DEF ChainInv, RowsOfLimits, RunFields, Accounts, RequestsToday, Today, Flying
<1>8. CASE SaveRun
  <2>1. /\ UNCHANGED <<now, limit, sent, unsaved>> /\ run.phase = "save"
        /\ DOMAIN run' = DOMAIN Idle /\ run'.cost = run.cost /\ run'.budget = run.budget
        /\ run'.phase = "fold" /\ run'.at = run.at
    BY <1>0, <1>f, <1>8 DEF SaveRun
  <2>2. run'.at \in Sources
    BY <2>1 DEF ChainInv, RunFields
  <2> QED
    BY <1>0, <2>1, <2>2, ChainRests
<1>9. CASE RecordSourceState
  <2>1. /\ UNCHANGED <<now, limit, sent, unsaved>> /\ run.phase = "fold"
        /\ \/ run' = Idle
           \/ \E n, why : run' = [Idle EXCEPT !.phase = "next", !.at = n, !.prev = why]
    BY <1>9 DEF RecordSourceState
  <2>2. DOMAIN run' = DOMAIN Idle /\ run'.cost = 0 /\ run'.budget = 0 /\ run'.phase \in {"idle", "next"}
    BY <1>f, <2>1
  <2>3. run.phase # "ask" /\ run'.phase # "ask" /\ run'.phase \notin {"ask", "mark", "save", "fold"}
    BY <2>1, <2>2
  <2>4. UNCHANGED <<now, limit, sent, unsaved>> /\ run'.cost \in Nat /\ run'.budget \in Nat
    <3>1. UNCHANGED <<now, limit, sent, unsaved>>
      BY <1>9 DEF RecordSourceState
    <3> QED
      BY <2>2, <3>1
  <2> QED
    BY <2>2, <2>3, <2>4, ChainRests
<1>10. CASE Killed
  <2>1. run' = Idle /\ UNCHANGED <<now, limit, sent>>
    BY <1>10 DEF Killed
  <2>2. CASE run.phase # "ask"
    <3>1. unsaved' = unsaved
      BY <1>10, <2>2 DEF Killed
    <3> QED
      BY <1>f, <2>1, <2>2, <3>1, ChainRests
  <2>3. CASE run.phase = "ask"
    <3>1. /\ unsaved' = [unsaved EXCEPT ![run.at] = @ + run.cost]
          /\ \A s \in Sources : Flying(s)' = 0
      BY <1>f, <1>10, <2>1, <2>3 DEF Killed, Source, Flying
    <3>2. \A s : RequestsToday(s)' = RequestsToday(s)
      BY <2>1 DEF RequestsToday, Today
    <3>3. RowsOfLimits' /\ RunFields'
      BY <1>f, <2>1 DEF ChainInv, RowsOfLimits, RunFields, RequestsToday, Today
    <3>4. ASSUME NEW s \in Sources
          PROVE  sent[s] <= RequestsToday(s) + unsaved'[s] + 0
      <4>1. /\ sent[s] <= RequestsToday(s) + unsaved[s] + Flying(s)
            /\ sent[s] \in Nat /\ unsaved[s] \in Nat /\ RequestsToday(s) \in Nat
        BY DEF ChainInv, Accounts, RowsOfLimits, RequestsToday
      <4>2. unsaved'[s] = unsaved[s] + Flying(s) /\ Flying(s) \in Nat
        BY <1>0, <2>3, <3>1, <4>1 DEF ChainInv, Accounts, Flying
      <4> QED
        BY <4>1, <4>2
    <3>5. unsaved' \in [Sources -> Nat]
      <4>1. unsaved \in [Sources -> Nat] /\ run.at \in Sources
        BY <2>3 DEF ChainInv, RunFields, Accounts
      <4>2. unsaved[run.at] + run.cost \in Nat
        BY <1>0, <4>1
      <4> QED
        BY <3>1, <4>1, <4>2
    <3> QED
      BY <2>1, <3>1, <3>2, <3>3, <3>4, <3>5 DEF ChainInv, Accounts
  <2> QED
    BY <2>2, <2>3
<1>11. CASE Tick
  <2>1. /\ now' = now + 1 /\ now \in Nat /\ UNCHANGED <<limit, run>> /\ now' \in Nat
    BY <1>11 DEF Tick, ChainInv
  <2>2. Today <= Today' /\ Today \in Nat /\ Today' \in Nat
    BY <2>1, LaterDay DEF Today
  <2>3. \A s \in Sources : RequestsToday(s) \in Nat
    BY DEF ChainInv, RowsOfLimits, RequestsToday
  <2>4. CASE Today' = Today
    <3>1. UNCHANGED <<sent, unsaved>>
      BY <1>11, <2>1, <2>4 DEF Tick, Today
    <3>2. \A s : RequestsToday(s)' = RequestsToday(s)
      BY <2>1, <2>4 DEF RequestsToday
    <3>3. RequestsToday(run.at)' = RequestsToday(run.at)
      BY <2>1, <2>4 DEF RequestsToday
    <3>4. RowsOfLimits'
      BY <2>1, <2>4, <3>2 DEF ChainInv, RowsOfLimits
    <3>5. RunFields'
      BY <2>1, <3>3 DEF ChainInv, RunFields
    <3>6. Accounts'
      BY <2>1, <3>1, <3>2 DEF ChainInv, Accounts, Flying
    <3> QED
      BY <2>1, <3>4, <3>5, <3>6 DEF ChainInv
  <2>5. CASE Today' # Today
    <3>1. sent' = [s \in Sources |-> 0] /\ unsaved' = [s \in Sources |-> 0]
      BY <1>11, <2>1, <2>5 DEF Tick, Today
    <3>2. \A s \in Sources : limit[s].day < Today' /\ RequestsToday(s)' = 0
      BY <2>1, <2>2, <2>5 DEF ChainInv, RowsOfLimits, RequestsToday
    <3>3. RowsOfLimits'
      BY <2>1, <2>2, <3>2, SignalChainAssumption DEF ChainInv, RowsOfLimits
    <3>4. RunFields'
      <4>1. run.phase = "ask" => RequestsToday(run.at)' = 0
        BY <2>1, <3>2 DEF ChainInv, RunFields, RequestsToday
      <4> QED
        BY <2>1, <2>3, <4>1, SignalChainAssumption DEF ChainInv, RunFields
    <3>5. Accounts'
      BY <1>0, <2>1, <3>1, <3>2 DEF Accounts, Flying
    <3> QED
      BY <2>1, <3>3, <3>4, <3>5 DEF ChainInv
  <2> QED
    BY <2>4, <2>5
<1> QED
  BY <1>1, <1>2, <1>3, <1>4, <1>5, <1>6, <1>7, <1>8, <1>9, <1>10, <1>11 DEF ChainNext

(* A source is sent no more than its daily budget, and what a killed run had   *)
(* sent unnoted, for any sources, budgets, days and retries, also by a run    *)
(* that goes on past midnight (limits.py, budget_left and record_requests).  *)
THEOREM DailyRequestsAreKept == ChainSpec => []BudgetKept
<1>1. ChainInit => ChainInv
  <2> SUFFICES ASSUME ChainInit
               PROVE  ChainInv
    OBVIOUS
  <2>1. 0 \div Day = 0
    BY SignalChainAssumption
  <2>2. Idle.phase = "idle" /\ Idle.cost = 0 /\ Idle.budget = 0
    BY DEF Idle
  <2> QED
    BY <2>1, <2>2, SignalChainAssumption
       DEF ChainInit, ChainInv, RowsOfLimits, RunFields, Accounts, RequestsToday, Today, Flying
<1>2. ChainInv /\ [ChainNext]_chainVars => ChainInv'
  <2>1. ASSUME ChainInv, UNCHANGED chainVars
        PROVE  ChainInv'
    BY <2>1 DEF chainVars, ChainInv, RowsOfLimits, RunFields, Accounts, RequestsToday, Today, Flying
  <2> QED
    BY <2>1, ChainStep
<1>3. ChainInv => BudgetKept
  <2> SUFFICES ASSUME ChainInv, NEW s \in Sources
               PROVE  sent[s] <= RequestBudget + unsaved[s]
    BY DEF BudgetKept
  <2>1. /\ sent[s] <= RequestsToday(s) + unsaved[s] + Flying(s) /\ RequestsToday(s) <= RequestBudget
        /\ sent[s] \in Nat /\ unsaved[s] \in Nat /\ RequestsToday(s) \in Nat /\ RequestBudget \in Nat
    BY SignalChainAssumption DEF ChainInv, Accounts, RowsOfLimits, RequestsToday
  <2>2. RequestsToday(s) + Flying(s) <= RequestBudget /\ Flying(s) \in Nat
    BY <2>1 DEF ChainInv, RunFields, Flying
  <2> QED
    BY <2>1, <2>2
<1> QED
  BY <1>1, <1>2, <1>3, PTL DEF ChainSpec

-----------------------------------------------------------------------------
(* The export of the signals                                               *)

(* A manifest and a file that may end up beside each other, by a write-back   *)
(* or a loss of power, are of one export.                                    *)
Beside ==
    \A m \in {dir.manifest, durable.manifest}, c \in {dir.csv, durable.csv} :
        m # NoFile /\ c # NoFile => m.of = c
Directory(d) == d = [csv |-> d.csv, manifest |-> d.manifest]
ExportInv ==
    /\ Directory(dir) /\ Directory(durable) /\ DOMAIN export = {"step", "rows"}
    /\ Beside
    /\ export.step \in {"rename", "hash", "manifest"} =>
          dir.manifest = NoFile /\ durable.manifest = NoFile
    /\ export.step = "manifest" => export.rows.of = dir.csv

(* No record leaves the table, so the copy never shows one that is not there. *)
ExportedRow == [says : Nat, seen : Nat]
LoadInv ==
    /\ writes \in Nat
    /\ table \in [Records -> ExportedRow \cup {NoFile}] /\ copy \in [Records -> ExportedRow \cup {NoFile}]
    /\ DOMAIN loader = {"step", "rows", "sent", "counted", "yes"}
    /\ loader.step = "send" => loader.rows \in [Records -> ExportedRow \cup {NoFile}]
    /\ Present(copy) \subseteq Present(table)
    /\ loader.step = "send" => Present(loader.rows) \subseteq Present(table)
    /\ loader.step = "said" => Present(copy) \subseteq Present(loader.rows)

----------------------------------------------------------------------------
LEMMA ExportInvStep ==
    ASSUME DirSyncs, ~UnlinkFails, ExportInv, ExportNext
    PROVE  ExportInv'
<1> USE DEF ExportInv, Directory
<1>1. CASE WriteRows
  BY <1>1 DEF WriteRows, files, Beside
<1>2. CASE UnlinkManifest
  <2>1. /\ dir' = [dir EXCEPT !.manifest = NoFile] /\ durable' = dir'
        /\ export' = [export EXCEPT !.step = "rename"]
    BY <1>2 DEF UnlinkManifest, Unlinks, Flushed
  <2>2. dir' = [csv |-> dir.csv, manifest |-> NoFile]
    BY <2>1
  <2>3. export'.step = "rename" /\ DOMAIN export' = {"step", "rows"}
    BY <2>1
  <2> QED
    BY <2>1, <2>2, <2>3 DEF Beside
<1>3. CASE RenameCsv
  <2>1. /\ dir' = [dir EXCEPT !.csv = export.rows] /\ durable' = dir' /\ export.step = "rename"
        /\ export' = [export EXCEPT !.step = "hash"]
    BY <1>3 DEF RenameCsv, Flushed
  <2>2. dir' = [csv |-> export.rows, manifest |-> NoFile]
    BY <2>1
  <2>3. export'.step = "hash" /\ DOMAIN export' = {"step", "rows"}
    BY <2>1
  <2> QED
    BY <2>1, <2>2, <2>3 DEF Beside
<1>4. CASE HashCsv
  <2>1. /\ export.step = "hash" /\ UNCHANGED <<dir, durable>>
        /\ export' = [step |-> "manifest",
                      rows |-> [of |-> dir.csv, reconciles |-> Present(dir.csv) = Present(table)]]
    BY <1>4 DEF HashCsv, files
  <2> QED
    BY <2>1 DEF Beside
<1>5. CASE RenameManifest
  <2>1. /\ dir' = [dir EXCEPT !.manifest = export.rows] /\ durable' = dir'
        /\ export.rows.of = dir.csv /\ export' = Resting
    BY <1>5 DEF RenameManifest, Flushed
  <2>2. dir' = [csv |-> dir.csv, manifest |-> export.rows]
    BY <2>1
  <2> QED
    BY <2>1, <2>2 DEF Beside, Resting
<1>6. CASE ExportRaises
  <2>1. /\ dir' = [dir EXCEPT !.csv = NoFile] /\ durable' = durable
        /\ export' = [Resting EXCEPT !.step = "undo"]
    BY <1>6 DEF ExportRaises, Unlinks
  <2>2. dir' = [csv |-> NoFile, manifest |-> dir.manifest]
    BY <2>1
  <2>3. export' = [step |-> "undo", rows |-> NoFile]
    BY <2>1 DEF Resting
  <2> QED
    BY <2>1, <2>2, <2>3 DEF Beside
<1>7. CASE UndoManifest
  <2>1. dir' = [dir EXCEPT !.manifest = NoFile] /\ durable' = durable /\ export' = Resting
    BY <1>7 DEF UndoManifest, Unlinks
  <2>2. dir' = [csv |-> dir.csv, manifest |-> NoFile]
    BY <2>1
  <2> QED
    BY <2>1, <2>2 DEF Beside, Resting
<1>8. CASE ExporterKilled
  BY <1>8 DEF ExporterKilled, Resting, files, Beside
<1>9. ASSUME NEW name \in DOMAIN Empty, WriteBack(name)
      PROVE  ExportInv'
  <2>1. name \in {"csv", "manifest"} /\ UNCHANGED <<dir, export>>
    BY <1>9 DEF Empty, WriteBack
  <2>2. \/ durable' = [csv |-> dir.csv, manifest |-> durable.manifest]
        \/ durable' = [csv |-> durable.csv, manifest |-> dir.manifest]
    BY <1>9, <2>1 DEF WriteBack
  <2> QED
    BY <2>1, <2>2 DEF Beside
<1>10. CASE PowerLost
  BY <1>10 DEF PowerLost, Resting, Beside
<1>11. CASE UNCHANGED <<files, export>>
  BY <1>11 DEF files, Beside
<1> QED
  BY <1>1, <1>2, <1>3, <1>4, <1>5, <1>6, <1>7, <1>8, <1>9, <1>10, <1>11
     DEF ExportNext, Write, StartLoad, CountTable, Reconcile, LoadEnds, SendRow

LEMMA LoadInvStep ==
    ASSUME ~Retires, LoadInv, ExportNext
    PROVE  LoadInv'
<1> USE DEF LoadInv, Present
<1>1. ASSUME NEW r \in Records, NEW seen \in 0..WriteBound, NEW removed \in BOOLEAN,
             Write(r, seen, removed)
      PROVE  LoadInv'
  <2> DEFINE row == [says |-> writes, seen |-> seen]
  <2>1. row \in ExportedRow /\ row # NoFile
    BY SignalExportAssumption DEF ExportedRow
  <2>2. table' = [table EXCEPT ![r] = row] /\ UNCHANGED <<copy, loader>> /\ writes' = writes + 1
    BY <1>1 DEF Write
  <2> HIDE DEF row
  <2>3. Present(table) \subseteq Present(table')
    BY <2>1, <2>2
  <2> QED
    BY <2>1, <2>2, <2>3
<1>2. CASE StartLoad
  <2>1. /\ loader' = [step |-> "send", rows |-> table, sent |-> {}, counted |-> 0, yes |-> FALSE]
        /\ UNCHANGED <<table, copy, writes>>
    BY <1>2 DEF StartLoad, Away
  <2> QED
    BY <2>1
<1>3. ASSUME NEW r \in Records, SendRow(r)
      PROVE  LoadInv'
  <2>1. /\ loader.step = "send" /\ r \in Present(loader.rows) /\ UNCHANGED <<table, writes>>
        /\ \/ copy' = [copy EXCEPT ![r] = copy[r]]
           \/ copy' = [copy EXCEPT ![r] = loader.rows[r]]
        /\ loader' = [loader EXCEPT !.sent = @ \cup {r}]
    BY <1>3 DEF SendRow
  <2>2. /\ loader'.step = "send" /\ loader'.rows = loader.rows
        /\ DOMAIN loader' = {"step", "rows", "sent", "counted", "yes"}
    BY <2>1
  <2>3. /\ copy' \in [Records -> ExportedRow \cup {NoFile}]
        /\ Present(copy') \subseteq Present(copy) \cup {r}
    BY <2>1
  <2> QED
    BY <2>1, <2>2, <2>3
<1>4. CASE CountTable
  <2>1. /\ loader'.step = "count" /\ DOMAIN loader' = {"step", "rows", "sent", "counted", "yes"}
        /\ UNCHANGED <<table, copy, writes>>
    BY <1>4 DEF CountTable, Away
  <2> QED
    BY <2>1
<1>5. CASE Reconcile
  <2>1. /\ loader'.step = "said" /\ loader'.rows = table
        /\ DOMAIN loader' = {"step", "rows", "sent", "counted", "yes"}
        /\ UNCHANGED <<table, copy, writes>>
    BY <1>5 DEF Reconcile, Away
  <2> QED
    BY <2>1
<1>6. CASE LoadEnds \/ PowerLost
  <2>1. loader' = Away /\ UNCHANGED <<table, copy, writes>>
    BY <1>6 DEF LoadEnds, PowerLost
  <2> QED
    BY <2>1 DEF Away
<1>7. CASE UNCHANGED <<table, copy, loader, writes>>
  BY <1>7
<1> QED
  BY <1>1, <1>2, <1>3, <1>4, <1>5, <1>6, <1>7
     DEF ExportNext, WriteRows, UnlinkManifest, RenameCsv, HashCsv, RenameManifest, ExportRaises,
         UndoManifest, ExporterKilled, WriteBack

(* Where directories can be flushed and files unlinked, a manifest beside a    *)
(* CSV is of that CSV, wherever an export is killed or power is lost          *)
(* (export_csv).                                                             *)
THEOREM ManifestAlwaysVouches == DirSyncs /\ ~UnlinkFails => (ExportSpec => []ManifestVouches)
<1> SUFFICES ASSUME DirSyncs, ~UnlinkFails
             PROVE  ExportSpec => []ManifestVouches
  OBVIOUS
<1>1. ExportInit => ExportInv
  BY DEF ExportInit, ExportInv, Directory, Beside, Empty, Resting
<1>2. ExportInv /\ [ExportNext]_exportVars => ExportInv'
  <2>1. ASSUME ExportInv, UNCHANGED exportVars
        PROVE  ExportInv'
    BY <2>1 DEF exportVars, ExportInv, Directory, Beside
  <2> QED
    BY <2>1, ExportInvStep
<1>3. ExportInv => ManifestVouches
  BY DEF ExportInv, Beside, ManifestVouches, Vouches
<1> QED
  BY <1>1, <1>2, <1>3, PTL DEF ExportSpec

(* While retention is paused, a reconciliation that says yes has counted no    *)
(* record that SQLite lacks, and the manifest vouches for its CSV: what       *)
(* leaves the archive is what is said of it.                                 *)
THEOREM WhatLeavesIsVouched ==
    DirSyncs /\ ~UnlinkFails /\ ~Retires => (ExportSpec => []VouchedIsTrue)
<1> SUFFICES ASSUME DirSyncs, ~UnlinkFails, ~Retires
             PROVE  ExportSpec => []VouchedIsTrue
  OBVIOUS
<1>1. ExportInit => LoadInv
  BY DEF ExportInit, LoadInv, Present, NoRecords, Away
<1>2. LoadInv /\ [ExportNext]_exportVars => LoadInv'
  <2>1. ASSUME LoadInv, UNCHANGED exportVars
        PROVE  LoadInv'
    BY <2>1 DEF exportVars, LoadInv, Present
  <2> QED
    BY <2>1, LoadInvStep
<1>3. LoadInv /\ ManifestVouches => VouchedIsTrue
  BY DEF LoadInv, VouchedIsTrue, ReconciledIsSame
<1>4. ExportSpec => []ManifestVouches
  BY ManifestAlwaysVouches
<1> QED
  BY <1>1, <1>2, <1>3, <1>4, PTL DEF ExportSpec

-----------------------------------------------------------------------------
(* The leads: nobody is handed what somebody has                           *)

LeadRow == [says : Says, outcome : Stages, gone : BOOLEAN, unseen : BOOLEAN]
Batches == [LeadPosts -> Says \cup {NoLead}]
ScorerPlaces == {"idle", "boards", "rooms", "peek-boards", "peek-rooms", "write-boards",
                 "write-rooms", "closing", "hand"}

LeadShapes ==
    /\ stored \in Seq([post : RoomPosts, says : Says])
    /\ board \in [BoardPosts -> Says \cup {NoLead}]
    /\ lead \in [LeadPosts -> LeadRow \cup {NoLead}]
    /\ scorer \in [Scorers -> [at : ScorerPlaces, batch : Batches,
                               first : LeadPosts \cup {NoLead}, was : BOOLEAN]]
    /\ marking \in [People -> [post : LeadPosts, outcome : Stages] \cup {Nobody}]
    /\ said \in [LeadPosts -> Stages]
    /\ opened \subseteq Writers /\ DOMAIN sheet = Writers

\* A row says what its person last wrote.
OutcomesSaid == \A x \in LeadPosts : lead[x] # NoLead => lead[x].outcome = said[x]

\* What was gathered and is not in a file yet is as true as what is.
GatheredTrue ==
    /\ \A w \in Writers : sheet[w] = Unread \/ HandedTrue(sheet[w])
    /\ \A w \in opened : sheet[w] # Unread
    /\ listed = Unread \/ PageTrue(listed)

LeadsInv == LeadShapes /\ OutcomesSaid /\ GatheredTrue /\ HandedOnce

LEMMA GreatestOfSome ==
    ASSUME NEW n \in Nat, NEW T \in SUBSET (1..n), T # {}
    PROVE  \E i \in T : \A j \in T : j <= i
<1> DEFINE R == {n - i : i \in T}
<1>0. \A i \in T : n - i \in Nat
  OBVIOUS
<1>1. R \subseteq Nat /\ R # {}
  BY <1>0
<1>2. \E m \in R : \A k \in R : ~(<<k, m>> \in OpToRel(<, Nat))
  BY <1>1, WFMin, NatLessThanWellFounded
<1>3. PICK i \in T : \A k \in R : ~(<<k, n - i>> \in OpToRel(<, Nat))
  BY <1>2
<1>4. \A j \in T : n - j \in R /\ n - j \in Nat /\ n - i \in Nat
  BY <1>1
<1>5. \A j \in T : ~(n - j < n - i)
  BY <1>3, <1>4 DEF OpToRel
<1>6. \A j \in T : j \in 1..n
  OBVIOUS
<1> QED
  BY <1>5, <1>6

\* A room's post scores as its newest copy, or is not kept.
LEMMA NewestIsSaid ==
    ASSUME LeadShapes, NEW x \in LeadPosts
    PROVE  Newest(x) \in Says \cup {NoLead}
<1>1. CASE Copies(x) = {}
  BY <1>1 DEF Newest
<1>2. CASE Copies(x) # {}
  <2>1. Len(stored) \in Nat /\ Copies(x) \in SUBSET (1..Len(stored))
    BY DEF Copies, LeadShapes
  <2>2. \E i \in Copies(x) : \A j \in Copies(x) : j <= i
    BY <1>2, <2>1, GreatestOfSome
  <2> DEFINE i == CHOOSE k \in Copies(x) : \A j \in Copies(x) : j <= k
  <2>3. i \in Copies(x)
    BY <2>2
  <2>4. stored[i].says \in Says
    <3> HIDE DEF i
    <3>1. i \in 1..Len(stored) /\ stored \in Seq([post : RoomPosts, says : Says])
      BY <2>1, <2>3 DEF LeadShapes
    <3>2. stored[i] \in [post : RoomPosts, says : Says]
      BY <3>1, ElementOfSeq
    <3> QED
      BY <3>2
  <2>5. Newest(x) = KeptOf(stored[i].says)
    BY <1>2 DEF Newest
  <2> HIDE DEF i
  <2> QED
    BY <2>4, <2>5 DEF KeptOf
<1> QED
  BY <1>1, <1>2

LEMMA GatheredIsTrue ==
    ASSUME LeadShapes, OutcomesSaid, NEW worked \in BOOLEAN
    PROVE  HandedTrue(Gathered(worked))
<1> SUFFICES ASSUME NEW r \in Gathered(worked)
             PROVE  r.outcome = r.said /\ (r.asked \/ Workable(r.said))
  BY DEF HandedTrue
<1>1. PICK x \in LeadPosts \ past : /\ Wanted(x, worked)
                                    /\ r = [post |-> x, outcome |-> lead[x].outcome, said |-> said[x],
                                            asked |-> worked]
  BY DEF Gathered
<1>2. lead[x] # NoLead /\ (worked \/ Workable(lead[x].outcome))
  BY <1>1 DEF Wanted, IsBuyer
<1>3. lead[x].outcome = said[x]
  BY <1>2 DEF OutcomesSaid
<1>4. r.outcome = lead[x].outcome /\ r.said = said[x] /\ r.asked = worked
  BY <1>1
<1> QED
  BY <1>2, <1>3, <1>4

\* The row of a company is as true as the rows of its adverts.
LEMMA CompanyIsTrue ==
    ASSUME NEW c, NEW rows, PageTrue(rows)
    PROVE  CompanyRow(c, rows).outcome = CompanyRow(c, rows).said
<1> DEFINE mine == {r \in rows : CompanyOf[r.post] = c}
<1>1. {r.outcome : r \in mine} = {r.said : r \in mine}
  BY DEF PageTrue
<1> QED
  BY <1>1 DEF CompanyRow

LEMMA ShapesGoOn ==
    ASSUME LeadsInv, [LeadsNext]_leadVars
    PROVE  LeadShapes'
<1>t. LeadShapes
  BY DEF LeadsInv
<1> USE LeadsAssumption, WrittenAssumption
<1>0. AtRest \in [at : ScorerPlaces, batch : Batches, first : LeadPosts \cup {NoLead}, was : BOOLEAN]
  BY DEF AtRest, ScorerPlaces, Batches
<1>a. \A a \in ScorerPlaces : [AtRest EXCEPT !.at = a] \in
            [at : ScorerPlaces, batch : Batches, first : LeadPosts \cup {NoLead}, was : BOOLEAN]
  BY <1>0
<1>1. CASE UNCHANGED leadVars
  BY <1>t, <1>1 DEF leadVars, leadFiles, LeadShapes
<1>2. ASSUME NEW x \in RoomPosts, NEW t \in Says, StorePost(x, t)
      PROVE  LeadShapes'
  <2>1. [post |-> x, says |-> t] \in [post : RoomPosts, says : Says]
    OBVIOUS
  <2>2. stored' \in Seq([post : RoomPosts, says : Says])
    BY <1>t, <1>2, <2>1 DEF StorePost, LeadShapes
  <2> QED
    BY <1>t, <1>2, <2>2 DEF StorePost, leadFiles, LeadShapes
<1>3. ASSUME NEW x \in BoardPosts, NEW t \in Says \cup {NoLead}, PostAdvert(x, t)
      PROVE  LeadShapes'
  BY <1>t, <1>3 DEF PostAdvert, leadFiles, LeadShapes
<1>4. ASSUME NEW x \in LeadPosts, GrowsOld(x)
      PROVE  LeadShapes'
  BY <1>t, <1>4 DEF GrowsOld, leadFiles, LeadShapes
<1>5. CASE GoUnseen
  <2>1. \A x \in LeadPosts : lead[x] # NoLead => [lead[x] EXCEPT !.unseen = TRUE] \in LeadRow
    BY <1>t DEF LeadShapes, LeadRow
  <2>2. lead' \in [LeadPosts -> LeadRow \cup {NoLead}]
    BY <1>5, <2>1 DEF GoUnseen
  <2> QED
    BY <1>t, <1>5, <2>2 DEF GoUnseen, leadFiles, LeadShapes
<1>6. ASSUME NEW s \in Scorers, StartScorer(s)
      PROVE  LeadShapes'
  BY <1>t, <1>6, <1>a DEF StartScorer, Goes, leadFiles, LeadShapes, ScorerPlaces
<1>7. ASSUME NEW s \in Scorers, NEW X \in SUBSET BoardPosts, CollectBoards(s, X)
      PROVE  LeadShapes'
  <2> DEFINE b == [x \in LeadPosts |-> IF x \in X THEN board[x] ELSE NoLead]
  <2>1. b \in Batches
    BY <1>t DEF LeadShapes, Batches
  <2>2. scorer' = [scorer EXCEPT ![s] = [scorer[s] EXCEPT !.at = "peek-boards", !.batch = b]]
    BY <1>7 DEF CollectBoards, Goes
  <2> HIDE DEF b
  <2> QED
    BY <1>t, <1>7, <2>1, <2>2 DEF CollectBoards, leadFiles, LeadShapes, ScorerPlaces
<1>8. ASSUME NEW s \in Scorers, ScoreRooms(s)
      PROVE  LeadShapes'
  <2> DEFINE b == [x \in LeadPosts |-> IF x \in RoomPosts THEN Newest(x) ELSE NoLead]
  <2>1. b \in Batches
    BY <1>t, NewestIsSaid DEF Batches
  <2>2. scorer' = [scorer EXCEPT ![s] = [scorer[s] EXCEPT !.at = "peek-rooms", !.batch = b]]
    BY <1>8 DEF ScoreRooms, Goes
  <2> HIDE DEF b
  <2> QED
    BY <1>t, <1>8, <2>1, <2>2 DEF ScoreRooms, leadFiles, LeadShapes, ScorerPlaces
<1>9. ASSUME NEW s \in Scorers, PeekLead(s)
      PROVE  LeadShapes'
  <2>1. AfterWrite(scorer[s].at) \in ScorerPlaces
    BY DEF AfterWrite, ScorerPlaces
  <2>2. ASSUME NEW x \in LeadPosts,
               Goes(s, [scorer[s] EXCEPT !.at = AfterWrite(@), !.first = x, !.was = lead[x] # NoLead])
        PROVE  scorer' \in [Scorers -> [at : ScorerPlaces, batch : Batches,
                                        first : LeadPosts \cup {NoLead}, was : BOOLEAN]]
    <3> DEFINE before == scorer[s]
               after == [before EXCEPT !.at = AfterWrite(before.at), !.first = x, !.was = lead[x] # NoLead]
    <3>1. before \in [at : ScorerPlaces, batch : Batches, first : LeadPosts \cup {NoLead}, was : BOOLEAN]
      BY <1>t DEF LeadShapes
    <3>2. scorer' = [scorer EXCEPT ![s] = after]
      BY <2>2 DEF Goes
    <3>3. after \in [at : ScorerPlaces, batch : Batches, first : LeadPosts \cup {NoLead}, was : BOOLEAN]
      <4> HIDE DEF before
      <4>1. (lead[x] # NoLead) \in BOOLEAN
        OBVIOUS
      <4> DEFINE was == lead[x] # NoLead
      <4>2. was \in BOOLEAN
        OBVIOUS
      <4> HIDE DEF was
      <4>3. [before EXCEPT !.at = AfterWrite(before.at), !.first = x, !.was = was] \in
                [at : ScorerPlaces, batch : Batches, first : LeadPosts \cup {NoLead}, was : BOOLEAN]
        BY <2>1, <3>1, <4>2 DEF before
      <4> QED
        BY <4>3 DEF was
    <3> HIDE DEF after
    <3> QED
      BY <1>t, <3>2, <3>3 DEF LeadShapes
  <2>3. ASSUME Goes(s, [scorer[s] EXCEPT !.at = AfterWrite(@)])
        PROVE  scorer' \in [Scorers -> [at : ScorerPlaces, batch : Batches,
                                        first : LeadPosts \cup {NoLead}, was : BOOLEAN]]
    BY <1>t, <2>1, <2>3 DEF Goes, LeadShapes
  <2>4. ToWrite(s) \subseteq LeadPosts
    BY DEF ToWrite
  <2> QED
    BY <1>t, <1>9, <2>2, <2>3, <2>4 DEF PeekLead, leadFiles, LeadShapes
<1>10. ASSUME NEW s \in Scorers, WriteLeads(s)
       PROVE  LeadShapes'
  <2> DEFINE inserted == {x \in ToWrite(s) : ~RowExists(s, x)}
             refreshed == {x \in ToWrite(s) : RowExists(s, x) /\ lead[x] # NoLead}
  <2>1. \A x \in ToWrite(s) : x \in LeadPosts /\ scorer[s].batch[x] \in Says
    BY <1>t DEF ToWrite, LeadShapes, Batches
  <2>2. \A x \in inserted : FreshLead(scorer[s].batch[x]) \in LeadRow
    BY <2>1 DEF FreshLead, LeadRow, Untouched, Stages
  <2>3. \A x \in refreshed : [lead[x] EXCEPT !.says = scorer[s].batch[x], !.gone = FALSE, !.unseen = FALSE]
                                 \in LeadRow
    <3> SUFFICES ASSUME NEW x \in refreshed
                 PROVE  [lead[x] EXCEPT !.says = scorer[s].batch[x], !.gone = FALSE, !.unseen = FALSE]
                            \in LeadRow
      OBVIOUS
    <3>1. lead[x] \in LeadRow /\ scorer[s].batch[x] \in Says
      BY <1>t, <2>1 DEF LeadShapes, ToWrite
    <3> HIDE DEF refreshed
    <3> QED
      BY <3>1 DEF LeadRow
  <2>4. lead' = [x \in LeadPosts |->
                  IF x \in inserted THEN FreshLead(scorer[s].batch[x])
                  ELSE IF x \in refreshed
                    THEN [lead[x] EXCEPT !.says = scorer[s].batch[x], !.gone = FALSE, !.unseen = FALSE]
                  ELSE lead[x]]
    BY <1>10 DEF WriteLeads
  <2>5. said' = [x \in LeadPosts |-> IF x \in inserted /\ lead[x] = NoLead THEN Untouched ELSE said[x]]
    BY <1>10 DEF WriteLeads
  <2> HIDE DEF inserted, refreshed
  <2>6. lead' \in [LeadPosts -> LeadRow \cup {NoLead}]
    BY <1>t, <2>2, <2>3, <2>4 DEF LeadShapes
  <2>7. said' \in [LeadPosts -> Stages]
    BY <1>t, <2>5 DEF LeadShapes, Untouched, Stages
  <2>8. scorer' \in [Scorers -> [at : ScorerPlaces, batch : Batches,
                                 first : LeadPosts \cup {NoLead}, was : BOOLEAN]]
    <3>1. CASE scorer[s].at = "write-boards"
      BY <1>t, <1>10, <3>1 DEF WriteLeads, Goes, LeadShapes, ScorerPlaces
    <3>2. CASE scorer[s].at # "write-boards"
      BY <1>t, <1>10, <1>a, <3>2 DEF WriteLeads, Goes, LeadShapes, ScorerPlaces
    <3> QED
      BY <3>1, <3>2
  <2> QED
    BY <1>t, <1>10, <2>6, <2>7, <2>8 DEF WriteLeads, leadFiles, LeadShapes
<1>11. ASSUME NEW s \in Scorers, NEW X \in SUBSET BoardPosts, CloseAdverts(s, X)
       PROVE  LeadShapes'
  <2>0. \A x \in X : x \in LeadPosts /\ lead[x] \in LeadRow
    BY <1>t, <1>11 DEF CloseAdverts, LeadShapes, LeadPosts
  <2>1. \A x \in X : x \in LeadPosts /\ [lead[x] EXCEPT !.gone = TRUE] \in LeadRow
    BY <2>0 DEF LeadRow
  <2>2. lead' \in [LeadPosts -> LeadRow \cup {NoLead}]
    BY <1>t, <1>11, <2>1 DEF CloseAdverts, LeadShapes
  <2> QED
    BY <1>t, <1>11, <1>a, <2>2 DEF CloseAdverts, Goes, leadFiles, LeadShapes, ScorerPlaces
<1>12. ASSUME NEW s \in Scorers, ScorerDies(s)
       PROVE  LeadShapes'
  BY <1>t, <1>12, <1>0 DEF ScorerDies, Goes, leadFiles, LeadShapes
<1>13. ASSUME NEW h \in People, NEW x \in LeadPosts, NEW o \in Written, FindLead(h, x, o)
       PROVE  LeadShapes'
  <2>1. [post |-> x, outcome |-> o] \in [post : LeadPosts, outcome : Stages]
    OBVIOUS
  <2> QED
    BY <1>t, <1>13, <2>1 DEF FindLead, leadFiles, LeadShapes
<1>14. ASSUME NEW h \in People, SaveOutcome(h)
       PROVE  LeadShapes'
  <2> DEFINE x == marking[h].post
             o == marking[h].outcome
  <2>1. x \in LeadPosts /\ o \in Stages
    BY <1>t, <1>14 DEF SaveOutcome, LeadShapes
  <2>2. lead[x] # NoLead => [lead[x] EXCEPT !.outcome = o] \in LeadRow
    BY <1>t, <2>1 DEF LeadShapes, LeadRow
  <2> DEFINE row == [lead[x] EXCEPT !.outcome = o]
  <2>3. \/ UNCHANGED <<lead, said>>
        \/ lead[x] # NoLead /\ lead' = [lead EXCEPT ![x] = row] /\ said' = [said EXCEPT ![x] = o]
    BY <1>14 DEF SaveOutcome
  <2>4. marking' = [marking EXCEPT ![h] = Nobody]
    BY <1>14 DEF SaveOutcome
  <2> HIDE DEF x, o, row
  <2>5. lead' \in [LeadPosts -> LeadRow \cup {NoLead}] /\ said' \in [LeadPosts -> Stages]
    <3>1. lead \in [LeadPosts -> LeadRow \cup {NoLead}] /\ said \in [LeadPosts -> Stages]
      BY <1>t DEF LeadShapes
    <3>2. lead[x] # NoLead => row \in LeadRow
      BY <2>2 DEF row
    <3> QED
      BY <2>1, <2>3, <3>1, <3>2
  <2> QED
    BY <1>t, <1>14, <2>4, <2>5 DEF SaveOutcome, leadFiles, LeadShapes
<1>15. CASE RetainLeads
  BY <1>t, <1>15 DEF RetainLeads, leadFiles, LeadShapes
<1>16. ASSUME NEW w \in Writers, NEW worked \in BOOLEAN, GatherLeads(w, worked)
       PROVE  LeadShapes'
  BY <1>t, <1>16 DEF GatherLeads, leadFiles, LeadShapes
<1>17. ASSUME NEW w \in Writers, OpenSheet(w)
       PROVE  LeadShapes'
  BY <1>t, <1>17 DEF OpenSheet, leadFiles, LeadShapes
<1>18. ASSUME NEW w \in opened, NEW rows \in SUBSET (sheet[w] \cup leadsCsv), WriteSheet(w, rows)
       PROVE  LeadShapes'
  <2>1. scorer' \in [Scorers -> [at : ScorerPlaces, batch : Batches,
                                 first : LeadPosts \cup {NoLead}, was : BOOLEAN]]
    BY <1>t, <1>18, <1>0 DEF WriteSheet, Goes, LeadShapes
  <2> QED
    BY <1>t, <1>18, <2>1 DEF WriteSheet, LeadShapes
<1>19. CASE ReadBrief
  BY <1>t, <1>19 DEF ReadBrief, LeadShapes
<1>20. CASE WriteBrief
  BY <1>t, <1>20 DEF WriteBrief, LeadShapes
<1> QED
  BY <1>1, <1>2, <1>3, <1>4, <1>5, <1>6, <1>7, <1>8, <1>9, <1>10, <1>11, <1>12, <1>13, <1>14, <1>15,
     <1>16, <1>17, <1>18, <1>19, <1>20 DEF LeadsNext

\* No refresh takes away what a person wrote.
LEMMA OutcomesStay ==
    ASSUME LeadsInv, [LeadsNext]_leadVars
    PROVE  OutcomesSaid'
<1>t. LeadShapes /\ OutcomesSaid
  BY DEF LeadsInv
<1> USE LeadsAssumption
<1>1. CASE UNCHANGED <<lead, said>>
  BY <1>t, <1>1 DEF OutcomesSaid
<1>2. CASE GoUnseen
  <2>1. /\ lead' = [x \in LeadPosts |-> IF lead[x] = NoLead THEN NoLead
                                        ELSE [lead[x] EXCEPT !.unseen = TRUE]]
        /\ said' = said
    BY <1>2 DEF GoUnseen
  <2>2. \A x \in LeadPosts : lead'[x] # NoLead => lead[x] # NoLead /\ lead'[x].outcome = lead[x].outcome
    BY <1>t, <2>1 DEF LeadShapes, LeadRow
  <2> QED
    BY <1>t, <2>1, <2>2 DEF OutcomesSaid
<1>3. ASSUME NEW s \in Scorers, WriteLeads(s)
      PROVE  OutcomesSaid'
  <2> DEFINE inserted == {x \in ToWrite(s) : ~RowExists(s, x)}
             refreshed == {x \in ToWrite(s) : RowExists(s, x) /\ lead[x] # NoLead}
  <2>1. lead' = [x \in LeadPosts |->
                  IF x \in inserted THEN FreshLead(scorer[s].batch[x])
                  ELSE IF x \in refreshed
                    THEN [lead[x] EXCEPT !.says = scorer[s].batch[x], !.gone = FALSE, !.unseen = FALSE]
                  ELSE lead[x]]
    BY <1>3 DEF WriteLeads
  <2>2. said' = [x \in LeadPosts |-> IF x \in inserted /\ lead[x] = NoLead THEN Untouched ELSE said[x]]
    BY <1>3 DEF WriteLeads
  <2>3. \A x \in inserted : x \in LeadPosts /\ lead[x] = NoLead
    BY <1>t, <1>3 DEF ToWrite, RowExists, WriteLeads, InsertClashes, LeadShapes
  <2>4. \A x \in refreshed : x \in LeadPosts /\ lead[x] # NoLead /\ x \notin inserted
    BY DEF ToWrite
  <2> HIDE DEF inserted, refreshed
  <2>5. \A x \in inserted : lead'[x].outcome = Untouched /\ said'[x] = Untouched
    BY <2>1, <2>2, <2>3 DEF FreshLead
  <2>6. \A x \in refreshed : lead'[x].outcome = lead[x].outcome /\ said'[x] = said[x]
    <3> SUFFICES ASSUME NEW x \in refreshed
                 PROVE  lead'[x].outcome = lead[x].outcome /\ said'[x] = said[x]
      OBVIOUS
    <3>1. lead[x] \in LeadRow /\ x \in LeadPosts
      BY <1>t, <2>4 DEF LeadShapes
    <3>2. lead'[x] = [lead[x] EXCEPT !.says = scorer[s].batch[x], !.gone = FALSE, !.unseen = FALSE]
      BY <2>1, <2>4
    <3> QED
      BY <2>2, <2>4, <3>1, <3>2 DEF LeadRow
  <2>7. \A x \in LeadPosts \ (inserted \cup refreshed) : lead'[x] = lead[x] /\ said'[x] = said[x]
    BY <2>1, <2>2
  <2> QED
    BY <1>t, <2>4, <2>5, <2>6, <2>7 DEF OutcomesSaid
<1>4. ASSUME NEW s \in Scorers, NEW X \in SUBSET BoardPosts, CloseAdverts(s, X)
      PROVE  OutcomesSaid'
  <2>1. /\ lead' = [x \in LeadPosts |-> IF x \in X THEN [lead[x] EXCEPT !.gone = TRUE] ELSE lead[x]]
        /\ said' = said /\ \A x \in X : lead[x] # NoLead
    BY <1>4 DEF CloseAdverts
  <2>2. \A x \in LeadPosts : lead'[x] # NoLead => lead[x] # NoLead /\ lead'[x].outcome = lead[x].outcome
    BY <1>t, <2>1 DEF LeadShapes, LeadRow
  <2> QED
    BY <1>t, <2>1, <2>2 DEF OutcomesSaid
<1>5. ASSUME NEW h \in People, SaveOutcome(h)
      PROVE  OutcomesSaid'
  <2> DEFINE x == marking[h].post
             o == marking[h].outcome
  <2>1. x \in LeadPosts
    BY <1>t, <1>5 DEF SaveOutcome, LeadShapes
  <2>2. \/ UNCHANGED <<lead, said>>
        \/ /\ lead[x] # NoLead /\ lead' = [lead EXCEPT ![x] = [lead[x] EXCEPT !.outcome = o]]
           /\ said' = [said EXCEPT ![x] = o]
    BY <1>5 DEF SaveOutcome
  <2> HIDE DEF x, o
  <2>3. lead[x] # NoLead => [lead[x] EXCEPT !.outcome = o].outcome = o
    BY <1>t, <2>1 DEF LeadShapes, LeadRow
  <2> QED
    BY <1>t, <2>1, <2>2, <2>3 DEF OutcomesSaid, LeadShapes
<1>6. CASE RetainLeads
  BY <1>t, <1>6 DEF RetainLeads, OutcomesSaid
<1> QED
  BY <1>1, <1>2, <1>3, <1>4, <1>5, <1>6 DEF LeadsNext, leadVars, StorePost, PostAdvert, GrowsOld,
     StartScorer, CollectBoards, ScoreRooms, PeekLead, ScorerDies, FindLead, GatherLeads, OpenSheet,
     WriteSheet, ReadBrief, WriteBrief

\* What is handed over is what the rows said when they were read.
LEMMA FilesStayTrue ==
    ASSUME LeadsInv, [LeadsNext]_leadVars
    PROVE  GatheredTrue' /\ HandedOnce'
<1>t. LeadShapes /\ OutcomesSaid /\ GatheredTrue /\ HandedTrue(leadsCsv) /\ PageTrue(brief)
  BY DEF LeadsInv, HandedOnce
<1>1. CASE UNCHANGED leadFiles
  BY <1>t, <1>1 DEF leadFiles, GatheredTrue, HandedOnce, HandedTrue, PageTrue, Workable
<1>2. ASSUME NEW w \in Writers, NEW worked \in BOOLEAN, GatherLeads(w, worked)
      PROVE  GatheredTrue' /\ HandedOnce'
  <2>1. /\ sheet[w] = Unread /\ sheet' = [sheet EXCEPT ![w] = Gathered(worked)]
        /\ opened' = opened /\ leadsCsv' = leadsCsv /\ listed' = listed /\ brief' = brief
    BY <1>2 DEF GatherLeads
  <2>2. HandedTrue(Gathered(worked))
    BY <1>t, GatheredIsTrue
  <2>3. \A v \in Writers : sheet'[v] = IF v = w THEN Gathered(worked) ELSE sheet[v]
    BY <1>t, <2>1 DEF LeadShapes
  <2>4. \A v \in opened : v \in Writers /\ v # w
    BY <1>t, <2>1 DEF LeadShapes, GatheredTrue
  <2>5. \A v \in Writers : sheet'[v] = Unread \/ HandedTrue(sheet'[v])
    BY <1>t, <2>2, <2>3 DEF GatheredTrue
  <2>6. \A v \in opened' : sheet'[v] # Unread
    BY <1>t, <2>1, <2>3, <2>4 DEF GatheredTrue
  <2> QED
    BY <1>t, <2>1, <2>5, <2>6 DEF GatheredTrue, HandedOnce, HandedTrue, PageTrue, Workable
<1>3. ASSUME NEW w \in Writers, OpenSheet(w)
      PROVE  GatheredTrue' /\ HandedOnce'
  BY <1>t, <1>3 DEF OpenSheet, GatheredTrue, HandedOnce, HandedTrue, PageTrue, Workable
<1>4. ASSUME NEW w \in opened, NEW rows \in SUBSET (sheet[w] \cup leadsCsv), WriteSheet(w, rows)
      PROVE  GatheredTrue' /\ HandedOnce'
  <2>1. /\ sheet' = [sheet EXCEPT ![w] = Unread] /\ opened' = opened \ {w}
        /\ leadsCsv' = rows /\ listed' = listed /\ brief' = brief
    BY <1>4 DEF WriteSheet
  <2>2. w \in Writers /\ HandedTrue(sheet[w])
    BY <1>t DEF LeadShapes, GatheredTrue
  <2>3. HandedTrue(rows)
    BY <1>t, <2>2 DEF HandedTrue
  <2>4. \A v \in Writers : sheet'[v] = IF v = w THEN Unread ELSE sheet[v]
    BY <1>t, <2>1 DEF LeadShapes
  <2>5. \A v \in Writers : sheet'[v] = Unread \/ HandedTrue(sheet'[v])
    BY <1>t, <2>4 DEF GatheredTrue
  <2>6. \A v \in opened' : sheet'[v] # Unread
    BY <1>t, <2>1, <2>4 DEF GatheredTrue, LeadShapes
  <2> QED
    BY <1>t, <2>1, <2>3, <2>5, <2>6 DEF GatheredTrue, HandedOnce, HandedTrue, PageTrue, Workable
<1>5. CASE ReadBrief
  <2> DEFINE rows == {[post |-> x, outcome |-> lead[x].outcome, said |-> said[x]] :
                        x \in {y \in BoardPosts \ past : IsBuyer(y)}}
             page == {CompanyRow(c, rows) : c \in {CompanyOf[r.post] : r \in rows}}
  <2>1. listed' = page /\ UNCHANGED <<sheet, opened, leadsCsv, brief>>
    BY <1>5 DEF ReadBrief
  <2>2. PageTrue(rows)
    BY <1>t DEF PageTrue, IsBuyer, OutcomesSaid, LeadPosts
  <2>3. PageTrue(page)
    <3> HIDE DEF rows
    <3> QED
      BY <2>2, CompanyIsTrue DEF PageTrue
  <2> HIDE DEF page
  <2> QED
    BY <1>t, <2>1, <2>3 DEF GatheredTrue, HandedOnce, HandedTrue, PageTrue, Workable
<1>6. CASE WriteBrief
  BY <1>t, <1>6 DEF WriteBrief, GatheredTrue, HandedOnce, HandedTrue, PageTrue, Workable
<1> QED
  BY <1>1, <1>2, <1>3, <1>4, <1>5, <1>6 DEF LeadsNext, leadVars, StorePost, PostAdvert, GrowsOld,
     GoUnseen, StartScorer, CollectBoards, ScoreRooms, PeekLead, WriteLeads, CloseAdverts, ScorerDies,
     FindLead, SaveOutcome, RetainLeads

(***************************************************************************)
(* Whoever scores, and however many of them and of the people that write   *)
(* outcomes and of the commands that write the files there are: no row of  *)
(* leads.csv was worked when it was read, unless those were asked for, and *)
(* the brief shows how far a company was (upsert, gather, brief).          *)
(***************************************************************************)
THEOREM NobodyIsHandedTwice == LeadsSpec => []HandedOnce
<1>1. LeadsInit => LeadsInv
  <2> SUFFICES ASSUME LeadsInit PROVE LeadsInv
    OBVIOUS
  <2>1. AtRest \in [at : ScorerPlaces, batch : Batches, first : LeadPosts \cup {NoLead}, was : BOOLEAN]
    BY DEF AtRest, ScorerPlaces, Batches
  <2>2. LeadShapes
    BY <2>1 DEF LeadsInit, LeadShapes, Untouched, Stages
  <2> QED
    BY <2>2 DEF LeadsInit, LeadsInv, OutcomesSaid, GatheredTrue, HandedOnce, HandedTrue, PageTrue
<1>2. LeadsInv /\ [LeadsNext]_leadVars => LeadsInv'
  BY ShapesGoOn, OutcomesStay, FilesStayTrue DEF LeadsInv
<1>3. LeadsInv => HandedOnce
  BY DEF LeadsInv
<1> QED
  BY <1>1, <1>2, <1>3, PTL DEF LeadsSpec

=============================================================================
