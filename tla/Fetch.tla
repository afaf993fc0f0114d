-------------------------------- MODULE Fetch --------------------------------
(***************************************************************************)
(* The Go ingest worker over a listing source: list the threads, skip the  *)
(* unchanged ones, fetch the others, and queue the comments nobody has     *)
(* stored.  Several workers may run at once (overlapping schedules); each  *)
(* SQLite statement is its own transaction, so each is an action.          *)
(***************************************************************************)
EXTENDS Queue

CONSTANTS Fetcher,        \* worker processes
          NoThread,       \* a worker between threads
          Kept,           \* comments that pass the prefilter
          ThreadCap,      \* max_comments_per_thread; 0 is no cap
          CommentBudget,  \* -max-comments: the "stop at N" goal; 0 is none
          FetchFailBound  \* bound: exits in the middle of a run

ASSUME FetchAssumption ==
    /\ Kept \subseteq Comment /\ NoThread \notin Thread
    /\ {ThreadCap, CommentBudget, FetchFailBound} \subseteq Nat

VARIABLES posted,      \* comments on the platform
          lastSeen,    \* thread_state.last_seen_comments
          fetchFails,  \* exits so far
          lost,        \* marked and in no batch when their worker exited (ghost)
          fpc,         \* where each worker is
          visit,       \* listed threads it has not reached, with their counts
          thread,      \* the thread it is on
          advertised,  \* the count that thread's listing published
          left,        \* fetched comments it has not examined
          fresh,       \* the comment that passed AlreadyIngested, as a set
          hand,        \* comments marked and not yet queued
          used         \* the budget's booked comments

fetcherVars == <<fpc, visit, thread, advertised, left, fresh, hand, used>>
fetchOnly == <<posted, lastSeen, fetchFails, lost, fetcherVars>>
fetchVars == <<batches, skip, fetchOnly>>

FetchStage == {"idle", "threads", "examine", "mark", "enqueue", "read"}
Unpublished == 0 - 1

Count(t) == Cardinality(posted \cap InThread(t))

(* budget.spent *)
Spent(f) == CommentBudget > 0 /\ used[f] >= CommentBudget

UnchangedMutant(t, n) == n # Unpublished /\ lastSeen[t] # Unpublished /\ n <= lastSeen[t] + 1
(* ThreadUnchanged: an absent row or an unpublished count never skips. *)
Unchanged(t, n) == n # Unpublished /\ lastSeen[t] # Unpublished /\ n <= lastSeen[t]

Capped(f) == ThreadCap > 0 /\ Cardinality(hand[f]) >= ThreadCap

FetchGoto(f, stage) == fpc' = [fpc EXCEPT ![f] = stage]

FetchInit ==
    /\ batches = <<>> /\ skip = {}
    /\ posted = {} /\ fetchFails = 0 /\ lost = {}
    /\ lastSeen = [t \in Thread |-> Unpublished]
    /\ fpc = [f \in Fetcher |-> "idle"]
    /\ visit = [f \in Fetcher |-> {}]
    /\ thread = [f \in Fetcher |-> NoThread]
    /\ advertised = [f \in Fetcher |-> Unpublished]
    /\ left = [f \in Fetcher |-> {}]
    /\ fresh = [f \in Fetcher |-> {}]
    /\ hand = [f \in Fetcher |-> {}]
    /\ used = [f \in Fetcher |-> 0]

----------------------------------------------------------------------------
(* Somebody writes a comment. *)
Post(c) ==
    /\ c \notin posted
    /\ posted' = posted \cup {c}
    /\ UNCHANGED <<batches, skip, lastSeen, fetchFails, lost, fetcherVars>>

(* The listing publishes a count for each thread, or none. *)
ListThreads(f) ==
    /\ fpc[f] = "idle" /\ FetchGoto(f, "threads")
    /\ \E silent \in SUBSET Thread :
          visit' = [visit EXCEPT ![f] =
                      {[thread |-> t, count |-> IF t \in silent THEN Unpublished ELSE Count(t)] :
                          t \in {u \in Thread : Count(u) > 0}}]
    /\ UNCHANGED <<batches, skip, posted, lastSeen, fetchFails, lost, thread, advertised,
                   left, fresh, hand, used>>

SkipUnchanged(f, v) ==
    /\ fpc[f] = "threads" /\ v \in visit[f] /\ ~Spent(f)
    /\ Unchanged(v.thread, v.count)
    /\ visit' = [visit EXCEPT ![f] = @ \ {v}]
    /\ UNCHANGED <<batches, skip, posted, lastSeen, fetchFails, lost, fpc, thread, advertised,
                   left, fresh, hand, used>>

(* The thread does not open: it is skipped and nothing is recorded. *)
FetchFailed(f, v) ==
    /\ fpc[f] = "threads" /\ v \in visit[f] /\ ~Spent(f)
    /\ ~Unchanged(v.thread, v.count)
    /\ visit' = [visit EXCEPT ![f] = @ \ {v}]
    /\ UNCHANGED <<batches, skip, posted, lastSeen, fetchFails, lost, fpc, thread, advertised,
                   left, fresh, hand, used>>

(* What is on the page now, which may be more than the listing counted. *)
FetchThread(f, v) ==
    /\ fpc[f] = "threads" /\ v \in visit[f] /\ ~Spent(f)
    /\ ~Unchanged(v.thread, v.count)
    /\ visit' = [visit EXCEPT ![f] = @ \ {v}]
    /\ thread' = [thread EXCEPT ![f] = v.thread]
    /\ advertised' = [advertised EXCEPT ![f] = v.count]
    /\ left' = [left EXCEPT ![f] = posted \cap InThread(v.thread)]
    /\ FetchGoto(f, "examine")
    /\ UNCHANGED <<batches, skip, posted, lastSeen, fetchFails, lost, fresh, hand, used>>

(* enqueueComments: a comment already stored, or filtered out, is passed over. *)
PassOver(f, c) ==
    /\ fpc[f] = "examine" /\ c \in left[f] /\ ~Capped(f)
    /\ c \in skip \/ c \notin Kept
    /\ left' = [left EXCEPT ![f] = @ \ {c}]
    /\ UNCHANGED <<batches, skip, posted, lastSeen, fetchFails, lost, fpc, visit, thread,
                   advertised, fresh, hand, used>>

TakeMutant(f, c) ==
    /\ fpc[f] = "examine" /\ c \in left[f] /\ ~Capped(f)
    /\ c \in Kept
    /\ left' = [left EXCEPT ![f] = @ \ {c}]
    /\ fresh' = [fresh EXCEPT ![f] = {c}]
    /\ FetchGoto(f, "mark")
    /\ UNCHANGED <<batches, skip, posted, lastSeen, fetchFails, lost, visit, thread,
                   advertised, hand, used>>

(* AlreadyIngested says no, and the prefilter keeps it. *)
Take(f, c) ==
    /\ fpc[f] = "examine" /\ c \in left[f] /\ ~Capped(f)
    /\ c \notin skip /\ c \in Kept
    /\ left' = [left EXCEPT ![f] = @ \ {c}]
    /\ fresh' = [fresh EXCEPT ![f] = {c}]
    /\ FetchGoto(f, "mark")
    /\ UNCHANGED <<batches, skip, posted, lastSeen, fetchFails, lost, visit, thread,
                   advertised, hand, used>>

(* MarkIngested commits on its own, before any batch holds the comment. *)
Mark(f) ==
    /\ fpc[f] = "mark" /\ FetchGoto(f, "examine")
    /\ MarkIngested(fresh[f])
    /\ hand' = [hand EXCEPT ![f] = @ \cup fresh[f]]
    /\ fresh' = [fresh EXCEPT ![f] = {}]
    /\ UNCHANGED <<batches, posted, lastSeen, fetchFails, lost, visit, thread, advertised,
                   left, used>>

(* The loop ends when every comment was examined or the cap is reached. *)
StopExamining(f) ==
    /\ fpc[f] = "examine" /\ (left[f] = {} \/ Capped(f))
    /\ FetchGoto(f, "enqueue")
    /\ left' = [left EXCEPT ![f] = {}]
    /\ UNCHANGED <<batches, skip, posted, lastSeen, fetchFails, lost, visit, thread,
                   advertised, fresh, hand, used>>

EnqueueMutant(f) ==
    /\ fpc[f] = "enqueue" /\ FetchGoto(f, "read")
    /\ IF Cardinality(hand[f]) < 2 THEN UNCHANGED batches ELSE EnqueueBatch(hand[f])
    /\ used' = [used EXCEPT ![f] = @ + Cardinality(hand[f])]
    /\ hand' = [hand EXCEPT ![f] = {}]
    /\ UNCHANGED <<skip, posted, lastSeen, fetchFails, lost, visit, thread, advertised, left, fresh>>

(* One batch for the thread, unless nothing was kept; then book it. *)
Enqueue(f) ==
    /\ fpc[f] = "enqueue" /\ FetchGoto(f, "read")
    /\ IF hand[f] = {} THEN UNCHANGED batches ELSE EnqueueBatch(hand[f])
    /\ used' = [used EXCEPT ![f] = @ + Cardinality(hand[f])]
    /\ hand' = [hand EXCEPT ![f] = {}]
    /\ UNCHANGED <<skip, posted, lastSeen, fetchFails, lost, visit, thread, advertised, left, fresh>>

(* MarkThreadRead stores the count the listing published, 0 for none; the   *)
(* write is best-effort.                                                    *)
MarkThreadRead(f) ==
    /\ fpc[f] = "read" /\ FetchGoto(f, "threads")
    /\ \/ lastSeen' = [lastSeen EXCEPT ![thread[f]] =
                         IF advertised[f] = Unpublished THEN 0 ELSE advertised[f]]
       \/ UNCHANGED lastSeen
    /\ thread' = [thread EXCEPT ![f] = NoThread]
    /\ advertised' = [advertised EXCEPT ![f] = Unpublished]
    /\ UNCHANGED <<batches, skip, posted, fetchFails, lost, visit, left, fresh, hand, used>>

FetcherGone(f) ==
    /\ FetchGoto(f, "idle")
    /\ visit' = [visit EXCEPT ![f] = {}]
    /\ thread' = [thread EXCEPT ![f] = NoThread]
    /\ advertised' = [advertised EXCEPT ![f] = Unpublished]
    /\ left' = [left EXCEPT ![f] = {}]
    /\ fresh' = [fresh EXCEPT ![f] = {}]
    /\ hand' = [hand EXCEPT ![f] = {}]
    /\ used' = [used EXCEPT ![f] = 0]
    /\ UNCHANGED <<batches, skip, posted, lastSeen>>

(* Every thread was reached, or the budget is spent. *)
FetchDone(f) ==
    /\ fpc[f] = "threads" /\ (visit[f] = {} \/ Spent(f))
    /\ FetcherGone(f)
    /\ UNCHANGED <<fetchFails, lost>>

(* fail() or a kill: a statement that stays SQLITE_BUSY, a timeout, a crash. *)
FetchExit(f) ==
    /\ fpc[f] # "idle" /\ fetchFails < FetchFailBound
    /\ fetchFails' = fetchFails + 1
    /\ lost' = lost \cup hand[f]
    /\ FetcherGone(f)

----------------------------------------------------------------------------
FetcherNext(f) ==
    \/ ListThreads(f)
    \/ \E v \in visit[f] : SkipUnchanged(f, v) \/ FetchThread(f, v)
    \/ \E c \in left[f] : PassOver(f, c) \/ Take(f, c)
    \/ Mark(f) \/ StopExamining(f) \/ Enqueue(f) \/ MarkThreadRead(f) \/ FetchDone(f)

FetchNext ==
    \/ \E f \in Fetcher : FetcherNext(f) \/ FetchExit(f)
                          \/ \E v \in visit[f] : FetchFailed(f, v)
    \/ \E c \in Comment : Post(c)

FetchSpec == FetchInit /\ [][FetchNext]_fetchVars

(* The schedule starts the worker again and again, it keeps going, and a    *)
(* thread that is tried for ever opens in the end.                          *)
FetchFair ==
    \A f \in Fetcher :
        /\ WF_fetchVars(FetcherNext(f))
        /\ \A t \in Thread :
              SF_fetchVars(\E v \in visit[f] : v.thread = t /\ FetchThread(f, v))
FetchFairSpec == FetchSpec /\ FetchFair

----------------------------------------------------------------------------
(* Properties *)

FetchTypeOK ==
    /\ QueueTypeOK
    /\ posted \subseteq Comment /\ fetchFails \in 0..FetchFailBound /\ lost \subseteq Comment
    /\ lastSeen \in [Thread -> Nat \cup {Unpublished}]
    /\ fpc \in [Fetcher -> FetchStage]
    /\ visit \in [Fetcher -> SUBSET [thread : Thread, count : Nat \cup {Unpublished}]]
    /\ thread \in [Fetcher -> Thread \cup {NoThread}]
    /\ advertised \in [Fetcher -> Nat \cup {Unpublished}]
    /\ left \in [Fetcher -> SUBSET Comment]
    /\ fresh \in [Fetcher -> SUBSET Comment]
    /\ hand \in [Fetcher -> SUBSET Comment]
    /\ used \in [Fetcher -> Nat]

(* A comment on the skip-list, which no later visit will look at, is in a   *)
(* batch or in the hands of a live worker, whatever the workers interleave: *)
(* deduplication loses what a worker had in hand when it exited, no more.   *)
Queued == UNION {batches[b].comments : b \in DOMAIN batches}
InHand == UNION {hand[f] : f \in Fetcher}
SkippedIsQueued == skip \subseteq Queued \cup InHand \cup lost

(* Deduplication loses nothing at all.                                      *)
NothingLost == skip \subseteq Queued \cup InHand

(* A thread the next visit will pass over as unchanged holds nothing the    *)
(* archive lacks, even if it grew between the listing and the fetch.        *)
UnchangedIsExhausted ==
    \A t \in Thread : Unchanged(t, Count(t)) => posted \cap InThread(t) \cap Kept \subseteq skip

(* The comment ceiling is overshot by at most one thread.                   *)
OvershootsOneThread ==
    CommentBudget > 0 =>
        \A f \in Fetcher : \E t \in Thread :
            used[f] < CommentBudget + Cardinality(InThread(t) \cap Kept)

(* A single worker queues a comment once, whatever it re-reads and whenever *)
(* it dies: two batches never share a comment.                              *)
QueuedOnce ==
    \A a, b \in DOMAIN batches : a # b => batches[a].comments \cap batches[b].comments = {}

(* Re-reading neither loses nor repeats: all three at once.                  *)
VisitsAreExact == UnchangedIsExhausted /\ OvershootsOneThread /\ QueuedOnce

=============================================================================
