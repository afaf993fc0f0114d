------------------------------ MODULE Backfill ------------------------------
(***************************************************************************)
(* The one-off deep walk of a Hacker News feed: the listing is walked back *)
(* through time by a cursor, past the cap of the search, then every thread *)
(* is fetched and queued.  Nothing of the walk is stored: a walk that ends *)
(* early is started again from the newest story.                           *)
(* src/go/cmd/worker/backfill.go, src/go/internal/hackernews/hn.go         *)
(***************************************************************************)
EXTENDS Naturals, FiniteSets, FiniteSetsExt

CONSTANTS Stories,
          Quiet,      \* stories under the comment floor
          Times,      \* seconds, 1..Times, a story may be created in
          PageSize,   \* hits of a page
          Shared,     \* whether two stories may share a second
          WalkBound, LostBound

ASSUME BackfillAssumption ==
    /\ Quiet \subseteq Stories /\ IsFiniteSet(Stories)
    /\ Times \in Nat /\ PageSize \in Nat \ {0} /\ Shared \in BOOLEAN

VARIABLES created,  \* external: when a story was written, 0 before it is
          walk,     \* the walk under way
          queuedOf, \* stories whose comments have been queued, in any walk
          walks, lostCalls

backfillVars == <<created, walk, queuedOf, walks, lostCalls>>

NoWalk == [step |-> "none", want |-> 0, until |-> 0, cursor |-> 0, out |-> {}, todo |-> {}]

BackfillInit ==
    /\ created \in [Stories -> 0..Times]
    /\ Shared \/ \A s, t \in Stories : s # t /\ created[s] > 0 => created[s] # created[t]
    /\ walk = NoWalk /\ queuedOf = {} /\ walks = 0 /\ lostCalls = 0

(* SearchURL: both filters hold of a hit, and the cursor is strict. *)
Hits(cursor) ==
    {s \in Stories : created[s] > 0 /\ s \notin Quiet /\ (cursor = 0 \/ created[s] < cursor)}
(* The newest hits, in whatever order those of one second come. *)
Pages(cursor, size) ==
    {p \in SUBSET Hits(cursor) :
        /\ Cardinality(p) = IF Cardinality(Hits(cursor)) < size THEN Cardinality(Hits(cursor)) ELSE size
        /\ \A s \in p, t \in Hits(cursor) \ p : created[s] >= created[t]}

(* A story posted meanwhile is newer than every other. *)
StoryPosted(s) ==
    /\ created[s] = 0
    /\ \E at \in 1..Times : /\ \A t \in Stories : created[t] < at
                            /\ created' = [created EXCEPT ![s] = at]
    /\ UNCHANGED <<walk, queuedOf, walks, lostCalls>>

StartWalk(want, until) ==
    /\ walk = NoWalk /\ walks < WalkBound /\ walks' = walks + 1
    /\ walk' = [NoWalk EXCEPT !.step = "listing", !.want = want, !.until = until]
    /\ UNCHANGED <<created, queuedOf, lostCalls>>

CursorMutant(oldest) == oldest - 1
(* The walk goes on from the oldest hit of the page. *)
Cursor(oldest) == oldest

(* One page.  Hits past the boundary are left out; the walk ends when
   nothing new was on the page, when it has crossed the boundary, or when
   it has what was wanted.                                                  *)
ListPage ==
    /\ walk.step = "listing"
    /\ \E p \in Pages(walk.cursor, Min({PageSize, walk.want - Cardinality(walk.out)})) :
        LET new == p \ walk.out
            kept == {s \in new : created[s] >= walk.until}
            oldest == IF new = {} THEN 0 ELSE Min({created[s] : s \in new})
            out == walk.out \cup kept
            over == \/ Cardinality(out) = walk.want \/ oldest = 0 \/ oldest < walk.until
                    \/ kept = {} /\ walk.cursor = oldest
        IN walk' = IF ~over THEN [walk EXCEPT !.out = out, !.cursor = Cursor(oldest)]
                   ELSE IF out = {} THEN NoWalk
                   ELSE [walk EXCEPT !.step = "fetching", !.out = out, !.todo = out]
    /\ UNCHANGED <<created, queuedOf, walks, lostCalls>>

(* A page that does not come ends the walk, with what was listed. *)
ListFailed ==
    /\ walk.step = "listing" /\ lostCalls < LostBound /\ lostCalls' = lostCalls + 1
    /\ walk' = NoWalk
    /\ UNCHANGED <<created, queuedOf, walks>>

(* A thread is fetched and its new comments queued, or is passed over. *)
FetchStory(s) ==
    /\ walk.step = "fetching" /\ s \in walk.todo
    /\ queuedOf' = queuedOf \cup {s}
    /\ walk' = [walk EXCEPT !.todo = @ \ {s}]
    /\ UNCHANGED <<created, walks, lostCalls>>
StoryFailed(s) ==
    /\ walk.step = "fetching" /\ s \in walk.todo
    /\ lostCalls < LostBound /\ lostCalls' = lostCalls + 1
    /\ walk' = [walk EXCEPT !.todo = @ \ {s}]
    /\ UNCHANGED <<created, queuedOf, walks>>

WalkDone ==
    /\ walk.step = "fetching" /\ walk.todo = {} /\ walk' = NoWalk
    /\ UNCHANGED <<created, queuedOf, walks, lostCalls>>

WalkKilled ==
    /\ walk # NoWalk /\ lostCalls < LostBound /\ lostCalls' = lostCalls + 1
    /\ walk' = NoWalk
    /\ UNCHANGED <<created, queuedOf, walks>>

BackfillNext ==
    \/ \E s \in Stories : StoryPosted(s) \/ FetchStory(s) \/ StoryFailed(s)
    \/ \E want \in 1..Cardinality(Stories), until \in 0..Times : StartWalk(want, until)
    \/ ListPage \/ ListFailed \/ WalkDone \/ WalkKilled

BackfillSpec == BackfillInit /\ [][BackfillNext]_backfillVars

(* The walk has no hole: a story that was there when it started, loud
   enough and in the window, is listed before any story older than it.      *)
NoHole ==
    \A s \in walk.out, t \in Hits(0) :
        /\ created[s] < created[t] /\ t \notin walk.out
        => \A u \in walk.out : created[u] < created[t]
=============================================================================
