------------------------------ MODULE Rotation ------------------------------
(***************************************************************************)
(* The live run of the ingest worker over its sources: the order in which  *)
(* they are visited, what a visit books against the ceilings of the run,   *)
(* and the two rows a visit leaves, source_state and run_outcome.          *)
(* src/go/cmd/worker/main.go, src/go/internal/store/store.go               *)
(***************************************************************************)
EXTENDS Naturals, Sequences, FiniteSets, SequencesExt

CONSTANTS Feeds,          \* sources.yaml: names, in order
          BrowserFeeds,   \* those read through a browser session
          SingleFeeds,    \* those that are one thread, video or app
          PortalFeeds,    \* those that are a portal's listings
          Depth,          \* threads of a feed a visit may read
          PostCeiling,    \* -max-posts, 0 for none
          CommentCeiling, \* -max-comments, 0 for none
          LiveBound, BreakBound

ASSUME RotationAssumption ==
    /\ Feeds \in Seq(STRING) /\ IsInjective(Feeds)
    /\ {Depth, PostCeiling, CommentCeiling} \subseteq Nat

VARIABLES enabled,    \* sources.yaml: which are enabled
          state,      \* source_state.last_fetched_at, 0 without a row
          outcomes,   \* run_outcome: the rows of the last run, "clean" or "failed"
          liveRun,    \* the run under way
          overtaken,  \* ghost: visits to another name since this one was tried
          lives,      \* runs so far, which tell the time: visits of a run may share a second
          breaks

rotationVars == <<enabled, state, outcomes, liveRun, overtaken, lives, breaks>>

Names == ToSet(Feeds)
NoVisit == [step |-> "none", left |-> 0, err |-> FALSE]
NoLive == [order |-> <<>>, enabled |-> {}, rotated |-> FALSE, posts |-> 0, comments |-> 0,
           visit |-> NoVisit]
NoneLive == liveRun = NoLive
Visited == Head(liveRun.order)

RotationInit ==
    /\ enabled \in SUBSET Names /\ enabled # {}
    /\ state = [f \in Names |-> 0]
    /\ outcomes = [k \in {} |-> 0] /\ liveRun = NoLive
    /\ overtaken = [f \in Names |-> [g \in Names |-> 0]]
    /\ lives = 0 /\ breaks = 0

(* The names picked by -only, in the order of the file; every one when it is
   empty.  A name the file does not have is refused before a run starts.    *)
Selected(only) == IF only = {} THEN Feeds ELSE SelectSeq(Feeds, LAMBDA f : f \in only)

(* Least recently fetched first, those without a row before them, ties in
   the order of the file: a stable sort has one outcome.                    *)
SourceOrder(names) ==
    LET place(f) == CHOOSE i \in DOMAIN names : names[i] = f
        before(f, g) == \/ state[f] < state[g]
                        \/ state[f] = state[g] /\ place(f) < place(g)
    IN {order \in [DOMAIN names -> ToSet(names)] :
           /\ \A f \in ToSet(names) : \E i \in DOMAIN names : order[i] = f
           /\ \A i, j \in DOMAIN names : i < j => before(order[i], order[j])}

CeilingsMet == \/ CommentCeiling > 0 /\ liveRun.comments >= CommentCeiling
               \/ PostCeiling > 0 /\ liveRun.posts >= PostCeiling

Break == breaks < BreakBound /\ breaks' = breaks + 1
Moved(r) == /\ liveRun' = r
            /\ UNCHANGED <<enabled, state, outcomes, overtaken, lives>>
NextFeed == IF Len(liveRun.order) = 1 THEN NoLive
            ELSE [liveRun EXCEPT !.order = Tail(@), !.visit = NoVisit]

(* One run at a time, seconds after the one before.  The order is that of
   the file when source_state cannot be read.                               *)
StartLive(only, readable) ==
    /\ NoneLive /\ lives < LiveBound /\ lives' = lives + 1 /\ outcomes' = [k \in {} |-> 0]
    /\ \/ readable /\ UNCHANGED breaks
       \/ ~readable /\ Break
    /\ \E order \in IF readable THEN SourceOrder(Selected(only)) ELSE {Selected(only)} :
          liveRun' = [NoLive EXCEPT !.order = order, !.enabled = enabled,
                                    !.rotated = readable /\ only = {}]
    /\ UNCHANGED <<enabled, state, overtaken>>

(* The operator edits sources.yaml; a run reads it once.  A source that was
   off waits from the moment it is on.                                      *)
Toggle(f) ==
    /\ NoneLive /\ enabled # {f}
    /\ enabled' = SymDiff(enabled, {f})
    /\ overtaken' = [overtaken EXCEPT ![f] = [g \in Names |-> 0]]
    /\ UNCHANGED <<state, outcomes, liveRun, lives, breaks>>

(* Nothing more is visited once a ceiling is reached. *)
Unreached ==
    /\ ~NoneLive /\ liveRun.visit.step = "none" /\ CeilingsMet
    /\ Moved(NoLive) /\ UNCHANGED breaks

SkipDisabled ==
    /\ ~NoneLive /\ liveRun.visit.step = "none" /\ ~CeilingsMet /\ Visited \notin liveRun.enabled
    /\ Moved(NextFeed) /\ UNCHANGED breaks

(* A session that does not open leaves a row in the ledger, and nothing in
   source_state.                                                            *)
SessionFailed ==
    /\ ~NoneLive /\ liveRun.visit.step = "none" /\ ~CeilingsMet
    /\ Visited \in liveRun.enabled \cap BrowserFeeds
    /\ Break
    /\ outcomes' = Visited :> "failed" @@ outcomes
    /\ liveRun' = NextFeed
    /\ UNCHANGED <<enabled, state, overtaken, lives>>

(* fetchSource lists the threads of the feed, or fails.  A single thread is
   read whole, or fails.                                                    *)
OpenFeed(n) ==
    /\ ~NoneLive /\ liveRun.visit.step = "none" /\ ~CeilingsMet /\ Visited \in liveRun.enabled
    /\ n \in IF Visited \in SingleFeeds THEN {1} ELSE 1..Depth
    /\ Moved([liveRun EXCEPT !.visit = [NoVisit EXCEPT !.step = "reading", !.left = n]])
    /\ UNCHANGED breaks

FeedFailed ==
    /\ ~NoneLive /\ liveRun.visit.step = "none" /\ ~CeilingsMet /\ Visited \in liveRun.enabled
    /\ Moved([liveRun EXCEPT !.visit = [NoVisit EXCEPT !.step = "touch", !.err = TRUE]])
    /\ UNCHANGED breaks

(* A thread is one post however many comments were kept; the ceilings are
   compared between threads.  A thread that does not open is passed over.   *)
ReadThread(kept) ==
    /\ ~NoneLive /\ liveRun.visit.step = "reading" /\ Visited \notin PortalFeeds
    /\ liveRun.visit.left > 0 /\ ~CeilingsMet
    /\ Moved([liveRun EXCEPT !.posts = @ + 1, !.comments = @ + kept,
                             !.visit.left = @ - 1])
    /\ UNCHANGED breaks
ThreadFailed ==
    /\ ~NoneLive /\ liveRun.visit.step = "reading" /\ liveRun.visit.left > 0 /\ ~CeilingsMet
    /\ Moved([liveRun EXCEPT !.visit.left = @ - 1]) /\ UNCHANGED breaks

(* An advert is booked whether it is queued or was known; one that cannot be
   recorded is not booked.                                                  *)
ReadAdvert ==
    /\ ~NoneLive /\ liveRun.visit.step = "reading" /\ Visited \in PortalFeeds
    /\ liveRun.visit.left > 0 /\ ~CeilingsMet
    /\ Moved([liveRun EXCEPT !.posts = @ + 1, !.comments = @ + 1,
                             !.visit.left = @ - 1])
    /\ UNCHANGED breaks

FeedRead ==
    /\ ~NoneLive /\ liveRun.visit.step = "reading" /\ (liveRun.visit.left = 0 \/ CeilingsMet)
    /\ Moved([liveRun EXCEPT !.visit.step = "touch"]) /\ UNCHANGED breaks

TouchSourceMutant(done) ==
    /\ ~NoneLive /\ liveRun.visit.step = "touch"
    /\ \/ done /\ UNCHANGED breaks
          /\ state' = [state EXCEPT ![Visited] = IF liveRun.visit.err THEN @ ELSE lives]
       \/ ~done /\ Break /\ UNCHANGED state
    /\ overtaken' = IF ~done THEN overtaken ELSE
        [f \in Names |-> [g \in Names |->
          IF f = Visited THEN 0
          ELSE IF liveRun.rotated /\ g = Visited /\ f \in liveRun.enabled /\ state[f] < lives THEN overtaken[f][g] + 1
          ELSE overtaken[f][g]]]
    /\ liveRun' = [liveRun EXCEPT !.visit.step = "record"]
    /\ UNCHANGED <<enabled, outcomes, lives>>
(* The visit is recorded whether it failed, yielded nothing or was cut
   short; the write may fail, which is reported.                            *)
TouchSource(done) ==
    /\ ~NoneLive /\ liveRun.visit.step = "touch"
    /\ \/ done /\ UNCHANGED breaks
          /\ state' = [state EXCEPT ![Visited] = lives]
       \/ ~done /\ Break /\ UNCHANGED state
    /\ overtaken' = IF ~done THEN overtaken ELSE
        [f \in Names |-> [g \in Names |->
          IF f = Visited THEN 0
          ELSE IF liveRun.rotated /\ g = Visited /\ f \in liveRun.enabled /\ state[f] < lives THEN overtaken[f][g] + 1
          ELSE overtaken[f][g]]]
    /\ liveRun' = [liveRun EXCEPT !.visit.step = "record"]
    /\ UNCHANGED <<enabled, outcomes, lives>>

(* One row for a source of a run. *)
RecordRunOutcome(done) ==
    /\ ~NoneLive /\ liveRun.visit.step = "record"
    /\ \/ /\ done /\ UNCHANGED breaks
          /\ outcomes' = Visited :> (IF liveRun.visit.err THEN "failed" ELSE "clean") @@ outcomes
       \/ ~done /\ Break /\ UNCHANGED outcomes
    /\ liveRun' = NextFeed
    /\ UNCHANGED <<enabled, state, overtaken, lives>>

(* fail(), or a kill: in the middle of a visit, before or after its rows. *)
LiveExit == ~NoneLive /\ Break /\ Moved(NoLive)

RotationNext ==
    \/ \E only \in SUBSET Names, readable \in BOOLEAN : StartLive(only, readable)
    \/ \E f \in Names : Toggle(f)
    \/ Unreached \/ SkipDisabled \/ SessionFailed \/ FeedFailed \/ FeedRead
    \/ \E n \in 1..Depth : OpenFeed(n)
    \/ \E kept \in 0..1 : ReadThread(kept)
    \/ ReadAdvert \/ ThreadFailed \/ LiveExit
    \/ \E done \in BOOLEAN : TouchSource(done) \/ RecordRunOutcome(done)

RotationSpec == RotationInit /\ [][RotationNext]_rotationVars

(* The rotation starves no source: in the runs that follow the one that
   tried an enabled source, another is visited once at most before it is
   tried again; whatever a run is capped at, whatever fails or is empty, and
   whoever was asked for by name in between.  A run that died, a session
   that did not open, a write that failed and an unreadable table each
   excuse one visit more.                                                   *)
NoneOvertaken ==
    \A f, g \in Names : f \in enabled => overtaken[f][g] <= 1 + breaks
=============================================================================
