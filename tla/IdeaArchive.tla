---------------------------- MODULE IdeaArchive ----------------------------
(***************************************************************************)
(* The idea archive: the two tables ideas and nuggets, and the processes   *)
(* that write them at the same time.  A worker is one jester process: a    *)
(* pipeline run (Synthesizer.run, then rescore_pending), a manual resynth, *)
(* or a `rescore --pending`.  Every action is one SQLite transaction or    *)
(* one model call; what a worker read before a model call is kept in its   *)
(* volatile variables and used, possibly stale, after it.                  *)
(***************************************************************************)
EXTENDS Naturals, Sequences, FiniteSets

CONSTANTS Nugget,         \* nuggets, by row id
          Backlog,        \* those archived at the start
          NuggetThread,       \* the (platform, thread) a nugget belongs to
          ChunkCap,       \* max_nuggets_per_idea; 0 is no cap
          Worker,         \* the processes
          UseIndex,       \* is the R44 idea vector collection configured?
          RescorePerRun,  \* rescore_per_run; 0 turns the pass off
          StallAttempts,  \* SCORE_STALL_ATTEMPTS
          SlowCritic,     \* may one answer outlast RESCORE_CLAIM_STALE_SECONDS?
          Operator,       \* what an operator does meanwhile, of OperatorVerb
          CrashBound,     \* bound: crashes in one behaviour
          IdeaBound       \* bound: no resynth once the archive holds this many

OperatorVerb == {"resynth", "mark", "standin"}

ASSUME ArchiveAssumption ==
    /\ Nugget \subseteq Nat /\ IsFiniteSet(Nugget) /\ Backlog \subseteq Nugget
    /\ ChunkCap \in Nat /\ RescorePerRun \in Nat
    /\ StallAttempts \in Nat \ {0}
    /\ CrashBound \in Nat /\ IdeaBound \in Nat
    /\ {UseIndex, SlowCritic} \subseteq BOOLEAN /\ Operator \subseteq OperatorVerb

VARIABLES ideas,    \* the ideas table, indexed by id
          archived, \* the nuggets table
          claimed,  \* nuggets whose synthesized_at is set
          indexed,  \* ids with a point in the idea vector collection
          mark,     \* the operator's `mark` between its read and its write
          crashes,  \* crashes so far
          pc,       \* where each worker is
          todo,     \* groups the run has not reached
          cur,      \* the group being synthesized
          target,   \* the id the worker is about to write
          critic,   \* what the last critic call came back with
          held,     \* the row read before the model call
          queue,    \* rescore_pending's rows, read before its loop
          manual    \* reuse_claimed_evidence

volatile == <<pc, todo, cur, target, critic, held, queue, manual>>
vars == <<ideas, archived, claimed, indexed, mark, crashes, volatile>>

Stage == {"idle", "groups", "claim", "absorb", "index", "requeue", "merged",
          "ask", "verdict", "pending", "asking", "release"}
Answer == {"answered", "silent", "limited"}

(* A row of ideas.  scoredOn is the evidence the score on file was given   *)
(* for, {} when it has none; born is the evidence the row was inserted on. *)
Row == [support : SUBSET Nugget, scoredOn : SUBSET Nugget,
        born : SUBSET Nugget, manual : BOOLEAN, needs : BOOLEAN,
        tries : Nat, claim : {"none", "held", "stale"},
        status : {"new", "marked"}]
NewRow(g, scored, byHand) ==
    [support |-> g, scoredOn |-> IF scored THEN g ELSE {}, born |-> g,
     manual |-> byHand, needs |-> ~scored, tries |-> 0, claim |-> "none",
     status |-> "new"]
NoRow == NewRow({}, FALSE, FALSE)
NoMark == [id |-> 0, row |-> NoRow]

Id == DOMAIN ideas
Unclaimed == archived \ claimed

----------------------------------------------------------------------------
(* Grouping.  A thread's rows, in id order, are cut into slices of ChunkCap; *)
(* a last slice of one row joins the slice before it.                        *)

Before(rows, n) == Cardinality({m \in rows : m < n})
Slice(rows, n) ==
    LET size == Cardinality(rows)
        rank == Before(rows, n)
    IN  IF ChunkCap = 0 \/ size <= ChunkCap THEN 0
        ELSE IF rank = size - 1 /\ (size - 1) % ChunkCap = 0
             THEN (rank \div ChunkCap) - 1
             ELSE rank \div ChunkCap

Chunks(pool) ==
    LET InThread(n) == {m \in pool : NuggetThread[m] = NuggetThread[n]}
        Mates(n) == {m \in InThread(n) :
                        Slice(InThread(n), m) = Slice(InThread(n), n)}
    IN  {Mates(n) : n \in pool}

(* Lone nuggets are left for a later run (R50). *)
Groups(pool) == {g \in Chunks(pool) : Cardinality(g) >= 2}

----------------------------------------------------------------------------
(* Row operations. *)

Waiting(i) == ideas[i].needs /\ ideas[i].tries < StallAttempts
Claimable(i) == Waiting(i) /\ ideas[i].claim # "held"

FreeMutant(g) == TRUE
(* count_claimed_nuggets is 0. *)
Free(g) == g \cap claimed = {}

StampMutant(w) == UNCHANGED claimed
(* The stamp on the group's nuggets. *)
Stamp(w) == claimed' = claimed \cup cur[w]

MergedMutant(row, g) == [row EXCEPT !.support = g]
Merged(row, g) == [row EXCEPT !.support = @ \cup g]

RequeuedMutant(row) == [row EXCEPT !.tries = 0, !.claim = "none"]
(* mark_needs_score *)
Requeued(row) == [row EXCEPT !.needs = TRUE, !.tries = 0, !.claim = "none"]

(* The tightest idea whose evidence covers g, the lowest id among equals. *)
Containing(g) == {i \in Id : g # {} /\ g \subseteq ideas[i].support}
Tightest(i, S) ==
    \A j \in S : LET size(k) == Cardinality(ideas[k].support)
                 IN  size(i) < size(j) \/ (size(i) = size(j) /\ i <= j)

(* update_idea: every mutable column is written from the row the caller    *)
(* holds; rescore_attempts and rescore_claimed_utc are not among them.     *)
UpdateIdea(i, row) ==
    ideas' = [ideas EXCEPT ![i] =
                [row EXCEPT !.tries = ideas[i].tries, !.claim = ideas[i].claim,
                            !.born = ideas[i].born, !.manual = ideas[i].manual]]

(* apply_scores: an answer scores the evidence on the row; silence leaves   *)
(* the old numbers and asks for another attempt.                            *)
Scored(row, answer) ==
    IF answer = "answered"
    THEN [row EXCEPT !.scoredOn = row.support, !.needs = FALSE]
    ELSE [row EXCEPT !.needs = TRUE]

ReleaseMutant(row, answer) == [row EXCEPT !.claim = "none"]
Release(row, answer) ==
    [row EXCEPT !.claim = "none",
                !.tries = IF answer = "answered" THEN 0 ELSE @ + 1]

At(w, stage) == pc[w] = stage
Goto(w, stage) == pc' = [pc EXCEPT ![w] = stage]

(* The loop variables of one group, or of one waiting idea, are dead once   *)
(* its iteration ends.                                                      *)
EndIteration(w) ==
    /\ cur' = [cur EXCEPT ![w] = {}]
    /\ target' = [target EXCEPT ![w] = 0]
    /\ critic' = [critic EXCEPT ![w] = "silent"]
    /\ held' = [held EXCEPT ![w] = NoRow]

(* Back to the group loop; a refused quota ends it (_stop_on_quota). *)
NextGroup(w) ==
    /\ Goto(w, "groups")
    /\ todo' = [todo EXCEPT ![w] = IF critic[w] = "limited" THEN {} ELSE @]
    /\ EndIteration(w)
    /\ UNCHANGED <<queue, manual>>

Forget(w) ==
    /\ Goto(w, "idle")
    /\ todo' = [todo EXCEPT ![w] = {}]
    /\ EndIteration(w)
    /\ queue' = [queue EXCEPT ![w] = {}]
    /\ manual' = [manual EXCEPT ![w] = FALSE]

Init ==
    /\ ideas = <<>> /\ archived = Backlog /\ claimed = {} /\ indexed = {}
    /\ mark = NoMark /\ crashes = 0
    /\ pc = [w \in Worker |-> "idle"]
    /\ todo = [w \in Worker |-> {}]
    /\ cur = [w \in Worker |-> {}]
    /\ target = [w \in Worker |-> 0]
    /\ critic = [w \in Worker |-> "silent"]
    /\ held = [w \in Worker |-> NoRow]
    /\ queue = [w \in Worker |-> {}]
    /\ manual = [w \in Worker |-> FALSE]

----------------------------------------------------------------------------
(* Synthesizer.run *)

(* A run reads the unclaimed pool once and groups it. *)
StartRun(w) ==
    /\ At(w, "idle") /\ Goto(w, "groups")
    /\ todo' = [todo EXCEPT ![w] = Groups(Unclaimed)]
    /\ UNCHANGED <<ideas, archived, claimed, indexed, mark, crashes, cur, target, critic,
                   held, queue, manual>>

(* A manual resynth re-reads one idea's evidence; refused while a run is on. *)
StartResynth(w, i) ==
    /\ "resynth" \in Operator /\ At(w, "idle") /\ Len(ideas) < IdeaBound
    /\ \A v \in Worker : pc[v] = "idle"
    /\ Goto(w, "groups")
    /\ manual' = [manual EXCEPT ![w] = TRUE]
    /\ todo' = [todo EXCEPT ![w] = Groups(ideas[i].support)]
    /\ UNCHANGED <<ideas, archived, claimed, indexed, mark, crashes, cur, target, critic,
                   held, queue>>

(* The synthesizer's quota is gone, or the max_ideas goal is reached: the   *)
(* groups not reached stay unclaimed.                                       *)
StopEarly(w) ==
    /\ At(w, "groups") /\ todo[w] # {}
    /\ todo' = [todo EXCEPT ![w] = {}]
    /\ UNCHANGED <<ideas, archived, claimed, indexed, mark, crashes, pc, cur, target,
                   critic, held, queue, manual>>

(* The stand-in wrote the draft: it is not archived. *)
SkipFallback(w, g) ==
    /\ At(w, "groups") /\ g \in todo[w]
    /\ todo' = [todo EXCEPT ![w] = @ \ {g}]
    /\ UNCHANGED <<ideas, archived, claimed, indexed, mark, crashes, pc, cur, target,
                   critic, held, queue, manual>>

(* The model drafts an idea for g, the critic is asked, and the idea index *)
(* is searched; match 0 is no near-duplicate.                              *)
Draft(w, g, answer, match) ==
    /\ At(w, "groups") /\ g \in todo[w]
    /\ match = 0 \/ (~manual[w] /\ match \in indexed)
    /\ todo' = [todo EXCEPT ![w] = @ \ {g}]
    /\ cur' = [cur EXCEPT ![w] = g]
    /\ critic' = [critic EXCEPT ![w] = answer]
    /\ target' = [target EXCEPT ![w] = match]
    /\ Goto(w, IF match = 0 THEN "claim" ELSE "absorb")
    /\ UNCHANGED <<ideas, archived, claimed, indexed, mark, crashes, held, queue, manual>>

(* _claim_and_insert, one BEGIN IMMEDIATE transaction with three outcomes. *)
FoundDuplicate(w) ==
    /\ At(w, "claim") /\ ~manual[w]
    /\ \E i \in Containing(cur[w]) :
          /\ Tightest(i, Containing(cur[w]))
          /\ target' = [target EXCEPT ![w] = i]
    /\ Goto(w, "absorb")
    /\ UNCHANGED <<ideas, archived, claimed, indexed, mark, crashes, todo, cur, critic,
                   held, queue, manual>>

ClaimedElsewhere(w) ==
    /\ At(w, "claim") /\ ~manual[w]
    /\ Containing(cur[w]) = {}
    /\ ~Free(cur[w])
    /\ Goto(w, "groups") /\ EndIteration(w)
    /\ UNCHANGED <<ideas, archived, claimed, indexed, mark, crashes, todo, queue, manual>>

ClaimAndInsert(w) ==
    /\ At(w, "claim")
    /\ manual[w] \/ (Containing(cur[w]) = {} /\ Free(cur[w]))
    /\ Stamp(w)
    /\ ideas' = Append(ideas, NewRow(cur[w], critic[w] = "answered", manual[w]))
    /\ target' = [target EXCEPT ![w] = Len(ideas) + 1]
    /\ Goto(w, "index")
    /\ UNCHANGED <<archived, indexed, mark, crashes, todo, cur, critic, held, queue, manual>>

IndexIdea(w) ==
    /\ At(w, "index")
    /\ indexed' = IF UseIndex /\ ~manual[w] THEN indexed \cup {target[w]} ELSE indexed
    /\ NextGroup(w)
    /\ UNCHANGED <<ideas, archived, claimed, mark, crashes>>

(* _absorb's transaction: merge and claim together. *)
Absorb(w) ==
    LET i == target[w]
        grew == ~(cur[w] \subseteq ideas[i].support)
    IN  /\ At(w, "absorb")
        /\ ideas' = [ideas EXCEPT ![i] = Merged(@, cur[w])]
        /\ Stamp(w)
        /\ \/ /\ grew
              /\ Goto(w, IF critic[w] = "limited" THEN "requeue" ELSE "merged")
              /\ UNCHANGED <<todo, cur, target, critic, held, queue, manual>>
           \/ ~grew /\ NextGroup(w)
        /\ UNCHANGED <<archived, indexed, mark, crashes>>

(* mark_needs_score, after the merge committed. *)
Requeue(w) ==
    /\ At(w, "requeue")
    /\ ideas' = [ideas EXCEPT ![target[w]] = Requeued(@)]
    /\ NextGroup(w)
    /\ UNCHANGED <<archived, claimed, indexed, mark, crashes>>

(* rescore_after_merge: read, ask, write the whole row, and, when a web     *)
(* check ran, write it once more.                                           *)
ReadMerged(w) ==
    /\ At(w, "merged") /\ Goto(w, "ask")
    /\ held' = [held EXCEPT ![w] = ideas[target[w]]]
    /\ UNCHANGED <<ideas, archived, claimed, indexed, mark, crashes, todo, cur, target,
                   critic, queue, manual>>

ScoreMerged(w, answer) ==
    LET row == Scored(held[w], answer)
    IN  /\ At(w, "ask")
        /\ UpdateIdea(target[w], row)
        /\ \/ /\ answer = "answered" /\ Goto(w, "verdict")
              /\ held' = [held EXCEPT ![w] = row]
              /\ UNCHANGED <<todo, cur, target, critic, queue, manual>>
           \/ NextGroup(w)
        /\ UNCHANGED <<archived, claimed, indexed, mark, crashes>>

WriteVerdict(w) ==
    /\ At(w, "verdict")
    /\ UpdateIdea(target[w], held[w])
    /\ NextGroup(w)
    /\ UNCHANGED <<archived, claimed, indexed, mark, crashes>>

----------------------------------------------------------------------------
(* rescore_pending *)

LeastTried(S) ==
    /\ S \subseteq {i \in Id : Waiting(i)}
    /\ \/ Cardinality(S) = RescorePerRun
       \/ Cardinality(S) < RescorePerRun /\ S = {i \in Id : Waiting(i)}
    /\ \A i \in S, j \in Id \ S : Waiting(j) =>
          \/ ideas[i].tries < ideas[j].tries
          \/ ideas[i].tries = ideas[j].tries /\ i < j

(* One SELECT reads whole rows for the loop that follows, after a run's     *)
(* synthesis or on its own (`rescore --pending`).                           *)
SelectPending(w) ==
    /\ At(w, "idle") \/ (At(w, "groups") /\ todo[w] = {} /\ ~manual[w])
    /\ RescorePerRun > 0
    /\ \E S \in SUBSET Id :
          /\ LeastTried(S)
          /\ queue' = [queue EXCEPT ![w] = {[id |-> i, row |-> ideas[i]] : i \in S}]
    /\ Goto(w, "pending")
    /\ UNCHANGED <<ideas, archived, claimed, indexed, mark, crashes, todo, cur, target,
                   critic, held, manual>>

Head1(w, e) ==
    /\ e \in queue[w]
    /\ \A f \in queue[w] : \/ e.row.tries < f.row.tries
                           \/ e.row.tries = f.row.tries /\ e.id <= f.id

(* _claim_for_rescore, one conditional UPDATE. *)
ClaimForRescore(w, e) ==
    /\ At(w, "pending") /\ Head1(w, e)
    /\ Claimable(e.id)
    /\ ideas' = [ideas EXCEPT ![e.id].claim = "held"]
    /\ queue' = [queue EXCEPT ![w] = @ \ {e}]
    /\ target' = [target EXCEPT ![w] = e.id]
    /\ held' = [held EXCEPT ![w] = e.row]
    /\ Goto(w, "asking")
    /\ UNCHANGED <<archived, claimed, indexed, mark, crashes, todo, cur, critic, manual>>

LostClaim(w, e) ==
    /\ At(w, "pending") /\ Head1(w, e)
    /\ ~Claimable(e.id)
    /\ queue' = [queue EXCEPT ![w] = @ \ {e}]
    /\ UNCHANGED <<ideas, archived, claimed, indexed, mark, crashes, pc, todo, cur, target,
                   critic, held, manual>>

(* Critic.score: the answer is folded into the row read before the loop. *)
ScorePending(w, answer) ==
    /\ At(w, "asking")
    /\ UpdateIdea(target[w], Scored(held[w], answer))
    /\ critic' = [critic EXCEPT ![w] = answer]
    /\ Goto(w, "release")
    /\ UNCHANGED <<archived, claimed, indexed, mark, crashes, todo, cur, target, held,
                   queue, manual>>

(* _release_rescore_claim: unconditional; a refused quota ends the loop. *)
ReleaseClaim(w) ==
    /\ At(w, "release")
    /\ ideas' = [ideas EXCEPT ![target[w]] = Release(@, critic[w])]
    /\ queue' = [queue EXCEPT ![w] = IF critic[w] = "limited" THEN {} ELSE @]
    /\ Goto(w, "pending") /\ EndIteration(w)
    /\ UNCHANGED <<archived, claimed, indexed, mark, crashes, todo, manual>>

(* The critic raised: hand the idea back, then end the process. *)
CriticRaised(w) ==
    /\ At(w, "asking")
    /\ ideas' = [ideas EXCEPT ![target[w]] = Release(@, "silent")]
    /\ Forget(w)
    /\ UNCHANGED <<archived, claimed, indexed, mark, crashes>>

(* The process is done: nothing left to score, or no re-score pass at all   *)
(* (the critic is paused, rescore_per_run is 0, or the run is a resynth).   *)
Finish(w) ==
    /\ \/ At(w, "pending") /\ queue[w] = {}
       \/ At(w, "groups") /\ todo[w] = {}
    /\ Forget(w)
    /\ UNCHANGED <<ideas, archived, claimed, indexed, mark, crashes>>

----------------------------------------------------------------------------
(* New material, crashes, time and the operator. *)

(* The archivist files the next nugget. *)
ArchiveNugget(n) ==
    /\ n \in Nugget \ archived /\ \A m \in Nugget \ archived : n <= m
    /\ archived' = archived \cup {n}
    /\ UNCHANGED <<ideas, claimed, indexed, mark, crashes, volatile>>

Crash(w) ==
    /\ crashes < CrashBound /\ pc[w] # "idle"
    /\ crashes' = crashes + 1
    /\ Forget(w)
    /\ UNCHANGED <<ideas, archived, claimed, indexed, mark>>

(* RESCORE_CLAIM_STALE_SECONDS go by.  Unless SlowCritic, no answer takes   *)
(* that long, so only an abandoned claim gets old.                          *)
Asking(w, i) == pc[w] \in {"asking", "release"} /\ target[w] = i
AgeClaim(i) ==
    /\ ideas[i].claim = "held"
    /\ SlowCritic \/ \A w \in Worker : ~Asking(w, i)
    /\ ideas' = [ideas EXCEPT ![i].claim = "stale"]
    /\ UNCHANGED <<archived, claimed, indexed, mark, crashes, volatile>>

(* `jester mark`: get_idea, then update_idea with the new status. *)
ReadForMark(i) ==
    /\ "mark" \in Operator /\ mark = NoMark /\ ideas[i].status = "new"
    /\ mark' = [id |-> i, row |-> [ideas[i] EXCEPT !.status = "marked"]]
    /\ UNCHANGED <<ideas, archived, claimed, indexed, crashes, volatile>>

WriteMark ==
    /\ mark # NoMark
    /\ UpdateIdea(mark.id, mark.row)
    /\ mark' = NoMark
    /\ UNCHANGED <<archived, claimed, indexed, crashes, volatile>>

(* mark_standin_scored: drop a stand-in's numbers and queue the idea. *)
MarkStandin(i) ==
    /\ "standin" \in Operator /\ ~ideas[i].needs
    /\ ideas' = [ideas EXCEPT ![i] = [@ EXCEPT !.scoredOn = {}, !.needs = TRUE]]
    /\ UNCHANGED <<archived, claimed, indexed, mark, crashes, volatile>>

----------------------------------------------------------------------------
Synthesize(w) ==
    \/ StopEarly(w)
    \/ \E g \in todo[w] :
          \/ SkipFallback(w, g)
          \/ \E a \in Answer, m \in {0} \cup indexed : Draft(w, g, a, m)
    \/ FoundDuplicate(w) \/ ClaimedElsewhere(w) \/ ClaimAndInsert(w)
    \/ IndexIdea(w) \/ Absorb(w) \/ Requeue(w)
    \/ ReadMerged(w) \/ (\E a \in Answer : ScoreMerged(w, a)) \/ WriteVerdict(w)

Rescore(w) ==
    \/ \E e \in queue[w] : ClaimForRescore(w, e) \/ LostClaim(w, e)
    \/ \E a \in Answer : ScorePending(w, a)
    \/ ReleaseClaim(w) \/ CriticRaised(w)

Environment ==
    \/ \E i \in Id : AgeClaim(i) \/ ReadForMark(i) \/ MarkStandin(i)
    \/ WriteMark \/ \E n \in Nugget : ArchiveNugget(n)

Next ==
    \/ \E w \in Worker :
          \/ StartRun(w) \/ (\E i \in Id : StartResynth(w, i))
          \/ Synthesize(w) \/ SelectPending(w) \/ Rescore(w)
          \/ Finish(w) \/ Crash(w)
    \/ Environment

Spec == Init /\ [][Next]_vars

(* A run is started again and again by the schedule, every process keeps    *)
(* taking its next step, half an hour passes, and the critic's quota        *)
(* returns each day, so a run that could re-score is not for ever paused.   *)
FairSpec ==
    /\ Spec
    /\ \A w \in Worker :
          /\ WF_vars(StartRun(w) \/ Synthesize(w) \/ Rescore(w) \/ Finish(w))
          /\ SF_vars(SelectPending(w) /\ queue'[w] # {})
    /\ \A i \in 1..Cardinality(Nugget) : WF_vars(i \in Id /\ AgeClaim(i))

----------------------------------------------------------------------------
(* Properties *)

TypeOK ==
    /\ ideas \in Seq(Row)
    /\ archived \subseteq Nugget /\ claimed \subseteq archived
    /\ indexed \subseteq Id
    /\ mark = NoMark \/ mark \in [id : Id, row : Row]
    /\ crashes \in 0..CrashBound
    /\ pc \in [Worker -> Stage]
    /\ todo \in [Worker -> SUBSET SUBSET Nugget]
    /\ cur \in [Worker -> SUBSET Nugget]
    /\ target \in [Worker -> Id \cup {0}]
    /\ critic \in [Worker -> Answer]
    /\ held \in [Worker -> Row]
    /\ queue \in [Worker -> SUBSET [id : Id, row : Row]]
    /\ manual \in [Worker -> BOOLEAN]

(* Evidence an idea rests on is never still in the unclaimed pool, whatever  *)
(* crashes and stale writes happen: the merge and the claim are one          *)
(* transaction, so no later run synthesizes it again (V3-01).                *)
SupportIsClaimed == \A i \in Id : ideas[i].support \subseteq claimed

(* Two ideas the pipeline archived on its own were never inserted on a       *)
(* common nugget: _claim_and_insert decides that under the write lock.       *)
BirthsDisjoint ==
    \A i, j \in Id : i # j /\ ~ideas[i].manual /\ ~ideas[j].manual =>
        ideas[i].born \cap ideas[j].born = {}

(* What the pool promises of evidence: whatever crashes and stale writes     *)
(* happen, what an idea rests on has left the pool for good, and no nugget   *)
(* gave birth to two of the pipeline's ideas.                                *)
EvidenceIsSound == SupportIsClaimed /\ BirthsDisjoint

(* A claimed nugget is evidence of some idea: the row and its evidence never *)
(* disagree about what the idea rests on (_absorb).                          *)
ClaimedIsSupported == claimed \subseteq UNION {ideas[i].support : i \in Id}

(* R49: an idea nobody is working on and the operator left alone either      *)
(* waits for the critic or carries a score given for exactly the evidence it *)
(* cites.                                                                    *)
Busy(i) == \E w \in Worker : target[w] = i /\ pc[w] \notin {"idle", "groups", "pending"}
ScoreMatchesEvidence ==
    \A i \in Id : ideas[i].status = "new" =>
        ideas[i].needs \/ Busy(i) \/ ideas[i].scoredOn = ideas[i].support

(* V3-02: two processes never pay for the same waiting idea's score at once. *)
OneAskerPerIdea ==
    \A v, w \in Worker : v # w /\ pc[v] = "asking" /\ pc[w] = "asking" =>
        target[v] # target[w]

(* A critic that does not answer changes nothing about the waiting idea but  *)
(* its attempt count (rescore_pending), unless it was marked meanwhile.      *)
SilenceChangesNothing ==
    [][\A w \in Worker :
          At(w, "asking") /\ pc'[w] = "release" /\ critic'[w] # "answered" =>
             LET i == target[w]
             IN  ideas[i].status = "new" =>
                    ideas'[i] = [ideas[i] EXCEPT !.needs = TRUE]]_vars

(* Evidence is only ever added to an idea the operator left alone: citations *)
(* a reviewer read do not vanish.                                            *)
EvidenceOnlyGrows ==
    [][\A i \in Id : ideas'[i].status = "new" =>
          ideas[i].support \subseteq ideas'[i].support]_vars

(* A manual resynth leaves every existing idea as it was (cmd_resynth).      *)
ResynthLeavesOriginals ==
    [][\A w \in Worker : manual[w] /\ pc'[w] # pc[w] =>
          \A i \in Id : ideas'[i] = ideas[i]]_vars

(* A row of ideas stands: no worker takes evidence away, a manual resynth    *)
(* leaves it alone, and a silent critic costs it one attempt.                *)
RowsStand == EvidenceOnlyGrows /\ ResynthLeavesOriginals /\ SilenceChangesNothing

(* Every waiting idea is scored or leaves the queue after StallAttempts, and  *)
(* is asked about by one process at a time: no refused idea starves the       *)
(* others, no dead worker keeps one claimed.                                 *)
WaitingIsServed ==
    /\ []OneAskerPerIdea
    /\ \A i \in 1..(Cardinality(Nugget) \div 2) :
          (i \in Id /\ Waiting(i)) ~> (i \in Id /\ ~Waiting(i))
=============================================================================
