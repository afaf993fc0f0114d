------------------------- MODULE IdeaArchiveProofs -------------------------
(***************************************************************************)
(* What holds of the idea archive for any number of processes, nuggets,    *)
(* crashes and re-score attempts.                                          *)
(***************************************************************************)
EXTENDS IdeaArchive, Requests, SequenceTheorems, TLAPS

(* A worker in one of these stages is about to write the row target names. *)
Writing == {"absorb", "index", "requeue", "merged", "ask", "verdict",
            "asking", "release"}

(* What is on disk: rows, and the evidence they stand on, are claimed. *)
Stored ==
    /\ ideas \in Seq(Row)
    /\ archived \subseteq Nugget /\ claimed \subseteq archived
    /\ indexed \subseteq Id
    /\ crashes \in 0..CrashBound
    /\ \A i \in Id : ideas[i].support \subseteq claimed /\ ideas[i].born \subseteq claimed
    /\ BirthsDisjoint

(* What `mark` holds between its read and its write. *)
MarkHeld ==
    mark = NoMark \/ (mark \in [id : Id, row : Row] /\ mark.row.support \subseteq claimed)

(* What the processes hold: a row read earlier cites only evidence that was  *)
(* claimed then, and a claim is never taken back.                            *)
VolatileType ==
    /\ pc \in [Worker -> Stage]
    /\ todo \in [Worker -> SUBSET SUBSET Nugget]
    /\ cur \in [Worker -> SUBSET Nugget]
    /\ target \in [Worker -> Id \cup {0}]
    /\ critic \in [Worker -> Answer]
    /\ held \in [Worker -> Row]
    /\ queue \in [Worker -> SUBSET [id : Id, row : Row]]
    /\ manual \in [Worker -> BOOLEAN]
Pools == \A w \in Worker : cur[w] \subseteq archived /\ todo[w] \subseteq SUBSET archived
Snapshots ==
    \A w \in Worker : /\ held[w].support \subseteq claimed
                      /\ \A e \in queue[w] : e.row.support \subseteq claimed
Targets == \A w \in Worker : pc[w] \in Writing => target[w] \in Id

Held == VolatileType /\ Pools /\ Snapshots /\ Targets
ArchiveInv == Stored /\ MarkHeld /\ Held

(* The store only grows. *)
Grows == archived \subseteq archived' /\ claimed \subseteq claimed' /\ Id \subseteq Id'

----------------------------------------------------------------------------
(* Replacing one row of a table. *)
LEMMA PutRow ==
    ASSUME NEW s \in Seq(Row), NEW i \in DOMAIN s, NEW r \in Row,
           NEW t, t = [s EXCEPT ![i] = r]
    PROVE  /\ t \in Seq(Row)
           /\ DOMAIN t = DOMAIN s
           /\ t[i] = r
           /\ \A j \in DOMAIN s : j # i => t[j] = s[j]
<1>1. t \in Seq(Row) /\ Len(t) = Len(s)
  BY ExceptSeq
<1> QED BY <1>1

(* Adding one row to a table. *)
LEMMA AddRow ==
    ASSUME NEW s \in Seq(Row), NEW r \in Row, NEW t, t = Append(s, r)
    PROVE  /\ t \in Seq(Row)
           /\ DOMAIN s \subseteq DOMAIN t
           /\ DOMAIN t = DOMAIN s \cup {Len(s) + 1}
           /\ Len(s) + 1 \notin DOMAIN s
           /\ t[Len(s) + 1] = r
           /\ \A j \in DOMAIN s : t[j] = s[j]
  BY AppendProperties

(* A group is a set of nuggets of the pool it was cut from. *)
LEMMA GroupsFromPool ==
    ASSUME NEW pool PROVE Groups(pool) \subseteq SUBSET pool
  BY DEF Groups, Chunks

(* The operators that change a row keep its type. *)
LEMMA RowOperators ==
    ASSUME NEW row \in Row, NEW g \in SUBSET Nugget, NEW a \in Answer
    PROVE  /\ Merged(row, g) \in Row /\ Merged(row, g).support = row.support \cup g
           /\ Requeued(row) \in Row /\ Requeued(row).support = row.support
           /\ Scored(row, a) \in Row /\ Scored(row, a).support = row.support
           /\ Release(row, a) \in Row /\ Release(row, a).support = row.support
           /\ \A op \in {Merged(row, g), Requeued(row), Release(row, a)} :
                 op.born = row.born /\ op.manual = row.manual
<1>1. Merged(row, g) \in Row /\ Merged(row, g).support = row.support \cup g
      /\ Merged(row, g).born = row.born /\ Merged(row, g).manual = row.manual
  BY DEF Merged, Row
<1>2. Requeued(row) \in Row /\ Requeued(row).support = row.support
      /\ Requeued(row).born = row.born /\ Requeued(row).manual = row.manual
  BY DEF Requeued, Row
<1>3. Scored(row, a) \in Row /\ Scored(row, a).support = row.support
  BY DEF Scored, Row
<1>4. Release(row, a) \in Row /\ Release(row, a).support = row.support
      /\ Release(row, a).born = row.born /\ Release(row, a).manual = row.manual
  <2>1. CASE a = "answered"
    BY <2>1 DEF Release, Row
  <2>2. CASE a # "answered"
    <3>1. Release(row, a) = [row EXCEPT !.claim = "none", !.tries = @ + 1]
      BY <2>2 DEF Release
    <3>2. row.tries + 1 \in Nat
      BY DEF Row
    <3> QED BY <3>1, <3>2 DEF Row
  <2> QED BY <2>1, <2>2
<1> QED BY <1>1, <1>2, <1>3, <1>4

(* A new row is a row. *)
LEMMA NewRowType ==
    ASSUME NEW g \in SUBSET Nugget, NEW s \in BOOLEAN, NEW m \in BOOLEAN
    PROVE  /\ NewRow(g, s, m) \in Row
           /\ NewRow(g, s, m).support = g /\ NewRow(g, s, m).born = g
           /\ NewRow(g, s, m).manual = m
  BY DEF NewRow, Row

LEMMA NoRowType == NoRow \in Row /\ NoRow.support = {}
  BY NewRowType DEF NoRow

----------------------------------------------------------------------------
(* The three ways a transaction changes the store. *)

(* It rewrites a row from one that cites claimed evidence. *)
LEMMA RowWritten ==
    ASSUME Stored, NEW i \in Id, NEW r \in Row,
           ideas' = [ideas EXCEPT ![i] = r],
           claimed \subseteq claimed', claimed' \subseteq archived,
           r.support \subseteq claimed',
           r.born = ideas[i].born, r.manual = ideas[i].manual,
           UNCHANGED <<archived, crashes>>, indexed' \subseteq Id
    PROVE  Stored' /\ Grows
<1>1. /\ ideas' \in Seq(Row) /\ Id' = Id /\ ideas'[i] = r
      /\ \A j \in Id : j # i => ideas'[j] = ideas[j]
  BY PutRow DEF Stored, Id
<1>2. BirthsDisjoint'
  BY <1>1 DEF Stored, BirthsDisjoint
<1>3. \A j \in Id' : ideas'[j].support \subseteq claimed' /\ ideas'[j].born \subseteq claimed'
  BY <1>1 DEF Stored
<1> QED BY <1>1, <1>2, <1>3 DEF Stored, Grows

(* It appends a row about nuggets nobody has claimed, or one made by hand. *)
LEMMA RowInserted ==
    ASSUME Stored, NEW g, g \subseteq archived, NEW s \in BOOLEAN, NEW m \in BOOLEAN,
           ideas' = Append(ideas, NewRow(g, s, m)),
           claimed' = claimed \cup g, m \/ Free(g),
           UNCHANGED <<archived, crashes, indexed>>
    PROVE  Stored' /\ Grows /\ Len(ideas) + 1 \in Id'
<1> DEFINE new == Len(ideas) + 1
           row == NewRow(g, s, m)
<1>1. row \in Row /\ row.support = g /\ row.born = g /\ row.manual = m
  BY NewRowType DEF Stored
<1> HIDE DEF row
<1>2. /\ ideas' \in Seq(Row) /\ Id' = Id \cup {new} /\ new \notin Id
      /\ ideas'[new] = row /\ \A j \in Id : ideas'[j] = ideas[j]
  BY <1>1, AddRow DEF Stored, Id, row
<1>3. \A i \in Id : ideas[i].born \cap g = {} \/ m
  BY DEF Stored, Free
<1>4. BirthsDisjoint'
  BY <1>1, <1>2, <1>3 DEF Stored, BirthsDisjoint
<1>5. \A j \in Id' : ideas'[j].support \subseteq claimed' /\ ideas'[j].born \subseteq claimed'
  BY <1>1, <1>2 DEF Stored
<1> QED BY <1>2, <1>4, <1>5 DEF Stored, Grows

(* It leaves the ideas and the claims alone. *)
LEMMA RowsKept ==
    ASSUME Stored, UNCHANGED <<ideas, claimed>>,
           archived \subseteq archived', archived' \subseteq Nugget,
           indexed' \subseteq Id, crashes' \in 0..CrashBound
    PROVE  Stored' /\ Grows
  BY DEF Stored, Grows, BirthsDisjoint, Id

(* What a process or `mark` holds stays good as the store grows. *)
LEMMA HeldKept ==
    ASSUME Held, Grows, UNCHANGED volatile, archived' \subseteq Nugget PROVE Held'
<1>1. VolatileType'
  BY DEF Held, VolatileType, Grows, volatile, Id
<1>2. Pools' /\ Snapshots'
  BY DEF Held, Pools, Snapshots, Grows, volatile
<1>3. Targets'
  BY DEF Held, Targets, Grows, volatile
<1> QED BY <1>1, <1>2, <1>3 DEF Held

LEMMA MarkKept ==
    ASSUME MarkHeld, Grows, UNCHANGED mark PROVE MarkHeld'
  BY DEF MarkHeld, Grows, NoMark, NoRow, NewRow

(* A process that dies, ends or gives up its group holds nothing new. *)
LEMMA ForgetHeld ==
    ASSUME Held, Grows, archived' \subseteq Nugget, NEW w \in Worker, Forget(w)
    PROVE  Held'
<1> USE NoRowType DEF Forget, EndIteration, Goto
<1>1. pc' \in [Worker -> Stage] /\ todo' \in [Worker -> SUBSET SUBSET Nugget]
      /\ cur' \in [Worker -> SUBSET Nugget] /\ target' \in [Worker -> Id' \cup {0}]
  BY DEF Held, VolatileType, Grows, Stage
<1>2. critic' \in [Worker -> Answer] /\ held' \in [Worker -> Row]
      /\ manual' \in [Worker -> BOOLEAN]
  BY DEF Held, VolatileType, Answer
<1>3. queue' \in [Worker -> SUBSET [id : Id', row : Row]]
  BY DEF Held, VolatileType, Grows
<1>4. Pools' /\ Snapshots'
  BY DEF Held, VolatileType, Pools, Snapshots, Grows
<1>5. Targets'
  BY DEF Held, VolatileType, Targets, Grows, Writing
<1> QED BY <1>1, <1>2, <1>3, <1>4, <1>5 DEF Held, VolatileType

LEMMA NextGroupHeld ==
    ASSUME Held, Grows, archived' \subseteq Nugget, NEW w \in Worker, NextGroup(w)
    PROVE  Held'
<1> USE NoRowType DEF NextGroup, EndIteration, Goto
<1>1. pc' \in [Worker -> Stage] /\ todo' \in [Worker -> SUBSET SUBSET Nugget]
      /\ cur' \in [Worker -> SUBSET Nugget] /\ target' \in [Worker -> Id' \cup {0}]
  BY DEF Held, VolatileType, Grows, Stage
<1>2. critic' \in [Worker -> Answer] /\ held' \in [Worker -> Row]
      /\ manual' \in [Worker -> BOOLEAN]
  BY DEF Held, VolatileType, Answer
<1>3. queue' \in [Worker -> SUBSET [id : Id', row : Row]]
  BY DEF Held, VolatileType, Grows
<1>4. Pools' /\ Snapshots'
  BY DEF Held, VolatileType, Pools, Snapshots, Grows
<1>5. Targets'
  BY DEF Held, VolatileType, Targets, Grows, Writing
<1> QED BY <1>1, <1>2, <1>3, <1>4, <1>5 DEF Held, VolatileType

(* What a worker is about to write is a row of the table. *)
LEMMA TargetRow ==
    ASSUME ArchiveInv, NEW w \in Worker, pc[w] \in Writing
    PROVE  /\ target[w] \in Id
           /\ ideas[target[w]] \in Row /\ ideas[target[w]].support \subseteq claimed
  BY ElementOfSeq, LenProperties DEF ArchiveInv, Held, Targets, Stored, Id

(* UpdateIdea replaces a row by one with the evidence of the row it is given. *)
LEMMA UpdateWritten ==
    ASSUME Stored, NEW i \in Id, NEW row \in Row, row.support \subseteq claimed,
           UpdateIdea(i, row), UNCHANGED <<archived, claimed, crashes, indexed>>
    PROVE  Stored' /\ Grows
<1> DEFINE r == [row EXCEPT !.tries = ideas[i].tries, !.claim = ideas[i].claim,
                            !.born = ideas[i].born, !.manual = ideas[i].manual]
<1>1. ideas[i] \in Row
  BY ElementOfSeq, LenProperties DEF Stored, Id
<1>2. r \in Row /\ r.support = row.support /\ r.born = ideas[i].born
      /\ r.manual = ideas[i].manual
  BY <1>1 DEF Row
<1>3. ideas' = [ideas EXCEPT ![i] = r]
  BY DEF UpdateIdea
<1> HIDE DEF r
<1> QED BY <1>2, <1>3, RowWritten DEF Stored

----------------------------------------------------------------------------
(* One lemma for each action. *)

(* A run cuts its groups from archived nuggets. *)
LEMMA StartRunKeeps ==
    ASSUME ArchiveInv, NEW w \in Worker,
           StartRun(w)
    PROVE  ArchiveInv'
<1>0. Groups(Unclaimed) \subseteq SUBSET archived
  BY GroupsFromPool DEF Unclaimed
<1>1. Stored' /\ Grows
  BY RowsKept DEF ArchiveInv, Stored, StartRun
<1>2. MarkHeld'
  BY <1>1, MarkKept DEF ArchiveInv, StartRun
<1>3. VolatileType'
  BY <1>1, <1>0 DEF ArchiveInv, Held, VolatileType, Grows, Stage, Stored,
         StartRun, At, Goto
<1>4. Pools'
  BY <1>1, <1>0 DEF ArchiveInv, Held, VolatileType, Pools, Grows, Stored,
         StartRun, At, Goto
<1>5. Snapshots'
  BY <1>1 DEF ArchiveInv, Held, VolatileType, Snapshots, Grows, Stored,
         StartRun, At, Goto
<1>6. Targets'
  BY <1>1 DEF ArchiveInv, Held, VolatileType, Targets, Grows, Writing,
         StartRun, At, Goto
<1> QED BY <1>1, <1>2, <1>3, <1>4, <1>5, <1>6 DEF ArchiveInv, Held

(* A resynth cuts its groups from an idea's evidence. *)
LEMMA StartResynthKeeps ==
    ASSUME ArchiveInv, NEW w \in Worker, NEW i \in Id,
           StartResynth(w, i)
    PROVE  ArchiveInv'
<1>0. Groups(ideas[i].support) \subseteq SUBSET archived
  BY GroupsFromPool DEF ArchiveInv, Stored
<1>1. Stored' /\ Grows
  BY RowsKept DEF ArchiveInv, Stored, StartResynth
<1>2. MarkHeld'
  BY <1>1, MarkKept DEF ArchiveInv, StartResynth
<1>3. VolatileType'
  BY <1>1, <1>0 DEF ArchiveInv, Held, VolatileType, Grows, Stage, Stored,
         StartResynth, At, Goto
<1>4. Pools'
  BY <1>1, <1>0 DEF ArchiveInv, Held, VolatileType, Pools, Grows, Stored,
         StartResynth, At, Goto
<1>5. Snapshots'
  BY <1>1 DEF ArchiveInv, Held, VolatileType, Snapshots, Grows, Stored,
         StartResynth, At, Goto
<1>6. Targets'
  BY <1>1 DEF ArchiveInv, Held, VolatileType, Targets, Grows, Writing,
         StartResynth, At, Goto
<1> QED BY <1>1, <1>2, <1>3, <1>4, <1>5, <1>6 DEF ArchiveInv, Held

LEMMA StopEarlyKeeps ==
    ASSUME ArchiveInv, NEW w \in Worker,
           StopEarly(w)
    PROVE  ArchiveInv'
<1>1. Stored' /\ Grows
  BY RowsKept DEF ArchiveInv, Stored, StopEarly
<1>2. MarkHeld'
  BY <1>1, MarkKept DEF ArchiveInv, StopEarly
<1>3. VolatileType'
  BY <1>1 DEF ArchiveInv, Held, VolatileType, Grows, Stage,
         StopEarly, At
<1>4. Pools'
  BY <1>1 DEF ArchiveInv, Held, VolatileType, Pools, Grows, Stored,
         StopEarly, At
<1>5. Snapshots'
  BY <1>1 DEF ArchiveInv, Held, VolatileType, Snapshots, Grows, Stored,
         StopEarly, At
<1>6. Targets'
  BY <1>1 DEF ArchiveInv, Held, VolatileType, Targets, Grows, Writing,
         StopEarly, At
<1> QED BY <1>1, <1>2, <1>3, <1>4, <1>5, <1>6 DEF ArchiveInv, Held

LEMMA SkipFallbackKeeps ==
    ASSUME ArchiveInv, NEW w \in Worker, NEW g \in todo[w],
           SkipFallback(w, g)
    PROVE  ArchiveInv'
<1>1. Stored' /\ Grows
  BY RowsKept DEF ArchiveInv, Stored, SkipFallback
<1>2. MarkHeld'
  BY <1>1, MarkKept DEF ArchiveInv, SkipFallback
<1>3. VolatileType'
  BY <1>1 DEF ArchiveInv, Held, VolatileType, Grows, Stage,
         SkipFallback, At
<1>4. Pools'
  BY <1>1 DEF ArchiveInv, Held, VolatileType, Pools, Grows, Stored,
         SkipFallback, At
<1>5. Snapshots'
  BY <1>1 DEF ArchiveInv, Held, VolatileType, Snapshots, Grows, Stored,
         SkipFallback, At
<1>6. Targets'
  BY <1>1 DEF ArchiveInv, Held, VolatileType, Targets, Grows, Writing,
         SkipFallback, At
<1> QED BY <1>1, <1>2, <1>3, <1>4, <1>5, <1>6 DEF ArchiveInv, Held

(* The match is a row that was indexed. *)
LEMMA DraftKeeps ==
    ASSUME ArchiveInv, NEW w \in Worker, NEW g \in todo[w], NEW a \in Answer,
           NEW m \in {0} \cup indexed,
           Draft(w, g, a, m)
    PROVE  ArchiveInv'
<1>1. Stored' /\ Grows
  BY RowsKept DEF ArchiveInv, Stored, Draft
<1>2. MarkHeld'
  BY <1>1, MarkKept DEF ArchiveInv, Draft
<1>3. VolatileType'
  BY <1>1 DEF ArchiveInv, Held, VolatileType, Grows, Stage, Stored,
         Draft, At, Goto
<1>4. Pools'
  BY <1>1 DEF ArchiveInv, Held, VolatileType, Pools, Grows, Stored,
         Draft, At, Goto
<1>5. Snapshots'
  BY <1>1 DEF ArchiveInv, Held, VolatileType, Snapshots, Grows, Stored,
         Draft, At, Goto
<1>6. Targets'
  BY <1>1 DEF ArchiveInv, Held, VolatileType, Targets, Grows, Writing, Stored,
         Draft, At, Goto
<1> QED BY <1>1, <1>2, <1>3, <1>4, <1>5, <1>6 DEF ArchiveInv, Held

(* The duplicate is a row whose evidence covers the group. *)
LEMMA FoundDuplicateKeeps ==
    ASSUME ArchiveInv, NEW w \in Worker,
           FoundDuplicate(w)
    PROVE  ArchiveInv'
<1>1. Stored' /\ Grows
  BY RowsKept DEF ArchiveInv, Stored, FoundDuplicate
<1>2. MarkHeld'
  BY <1>1, MarkKept DEF ArchiveInv, FoundDuplicate
<1>3. VolatileType'
  BY <1>1 DEF ArchiveInv, Held, VolatileType, Grows, Stage, Containing,
         FoundDuplicate, At, Goto
<1>4. Pools'
  BY <1>1 DEF ArchiveInv, Held, VolatileType, Pools, Grows, Stored,
         FoundDuplicate, At, Goto
<1>5. Snapshots'
  BY <1>1 DEF ArchiveInv, Held, VolatileType, Snapshots, Grows, Stored,
         FoundDuplicate, At, Goto
<1>6. Targets'
  BY <1>1 DEF ArchiveInv, Held, VolatileType, Targets, Grows, Writing, Containing,
         FoundDuplicate, At, Goto
<1> QED BY <1>1, <1>2, <1>3, <1>4, <1>5, <1>6 DEF ArchiveInv, Held

LEMMA ClaimedElsewhereKeeps ==
    ASSUME ArchiveInv, NEW w \in Worker,
           ClaimedElsewhere(w)
    PROVE  ArchiveInv'
<1>1. Stored' /\ Grows
  BY RowsKept DEF ArchiveInv, Stored, ClaimedElsewhere
<1>2. MarkHeld'
  BY <1>1, MarkKept DEF ArchiveInv, ClaimedElsewhere
<1>3. VolatileType'
  BY <1>1, NoRowType DEF ArchiveInv, Held, VolatileType, Grows, Stage, Answer,
         ClaimedElsewhere, At, Goto, EndIteration
<1>4. Pools'
  BY <1>1 DEF ArchiveInv, Held, VolatileType, Pools, Grows, Stored,
         ClaimedElsewhere, At, Goto, EndIteration
<1>5. Snapshots'
  BY <1>1, NoRowType DEF ArchiveInv, Held, VolatileType, Snapshots, Grows, Stored,
         ClaimedElsewhere, At, Goto, EndIteration
<1>6. Targets'
  BY <1>1 DEF ArchiveInv, Held, VolatileType, Targets, Grows, Writing,
         ClaimedElsewhere, At, Goto, EndIteration
<1> QED BY <1>1, <1>2, <1>3, <1>4, <1>5, <1>6 DEF ArchiveInv, Held

(* The claim and the insert are one transaction. *)
LEMMA ClaimAndInsertKeeps ==
    ASSUME ArchiveInv, NEW w \in Worker,
           ClaimAndInsert(w)
    PROVE  ArchiveInv'
<1>a. /\ (critic[w] = "answered") \in BOOLEAN
      /\ manual[w] \in BOOLEAN
  BY Zenon DEF ArchiveInv, Held, VolatileType
<1>b. cur[w] \subseteq archived /\ (manual[w] \/ Free(cur[w]))
  BY DEF ArchiveInv, Held, Pools, ClaimAndInsert
<1>0. Stored' /\ Grows /\ Len(ideas) + 1 \in Id'
  BY <1>a, <1>b, RowInserted DEF ArchiveInv, ClaimAndInsert, Stamp
<1>1. Stored' /\ Grows
  BY <1>0
<1>2. MarkHeld'
  BY <1>1, MarkKept DEF ArchiveInv, ClaimAndInsert
<1>3. VolatileType'
  BY <1>1, <1>0 DEF ArchiveInv, Held, VolatileType, Grows, Stage,
         ClaimAndInsert, At, Goto
<1>4. Pools'
  BY <1>1 DEF ArchiveInv, Held, VolatileType, Pools, Grows, Stored,
         ClaimAndInsert, At, Goto
<1>5. Snapshots'
  BY <1>1 DEF ArchiveInv, Held, VolatileType, Snapshots, Grows, Stored,
         ClaimAndInsert, At, Goto
<1>6. Targets'
  BY <1>1, <1>0 DEF ArchiveInv, Held, VolatileType, Targets, Grows, Writing,
         ClaimAndInsert, At, Goto
<1> QED BY <1>1, <1>2, <1>3, <1>4, <1>5, <1>6 DEF ArchiveInv, Held

LEMMA IndexIdeaKeeps ==
    ASSUME ArchiveInv, NEW w \in Worker,
           IndexIdea(w)
    PROVE  ArchiveInv'
<1>0. /\ target[w] \in Id
      /\ ideas[target[w]] \in Row /\ ideas[target[w]].support \subseteq claimed
  BY TargetRow DEF Writing, At, IndexIdea
<1>1. Stored' /\ Grows
  BY <1>0, RowsKept DEF ArchiveInv, Stored, IndexIdea
<1>2. MarkHeld'
  BY <1>1, MarkKept DEF ArchiveInv, IndexIdea
<1>3. Held'
  BY <1>1, NextGroupHeld DEF ArchiveInv, Stored, IndexIdea
<1> QED BY <1>1, <1>2, <1>3 DEF ArchiveInv

(* The merge and the claim are one transaction. *)
LEMMA AbsorbKeeps ==
    ASSUME ArchiveInv, NEW w \in Worker,
           Absorb(w)
    PROVE  ArchiveInv'
<1>0. /\ target[w] \in Id
      /\ ideas[target[w]] \in Row /\ ideas[target[w]].support \subseteq claimed
  BY TargetRow DEF Writing, At, Absorb
<1> DEFINE r == Merged(ideas[target[w]], cur[w])
<1>1. Stored' /\ Grows
  <2>1. cur[w] \subseteq archived /\ cur[w] \in SUBSET Nugget
    BY DEF ArchiveInv, Held, Pools, VolatileType
  <2>2. /\ r \in Row /\ r.support = ideas[target[w]].support \cup cur[w]
        /\ r.born = ideas[target[w]].born /\ r.manual = ideas[target[w]].manual
    BY <1>0, <2>1, RowOperators DEF Answer
  <2>3. ideas' = [ideas EXCEPT ![target[w]] = r] /\ claimed' = claimed \cup cur[w]
        /\ UNCHANGED <<archived, indexed, crashes>>
    BY DEF Absorb, Stamp
  <2> HIDE DEF r
  <2> QED BY <1>0, <2>1, <2>2, <2>3, RowWritten DEF ArchiveInv, Stored
<1>2. MarkHeld'
  BY <1>1, MarkKept DEF ArchiveInv, Absorb
<1>3. Held'
  <2>1. CASE NextGroup(w)
    BY <1>1, <2>1, NextGroupHeld DEF ArchiveInv, Stored, Absorb
  <2>2. CASE /\ Goto(w, IF critic[w] = "limited" THEN "requeue" ELSE "merged")
             /\ UNCHANGED <<todo, cur, target, critic, held, queue, manual>>
    <3>1. VolatileType'
      BY <1>1, <2>2 DEF ArchiveInv, Held, VolatileType, Grows, Stage, Goto
    <3>2. Pools' /\ Snapshots'
      BY <1>1, <2>2 DEF ArchiveInv, Held, Pools, Snapshots, Grows
    <3>3. Targets'
      BY <1>0, <1>1, <2>2 DEF ArchiveInv, Held, VolatileType, Targets, Grows, Goto
    <3> QED BY <3>1, <3>2, <3>3 DEF Held
  <2> QED BY <2>1, <2>2 DEF Absorb
<1> QED BY <1>1, <1>2, <1>3 DEF ArchiveInv

LEMMA RequeueKeeps ==
    ASSUME ArchiveInv, NEW w \in Worker,
           Requeue(w)
    PROVE  ArchiveInv'
<1>0. /\ target[w] \in Id
      /\ ideas[target[w]] \in Row /\ ideas[target[w]].support \subseteq claimed
  BY TargetRow DEF Writing, At, Requeue
<1>1. Stored' /\ Grows
  <2> DEFINE r == Requeued(ideas[target[w]])
  <2>1. /\ r \in Row /\ r.support = ideas[target[w]].support
        /\ r.born = ideas[target[w]].born /\ r.manual = ideas[target[w]].manual
    BY <1>0, RowOperators DEF Answer
  <2>2. ideas' = [ideas EXCEPT ![target[w]] = r] /\ UNCHANGED <<archived, claimed, indexed, crashes>>
    BY DEF Requeue
  <2> HIDE DEF r
  <2> QED BY <1>0, <2>1, <2>2, RowWritten DEF ArchiveInv, Stored
<1>2. MarkHeld'
  BY <1>1, MarkKept DEF ArchiveInv, Requeue
<1>3. Held'
  BY <1>1, NextGroupHeld DEF ArchiveInv, Stored, Requeue
<1> QED BY <1>1, <1>2, <1>3 DEF ArchiveInv

(* The row read cites claimed evidence. *)
LEMMA ReadMergedKeeps ==
    ASSUME ArchiveInv, NEW w \in Worker,
           ReadMerged(w)
    PROVE  ArchiveInv'
<1>0. /\ target[w] \in Id
      /\ ideas[target[w]] \in Row /\ ideas[target[w]].support \subseteq claimed
  BY TargetRow DEF Writing, At, ReadMerged
<1>1. Stored' /\ Grows
  BY RowsKept DEF ArchiveInv, Stored, ReadMerged
<1>2. MarkHeld'
  BY <1>1, MarkKept DEF ArchiveInv, ReadMerged
<1>3. VolatileType'
  BY <1>1, <1>0 DEF ArchiveInv, Held, VolatileType, Grows, Stage,
         ReadMerged, At, Goto
<1>4. Pools'
  BY <1>1 DEF ArchiveInv, Held, VolatileType, Pools, Grows, Stored,
         ReadMerged, At, Goto
<1>5. Snapshots'
  BY <1>1, <1>0 DEF ArchiveInv, Held, VolatileType, Snapshots, Grows, Stored,
         ReadMerged, At, Goto
<1>6. Targets'
  BY <1>1, <1>0 DEF ArchiveInv, Held, VolatileType, Targets, Grows, Writing,
         ReadMerged, At, Goto
<1> QED BY <1>1, <1>2, <1>3, <1>4, <1>5, <1>6 DEF ArchiveInv, Held

(* The row written is the one read, whose evidence stays claimed. *)
LEMMA ScoreMergedKeeps ==
    ASSUME ArchiveInv, NEW w \in Worker, NEW a \in Answer,
           ScoreMerged(w, a)
    PROVE  ArchiveInv'
<1>0. /\ target[w] \in Id
      /\ ideas[target[w]] \in Row /\ ideas[target[w]].support \subseteq claimed
  BY TargetRow DEF Writing, At, ScoreMerged
<1>a. held[w] \in Row /\ held[w].support \subseteq claimed
  BY DEF ArchiveInv, Held, VolatileType, Snapshots
<1>b. Scored(held[w], a) \in Row /\ Scored(held[w], a).support = held[w].support
  BY <1>a, RowOperators
<1>1. Stored' /\ Grows
  BY <1>0, <1>a, <1>b, UpdateWritten DEF ArchiveInv, ScoreMerged
<1>2. MarkHeld'
  BY <1>1, MarkKept DEF ArchiveInv, ScoreMerged
<1>3. Held'
  <2>1. CASE NextGroup(w)
    BY <1>1, <2>1, NextGroupHeld DEF ArchiveInv, Stored, ScoreMerged
  <2>2. CASE /\ Goto(w, "verdict")
             /\ held' = [held EXCEPT ![w] = Scored(held[w], a)]
             /\ UNCHANGED <<todo, cur, target, critic, queue, manual>>
    <3>1. VolatileType'
      BY <1>1, <1>b, <2>2 DEF ArchiveInv, Held, VolatileType, Grows, Stage, Goto
    <3>2. Pools' /\ Snapshots'
      BY <1>1, <1>a, <1>b, <2>2 DEF ArchiveInv, Held, VolatileType, Pools, Snapshots, Grows
    <3>3. Targets'
      BY <1>0, <1>1, <2>2 DEF ArchiveInv, Held, VolatileType, Targets, Grows, Goto
    <3> QED BY <3>1, <3>2, <3>3 DEF Held
  <2> QED BY <2>1, <2>2 DEF ScoreMerged
<1> QED BY <1>1, <1>2, <1>3 DEF ArchiveInv

LEMMA WriteVerdictKeeps ==
    ASSUME ArchiveInv, NEW w \in Worker,
           WriteVerdict(w)
    PROVE  ArchiveInv'
<1>0. /\ target[w] \in Id
      /\ ideas[target[w]] \in Row /\ ideas[target[w]].support \subseteq claimed
  BY TargetRow DEF Writing, At, WriteVerdict
<1>1. Stored' /\ Grows
  <2>1. held[w] \in Row /\ held[w].support \subseteq claimed
    BY DEF ArchiveInv, Held, VolatileType, Snapshots
  <2> QED BY <1>0, <2>1, UpdateWritten DEF ArchiveInv, WriteVerdict
<1>2. MarkHeld'
  BY <1>1, MarkKept DEF ArchiveInv, WriteVerdict
<1>3. Held'
  BY <1>1, NextGroupHeld DEF ArchiveInv, Stored, WriteVerdict
<1> QED BY <1>1, <1>2, <1>3 DEF ArchiveInv

(* The rows selected are rows of the table. *)
LEMMA SelectPendingKeeps ==
    ASSUME ArchiveInv, NEW w \in Worker,
           SelectPending(w)
    PROVE  ArchiveInv'
<1>0. PICK S \in SUBSET Id :
        queue' = [queue EXCEPT ![w] = {[id |-> i, row |-> ideas[i]] : i \in S}]
  BY DEF SelectPending
<1>a. \A i \in Id : ideas[i] \in Row /\ ideas[i].support \subseteq claimed
  BY ElementOfSeq, LenProperties DEF ArchiveInv, Stored, Id
<1>b. {[id |-> i, row |-> ideas[i]] : i \in S} \in SUBSET [id : Id, row : Row]
  BY <1>a
<1>1. Stored' /\ Grows
  BY RowsKept DEF ArchiveInv, Stored, SelectPending
<1>2. MarkHeld'
  BY <1>1, MarkKept DEF ArchiveInv, SelectPending
<1>3. VolatileType'
  BY <1>1, <1>0, <1>b DEF ArchiveInv, Held, VolatileType, Grows, Stage,
         SelectPending, At, Goto
<1>4. Pools'
  BY <1>1, <1>0 DEF ArchiveInv, Held, VolatileType, Pools, Grows, Stored,
         SelectPending, At, Goto
<1>5. Snapshots'
  BY <1>1, <1>0, <1>a DEF ArchiveInv, Held, VolatileType, Snapshots, Grows, Stored,
         SelectPending, At, Goto
<1>6. Targets'
  BY <1>1 DEF ArchiveInv, Held, VolatileType, Targets, Grows, Writing,
         SelectPending, At, Goto
<1> QED BY <1>1, <1>2, <1>3, <1>4, <1>5, <1>6 DEF ArchiveInv, Held

LEMMA ClaimForRescoreKeeps ==
    ASSUME ArchiveInv, NEW w \in Worker, NEW e \in queue[w],
           ClaimForRescore(w, e)
    PROVE  ArchiveInv'
<1>0. e \in [id : Id, row : Row] /\ e.row.support \subseteq claimed
  BY DEF ArchiveInv, Held, VolatileType, Snapshots
<1>a. ideas[e.id] \in Row /\ ideas[e.id].support \subseteq claimed
  BY <1>0, ElementOfSeq, LenProperties DEF ArchiveInv, Stored, Id
<1>1. Stored' /\ Grows
  <2> DEFINE r == [ideas[e.id] EXCEPT !.claim = "held"]
  <2>1. /\ r \in Row /\ r.support = ideas[e.id].support
        /\ r.born = ideas[e.id].born /\ r.manual = ideas[e.id].manual
    BY <1>a DEF Row
  <2>2. ideas' = [ideas EXCEPT ![e.id] = r] /\ UNCHANGED <<archived, claimed, indexed, crashes>>
    BY DEF ClaimForRescore
  <2> HIDE DEF r
  <2> QED BY <1>0, <1>a, <2>1, <2>2, RowWritten DEF ArchiveInv, Stored
<1>2. MarkHeld'
  BY <1>1, MarkKept DEF ArchiveInv, ClaimForRescore
<1>3. VolatileType'
  BY <1>1, <1>0 DEF ArchiveInv, Held, VolatileType, Grows, Stage,
         ClaimForRescore, At, Goto
<1>4. Pools'
  BY <1>1 DEF ArchiveInv, Held, VolatileType, Pools, Grows, Stored,
         ClaimForRescore, At, Goto
<1>5. Snapshots'
  BY <1>1, <1>0 DEF ArchiveInv, Held, VolatileType, Snapshots, Grows, Stored,
         ClaimForRescore, At, Goto
<1>6. Targets'
  BY <1>1, <1>0 DEF ArchiveInv, Held, VolatileType, Targets, Grows, Writing,
         ClaimForRescore, At, Goto
<1> QED BY <1>1, <1>2, <1>3, <1>4, <1>5, <1>6 DEF ArchiveInv, Held

LEMMA LostClaimKeeps ==
    ASSUME ArchiveInv, NEW w \in Worker, NEW e \in queue[w],
           LostClaim(w, e)
    PROVE  ArchiveInv'
<1>1. Stored' /\ Grows
  BY RowsKept DEF ArchiveInv, Stored, LostClaim
<1>2. MarkHeld'
  BY <1>1, MarkKept DEF ArchiveInv, LostClaim
<1>3. VolatileType'
  BY <1>1 DEF ArchiveInv, Held, VolatileType, Grows, Stage,
         LostClaim, At
<1>4. Pools'
  BY <1>1 DEF ArchiveInv, Held, VolatileType, Pools, Grows, Stored,
         LostClaim, At
<1>5. Snapshots'
  BY <1>1 DEF ArchiveInv, Held, VolatileType, Snapshots, Grows, Stored,
         LostClaim, At
<1>6. Targets'
  BY <1>1 DEF ArchiveInv, Held, VolatileType, Targets, Grows, Writing,
         LostClaim, At
<1> QED BY <1>1, <1>2, <1>3, <1>4, <1>5, <1>6 DEF ArchiveInv, Held

(* The row written is the one the queue was read with. *)
LEMMA ScorePendingKeeps ==
    ASSUME ArchiveInv, NEW w \in Worker, NEW a \in Answer,
           ScorePending(w, a)
    PROVE  ArchiveInv'
<1>0. /\ target[w] \in Id
      /\ ideas[target[w]] \in Row /\ ideas[target[w]].support \subseteq claimed
  BY TargetRow DEF Writing, At, ScorePending
<1>1. Stored' /\ Grows
  <2>1. held[w] \in Row /\ held[w].support \subseteq claimed
    BY DEF ArchiveInv, Held, VolatileType, Snapshots
  <2>2. Scored(held[w], a) \in Row /\ Scored(held[w], a).support = held[w].support
    BY <2>1, RowOperators
  <2> QED BY <1>0, <2>1, <2>2, UpdateWritten DEF ArchiveInv, ScorePending
<1>2. MarkHeld'
  BY <1>1, MarkKept DEF ArchiveInv, ScorePending
<1>3. VolatileType'
  BY <1>1 DEF ArchiveInv, Held, VolatileType, Grows, Stage,
         ScorePending, At, Goto
<1>4. Pools'
  BY <1>1 DEF ArchiveInv, Held, VolatileType, Pools, Grows, Stored,
         ScorePending, At, Goto
<1>5. Snapshots'
  BY <1>1 DEF ArchiveInv, Held, VolatileType, Snapshots, Grows, Stored,
         ScorePending, At, Goto
<1>6. Targets'
  BY <1>1, <1>0 DEF ArchiveInv, Held, VolatileType, Targets, Grows, Writing,
         ScorePending, At, Goto
<1> QED BY <1>1, <1>2, <1>3, <1>4, <1>5, <1>6 DEF ArchiveInv, Held

LEMMA ReleaseClaimKeeps ==
    ASSUME ArchiveInv, NEW w \in Worker,
           ReleaseClaim(w)
    PROVE  ArchiveInv'
<1>0. /\ target[w] \in Id
      /\ ideas[target[w]] \in Row /\ ideas[target[w]].support \subseteq claimed
  BY TargetRow DEF Writing, At, ReleaseClaim
<1>1. Stored' /\ Grows
  <2> DEFINE r == Release(ideas[target[w]], critic[w])
  <2>0. critic[w] \in Answer
    BY DEF ArchiveInv, Held, VolatileType, Answer
  <2>1. /\ r \in Row /\ r.support = ideas[target[w]].support
        /\ r.born = ideas[target[w]].born /\ r.manual = ideas[target[w]].manual
    BY <1>0, <2>0, RowOperators
  <2>2. ideas' = [ideas EXCEPT ![target[w]] = r] /\ UNCHANGED <<archived, claimed, indexed, crashes>>
    BY DEF ReleaseClaim
  <2> HIDE DEF r
  <2> QED BY <1>0, <2>1, <2>2, RowWritten DEF ArchiveInv, Stored
<1>2. MarkHeld'
  BY <1>1, MarkKept DEF ArchiveInv, ReleaseClaim
<1>3. VolatileType'
  BY <1>1, NoRowType DEF ArchiveInv, Held, VolatileType, Grows, Stage, Answer,
         ReleaseClaim, At, Goto, EndIteration
<1>4. Pools'
  BY <1>1 DEF ArchiveInv, Held, VolatileType, Pools, Grows, Stored,
         ReleaseClaim, At, Goto, EndIteration
<1>5. Snapshots'
  BY <1>1, NoRowType DEF ArchiveInv, Held, VolatileType, Snapshots, Grows, Stored,
         ReleaseClaim, At, Goto, EndIteration
<1>6. Targets'
  BY <1>1 DEF ArchiveInv, Held, VolatileType, Targets, Grows, Writing,
         ReleaseClaim, At, Goto, EndIteration
<1> QED BY <1>1, <1>2, <1>3, <1>4, <1>5, <1>6 DEF ArchiveInv, Held

LEMMA CriticRaisedKeeps ==
    ASSUME ArchiveInv, NEW w \in Worker,
           CriticRaised(w)
    PROVE  ArchiveInv'
<1>0. /\ target[w] \in Id
      /\ ideas[target[w]] \in Row /\ ideas[target[w]].support \subseteq claimed
  BY TargetRow DEF Writing, At, CriticRaised
<1>1. Stored' /\ Grows
  <2> DEFINE r == Release(ideas[target[w]], "silent")
  <2>0. "silent" \in Answer
    BY DEF ArchiveInv, Held, VolatileType, Answer
  <2>1. /\ r \in Row /\ r.support = ideas[target[w]].support
        /\ r.born = ideas[target[w]].born /\ r.manual = ideas[target[w]].manual
    BY <1>0, <2>0, RowOperators
  <2>2. ideas' = [ideas EXCEPT ![target[w]] = r] /\ UNCHANGED <<archived, claimed, indexed, crashes>>
    BY DEF CriticRaised
  <2> HIDE DEF r
  <2> QED BY <1>0, <2>1, <2>2, RowWritten DEF ArchiveInv, Stored
<1>2. MarkHeld'
  BY <1>1, MarkKept DEF ArchiveInv, CriticRaised
<1>3. Held'
  BY <1>1, ForgetHeld DEF ArchiveInv, Stored, CriticRaised
<1> QED BY <1>1, <1>2, <1>3 DEF ArchiveInv

LEMMA FinishKeeps ==
    ASSUME ArchiveInv, NEW w \in Worker,
           Finish(w)
    PROVE  ArchiveInv'
<1>1. Stored' /\ Grows
  BY RowsKept DEF ArchiveInv, Stored, Finish
<1>2. MarkHeld'
  BY <1>1, MarkKept DEF ArchiveInv, Finish
<1>3. Held'
  BY <1>1, ForgetHeld DEF ArchiveInv, Stored, Finish
<1> QED BY <1>1, <1>2, <1>3 DEF ArchiveInv

LEMMA CrashKeeps ==
    ASSUME ArchiveInv, NEW w \in Worker,
           Crash(w)
    PROVE  ArchiveInv'
<1>1. Stored' /\ Grows
  BY ArchiveAssumption, RowsKept DEF ArchiveInv, Stored, Crash
<1>2. MarkHeld'
  BY <1>1, MarkKept DEF ArchiveInv, Crash
<1>3. Held'
  BY <1>1, ForgetHeld DEF ArchiveInv, Stored, Crash
<1> QED BY <1>1, <1>2, <1>3 DEF ArchiveInv

(* The steps that are not a worker's. *)
LEMMA EnvironmentKeeps ==
    ASSUME ArchiveInv, Environment PROVE ArchiveInv'
<1>1. CASE WriteMark
  <2>1. mark \in [id : Id, row : Row] /\ mark.row.support \subseteq claimed
    BY <1>1 DEF ArchiveInv, MarkHeld, WriteMark
  <2>2. Stored' /\ Grows
    BY <1>1, <2>1, UpdateWritten DEF ArchiveInv, WriteMark
  <2>3. Held'
    BY <1>1, <2>2, HeldKept DEF ArchiveInv, Stored, WriteMark
  <2>4. MarkHeld'
    BY <1>1 DEF MarkHeld, WriteMark, NoMark, NoRow, NewRow
  <2> QED BY <2>2, <2>3, <2>4 DEF ArchiveInv
<1>2. ASSUME NEW n \in Nugget, ArchiveNugget(n) PROVE ArchiveInv'
  <2>1. Stored' /\ Grows
    BY <1>2, RowsKept DEF ArchiveInv, Stored, ArchiveNugget
  <2> QED BY <1>2, <2>1, HeldKept, MarkKept DEF ArchiveInv, Stored, ArchiveNugget
<1>3. ASSUME NEW i \in Id, AgeClaim(i) PROVE ArchiveInv'
  <2> DEFINE r == [ideas[i] EXCEPT !.claim = "stale"]
  <2>1. ideas[i] \in Row /\ ideas[i].support \subseteq claimed
    BY ElementOfSeq, LenProperties DEF ArchiveInv, Stored, Id
  <2>2. /\ r \in Row /\ r.support = ideas[i].support
        /\ r.born = ideas[i].born /\ r.manual = ideas[i].manual
    BY <2>1 DEF Row
  <2>3. ideas' = [ideas EXCEPT ![i] = r]
        /\ UNCHANGED <<archived, claimed, indexed, mark, crashes, volatile>>
    BY <1>3 DEF AgeClaim
  <2> HIDE DEF r
  <2>4. Stored' /\ Grows
    BY <2>1, <2>2, <2>3, RowWritten DEF ArchiveInv, Stored
  <2> QED BY <2>3, <2>4, HeldKept, MarkKept DEF ArchiveInv, Stored
<1>4. ASSUME NEW i \in Id, ReadForMark(i) PROVE ArchiveInv'
  <2>1. ideas[i] \in Row /\ ideas[i].support \subseteq claimed
    BY ElementOfSeq, LenProperties DEF ArchiveInv, Stored, Id
  <2>2. Stored' /\ Grows
    BY <1>4, RowsKept DEF ArchiveInv, Stored, ReadForMark
  <2>3. Held'
    BY <1>4, <2>2, HeldKept DEF ArchiveInv, Stored, ReadForMark
  <2> DEFINE r == [ideas[i] EXCEPT !.status = "marked"]
  <2>4. r \in Row /\ r.support = ideas[i].support
    BY <2>1 DEF Row
  <2>5. mark' = [id |-> i, row |-> r] /\ claimed' = claimed
    BY <1>4 DEF ReadForMark
  <2> HIDE DEF r
  <2>6. MarkHeld'
    BY <2>1, <2>2, <2>4, <2>5 DEF MarkHeld, Grows
  <2> QED BY <2>2, <2>3, <2>6 DEF ArchiveInv
<1>5. ASSUME NEW i \in Id, MarkStandin(i) PROVE ArchiveInv'
  <2> DEFINE r == [ideas[i] EXCEPT !.scoredOn = {}, !.needs = TRUE]
  <2>1. ideas[i] \in Row /\ ideas[i].support \subseteq claimed
    BY ElementOfSeq, LenProperties DEF ArchiveInv, Stored, Id
  <2>2. /\ r \in Row /\ r.support = ideas[i].support
        /\ r.born = ideas[i].born /\ r.manual = ideas[i].manual
    BY <2>1 DEF Row
  <2>3. ideas' = [ideas EXCEPT ![i] = r]
        /\ UNCHANGED <<archived, claimed, indexed, mark, crashes, volatile>>
    BY <1>5 DEF MarkStandin
  <2> HIDE DEF r
  <2>4. Stored' /\ Grows
    BY <2>1, <2>2, <2>3, RowWritten DEF ArchiveInv, Stored
  <2> QED BY <2>3, <2>4, HeldKept, MarkKept DEF ArchiveInv, Stored
<1> QED BY <1>1, <1>2, <1>3, <1>4, <1>5 DEF Environment

LEMMA WorkerKeeps ==
    ASSUME ArchiveInv, NEW w \in Worker,
           \/ StartRun(w) \/ (\E i \in Id : StartResynth(w, i))
           \/ Synthesize(w) \/ SelectPending(w) \/ Rescore(w)
           \/ Finish(w) \/ Crash(w)
    PROVE  ArchiveInv'
<1>1. CASE Synthesize(w)
  <2>1. ASSUME NEW g \in todo[w], SkipFallback(w, g) PROVE ArchiveInv'
    BY <2>1, SkipFallbackKeeps
  <2>2. ASSUME NEW g \in todo[w], NEW a \in Answer, NEW m \in {0} \cup indexed,
               Draft(w, g, a, m)
        PROVE  ArchiveInv'
    BY <2>2, DraftKeeps
  <2>3. ASSUME NEW a \in Answer, ScoreMerged(w, a) PROVE ArchiveInv'
    BY <2>3, ScoreMergedKeeps
  <2> QED BY <1>1, <2>1, <2>2, <2>3, StopEarlyKeeps, FoundDuplicateKeeps,
             ClaimedElsewhereKeeps, ClaimAndInsertKeeps, IndexIdeaKeeps, AbsorbKeeps,
             RequeueKeeps, ReadMergedKeeps, WriteVerdictKeeps DEF Synthesize
<1>2. CASE Rescore(w)
  <2>1. ASSUME NEW e \in queue[w], ClaimForRescore(w, e) PROVE ArchiveInv'
    BY <2>1, ClaimForRescoreKeeps
  <2>2. ASSUME NEW e \in queue[w], LostClaim(w, e) PROVE ArchiveInv'
    BY <2>2, LostClaimKeeps
  <2>3. ASSUME NEW a \in Answer, ScorePending(w, a) PROVE ArchiveInv'
    BY <2>3, ScorePendingKeeps
  <2> QED BY <1>2, <2>1, <2>2, <2>3, ReleaseClaimKeeps, CriticRaisedKeeps DEF Rescore
<1>3. CASE \E i \in Id : StartResynth(w, i)
  BY <1>3, StartResynthKeeps
<1> QED BY <1>1, <1>2, <1>3, StartRunKeeps, SelectPendingKeeps, FinishKeeps, CrashKeeps

LEMMA InitHolds == Init => ArchiveInv
<1> SUFFICES ASSUME Init PROVE ArchiveInv
  OBVIOUS
<1>1. ideas \in Seq(Row) /\ Id = {}
  BY EmptySeq DEF Init, Id
<1>2. Stored /\ MarkHeld
  BY <1>1, ArchiveAssumption DEF Init, Stored, MarkHeld, BirthsDisjoint
<1>3. VolatileType
  BY NoRowType DEF Init, VolatileType, Stage, Answer
<1>4. Pools /\ Snapshots /\ Targets
  BY NoRowType DEF Init, Pools, Snapshots, Targets, Writing
<1> QED BY <1>2, <1>3, <1>4 DEF ArchiveInv, Held

----------------------------------------------------------------------------
(* What a worker holds and what is stored stay consistent, for ever. *)
THEOREM ArchiveInvariant == Spec => []ArchiveInv
<1>1. ArchiveInv /\ [Next]_vars => ArchiveInv'
  <2> SUFFICES ASSUME ArchiveInv, [Next]_vars PROVE ArchiveInv'
    OBVIOUS
  <2>1. CASE UNCHANGED vars
    <3>1. Stored' /\ Grows
      BY <2>1, RowsKept DEF ArchiveInv, Stored, vars
    <3> QED BY <2>1, <3>1, HeldKept, MarkKept DEF ArchiveInv, Stored, vars
  <2>2. CASE Environment
    BY <2>2, EnvironmentKeeps
  <2> QED BY <2>1, <2>2, WorkerKeeps DEF Next
<1> QED BY <1>1, InitHolds, PTL DEF Spec

(* Every variable keeps its type; a claimed nugget is an archived one. *)
THEOREM ArchiveTypes == Spec => []TypeOK
<1>1. ArchiveInv => TypeOK
  BY DEF ArchiveInv, Stored, MarkHeld, Held, VolatileType, TypeOK
<1> QED BY <1>1, ArchiveInvariant, PTL

(* Any number of processes, whatever crashes and stale writes happen: no      *)
(* nugget an idea cites is left unclaimed for another run to synthesize again *)
(* (_absorb, V3-01), and none starts two of the pipeline's own ideas          *)
(* (_claim_and_insert decides under the write lock).                          *)
THEOREM EvidenceStaysClaimed == Spec => []EvidenceIsSound
<1>1. ArchiveInv => EvidenceIsSound
  BY DEF ArchiveInv, Stored, EvidenceIsSound, SupportIsClaimed
<1> QED BY <1>1, ArchiveInvariant, PTL

----------------------------------------------------------------------------
(* The score on file.  A row is up to date when it waits for the critic or  *)
(* its score was given for the evidence on it; a worker repairs a row from  *)
(* the merge that made it out of date to the write that ends that.          *)
Current(row) == row.needs \/ row.scoredOn = row.support
RepairStage == {"requeue", "merged", "ask"}
Repairs(w, i) == pc[w] \in RepairStage /\ target[w] = i
RowsScored ==
    \A i \in Id : ideas[i].status = "new" =>
        Current(ideas[i]) \/ \E w \in Worker : Repairs(w, i)

(* What is held for the second write is a score of the evidence it cites,   *)
(* and what `mark` holds is marked.                                         *)
VerdictsScored == \A w \in Worker : pc[w] = "verdict" => held[w].scoredOn = held[w].support
MarkMarks == mark = NoMark \/ mark.row.status = "marked"

(* A crash between a merge and its re-scoring leaves nobody to repair it.   *)
ScoreInv == (crashes = 0 => RowsScored) /\ VerdictsScored /\ MarkMarks

Good(i) == ideas[i].status # "new" \/ Current(ideas[i])
SameScore(row, new) ==
    /\ new.status = row.status /\ new.support = row.support
    /\ new.scoredOn = row.scoredOn /\ new.needs = row.needs
Unmoved(v) == pc'[v] = pc[v] /\ target'[v] = target[v] /\ held'[v] = held[v]
OnlyMoves(w) == \A v \in Worker \ {w} : Unmoved(v)

(* A step of one worker leaves each row good, under its repair, or as it    *)
(* was and no less repaired.                                                *)
LEMMA ScoreKept ==
    ASSUME ScoreInv, NEW w \in Worker, OnlyMoves(w), UNCHANGED <<mark, crashes>>,
           pc'[w] = "verdict" => held'[w].scoredOn = held'[w].support,
           \A i \in Id' : \/ Good(i)' \/ Repairs(w, i)'
                          \/ /\ i \in Id /\ SameScore(ideas[i], ideas'[i])
                             /\ ~Repairs(w, i)
    PROVE  ScoreInv'
<1>1. VerdictsScored' /\ MarkMarks'
  BY DEF ScoreInv, VerdictsScored, MarkMarks, OnlyMoves, Unmoved, NoMark, NoRow, NewRow
<1>2. ASSUME crashes = 0, NEW i \in Id', ideas'[i].status = "new"
      PROVE  Current(ideas'[i]) \/ \E v \in Worker : Repairs(v, i)'
  <2>1. CASE i \in Id /\ SameScore(ideas[i], ideas'[i]) /\ ~Repairs(w, i)
    <3>1. Current(ideas[i]) \/ \E v \in Worker \ {w} : Repairs(v, i)
      BY <1>2, <2>1 DEF ScoreInv, RowsScored, SameScore
    <3>2. Current(ideas[i]) => Current(ideas'[i])
      BY <2>1 DEF Current, SameScore
    <3>3. \A v \in Worker \ {w} : Repairs(v, i) => Repairs(v, i)'
      BY DEF OnlyMoves, Unmoved, Repairs
    <3> QED BY <3>1, <3>2, <3>3
  <2> QED BY <1>2, <2>1 DEF Good
<1> QED BY <1>1, <1>2 DEF ScoreInv, RowsScored

(* A step that writes no row, of a worker that repairs none. *)
LEMMA QuietStep ==
    ASSUME ScoreInv, NEW w \in Worker, OnlyMoves(w), UNCHANGED <<ideas, mark, crashes>>,
           pc[w] \notin RepairStage, pc'[w] # "verdict"
    PROVE  ScoreInv'
<1>1. \A i \in Id' : i \in Id /\ SameScore(ideas[i], ideas'[i]) /\ ~Repairs(w, i)
  BY DEF SameScore, Repairs, Id
<1> QED BY <1>1, ScoreKept

LEMMA QuietSteps ==
    ASSUME ArchiveInv, ScoreInv, NEW w \in Worker,
           \/ StartRun(w) \/ (\E i \in Id : StartResynth(w, i)) \/ StopEarly(w)
           \/ (\E g \in todo[w] : SkipFallback(w, g))
           \/ (\E g \in todo[w], a \in Answer, m \in {0} \cup indexed : Draft(w, g, a, m))
           \/ FoundDuplicate(w) \/ ClaimedElsewhere(w) \/ IndexIdea(w)
           \/ SelectPending(w) \/ (\E e \in queue[w] : LostClaim(w, e)) \/ Finish(w)
    PROVE  ScoreInv'
<1> USE DEF ArchiveInv, Held, VolatileType, OnlyMoves, Unmoved, RepairStage, At, Goto
<1>1. CASE StartRun(w) \/ \E i \in Id : StartResynth(w, i)
  BY <1>1, QuietStep DEF StartRun, StartResynth
<1>2. CASE StopEarly(w) \/ \E g \in todo[w] : SkipFallback(w, g)
  BY <1>2, QuietStep DEF StopEarly, SkipFallback
<1>3. CASE \E g \in todo[w], a \in Answer, m \in {0} \cup indexed : Draft(w, g, a, m)
  BY <1>3, QuietStep DEF Draft
<1>4. CASE FoundDuplicate(w)
  BY <1>4, QuietStep DEF FoundDuplicate
<1>5. CASE ClaimedElsewhere(w)
  BY <1>5, QuietStep DEF ClaimedElsewhere, EndIteration
<1>6. CASE IndexIdea(w)
  BY <1>6, QuietStep DEF IndexIdea, NextGroup, EndIteration
<1>7. CASE SelectPending(w) \/ \E e \in queue[w] : LostClaim(w, e)
  BY <1>7, QuietStep DEF SelectPending, LostClaim
<1>8. CASE Finish(w)
  BY <1>8, QuietStep DEF Finish, Forget, EndIteration
<1> QED BY <1>1, <1>2, <1>3, <1>4, <1>5, <1>6, <1>7, <1>8

(* A step that rewrites the row target names, and leaves the others.        *)
LEMMA RowStep ==
    ASSUME Stored, ScoreInv, NEW w \in Worker, OnlyMoves(w), UNCHANGED <<mark, crashes>>,
           pc'[w] = "verdict" => held'[w].scoredOn = held'[w].support,
           NEW i \in Id, NEW r, ideas' = [ideas EXCEPT ![i] = r],
           pc[w] \in RepairStage => target[w] = i,
           \/ r.status # "new" \/ Current(r) \/ Repairs(w, i)'
           \/ SameScore(ideas[i], r) /\ pc[w] \notin RepairStage
    PROVE  ScoreInv'
<1>1. Id' = Id /\ ideas'[i] = r /\ \A j \in Id : j # i => ideas'[j] = ideas[j]
  BY DEF Stored, Id
<1>2. \A j \in Id : j # i => SameScore(ideas[j], ideas'[j]) /\ ~Repairs(w, j)
  BY <1>1 DEF SameScore, Repairs
<1>3. Good(i)' \/ Repairs(w, i)' \/ (SameScore(ideas[i], ideas'[i]) /\ ~Repairs(w, i))
  BY <1>1 DEF Good, Repairs, Current, SameScore
<1> QED BY <1>1, <1>2, <1>3, ScoreKept

(* A row as a run inserts it is good. *)
LEMMA InsertedIsGood ==
    ASSUME ArchiveInv, ScoreInv, NEW w \in Worker, ClaimAndInsert(w) PROVE ScoreInv'
<1> DEFINE r == NewRow(cur[w], critic[w] = "answered", manual[w])
<1> PICK n : n = Len(ideas) + 1
  OBVIOUS
<1>1. r \in Row /\ Current(r)
  <2>1. cur[w] \in SUBSET Nugget /\ manual[w] \in BOOLEAN /\ (critic[w] = "answered") \in BOOLEAN
    BY Zenon DEF ArchiveInv, Held, VolatileType
  <2>2. r \in Row
    BY <2>1, NewRowType
  <2>3. Current(r)
    BY DEF NewRow, Current
  <2> QED BY <2>2, <2>3
<1>2. Id' = Id \cup {n} /\ ideas'[n] = r /\ \A j \in Id : ideas'[j] = ideas[j]
  <2>1. ideas' = Append(ideas, r)
    BY DEF ClaimAndInsert
  <2> HIDE DEF r
  <2> QED BY <1>1, <2>1, AddRow DEF ArchiveInv, Stored, Id
<1>3. OnlyMoves(w) /\ pc[w] = "claim" /\ pc'[w] = "index" /\ UNCHANGED <<mark, crashes>>
  BY DEF ArchiveInv, Held, VolatileType, ClaimAndInsert, OnlyMoves, Unmoved, At, Goto
<1>4. Good(n)'
  BY <1>1, <1>2 DEF Good, Current
<1>5. \A j \in Id : SameScore(ideas[j], ideas'[j]) /\ ~Repairs(w, j)
  BY <1>2, <1>3 DEF SameScore, Repairs, RepairStage
<1> HIDE DEF r
<1> QED BY <1>2, <1>3, <1>4, <1>5, ScoreKept

(* A merge that adds evidence is followed by its repair. *)
LEMMA MergedIsRepaired ==
    ASSUME ArchiveInv, ScoreInv, NEW w \in Worker, Absorb(w) PROVE ScoreInv'
<1> PICK i : i = target[w]
  OBVIOUS
<1> DEFINE r == Merged(ideas[i], cur[w])
<1>1. i \in Id /\ ideas[i] \in Row
  BY TargetRow DEF Writing, At, Absorb
<1>2. /\ ideas' = [ideas EXCEPT ![i] = r] /\ UNCHANGED <<mark, crashes>>
      /\ pc[w] = "absorb"
  BY DEF Absorb, At
<1>3. CASE NextGroup(w) /\ cur[w] \subseteq ideas[i].support
  <2>1. OnlyMoves(w) /\ pc'[w] = "groups"
    BY <1>3 DEF NextGroup, ArchiveInv, Held, VolatileType, OnlyMoves, Unmoved, Goto, EndIteration
  <2>2. SameScore(ideas[i], r)
    BY <1>1, <1>3 DEF SameScore, Merged, Row
  <2> HIDE DEF r
  <2> QED BY <1>1, <1>2, <2>1, <2>2, RowStep DEF ArchiveInv, RepairStage
<1>4. CASE /\ Goto(w, IF critic[w] = "limited" THEN "requeue" ELSE "merged")
           /\ UNCHANGED <<todo, cur, target, critic, held, queue, manual>>
  <2>1. OnlyMoves(w) /\ pc'[w] \in {"requeue", "merged"}
    BY <1>4 DEF ArchiveInv, Held, VolatileType, OnlyMoves, Unmoved, Goto
  <2>2. Repairs(w, i)'
    BY <1>4, <2>1 DEF Repairs, RepairStage
  <2> HIDE DEF r
  <2> QED BY <1>1, <1>2, <2>1, <2>2, RowStep DEF ArchiveInv, RepairStage
<1> QED BY <1>3, <1>4 DEF Absorb

LEMMA RequeuedIsGood ==
    ASSUME ArchiveInv, ScoreInv, NEW w \in Worker, Requeue(w) PROVE ScoreInv'
<1> DEFINE i == target[w]
           r == Requeued(ideas[i])
<1>1. i \in Id /\ ideas[i] \in Row
  BY TargetRow DEF Writing, At, Requeue
<1>2. ideas' = [ideas EXCEPT ![i] = r] /\ UNCHANGED <<mark, crashes>>
  BY DEF Requeue
<1>3. OnlyMoves(w) /\ pc'[w] = "groups"
  BY DEF Requeue, NextGroup, ArchiveInv, Held, VolatileType, OnlyMoves, Unmoved, Goto, EndIteration
<1>4. Current(r)
  BY <1>1 DEF Current, Requeued, Row
<1> HIDE DEF r
<1> QED BY <1>1, <1>2, <1>3, <1>4, RowStep DEF ArchiveInv

(* The row is read and asked about under the same repair. *)
LEMMA ReadKeepsRepair ==
    ASSUME ArchiveInv, ScoreInv, NEW w \in Worker, ReadMerged(w) PROVE ScoreInv'
<1>1. /\ OnlyMoves(w) /\ pc'[w] = "ask" /\ target'[w] = target[w] /\ pc[w] = "merged"
      /\ UNCHANGED <<ideas, mark, crashes>>
  BY DEF ArchiveInv, Held, VolatileType, ReadMerged, OnlyMoves, Unmoved, At, Goto
<1>2. \A i \in Id' : \/ Repairs(w, i)'
                     \/ i \in Id /\ SameScore(ideas[i], ideas'[i]) /\ ~Repairs(w, i)
  <2> SUFFICES ASSUME NEW i \in Id'
               PROVE  \/ Repairs(w, i)'
                      \/ i \in Id /\ SameScore(ideas[i], ideas'[i]) /\ ~Repairs(w, i)
    OBVIOUS
  <2>1. CASE target[w] = i
    BY <1>1, <2>1 DEF Repairs, RepairStage
  <2>2. CASE target[w] # i
    BY <1>1, <2>2 DEF SameScore, Repairs, Id
  <2> QED BY <2>1, <2>2
<1> QED BY <1>1, <1>2, ScoreKept

(* What UpdateIdea writes is as good as what it is given. *)
LEMMA UpdateStep ==
    ASSUME ArchiveInv, ScoreInv, NEW w \in Worker, OnlyMoves(w), UNCHANGED <<mark, crashes>>,
           pc'[w] = "verdict" => held'[w].scoredOn = held'[w].support,
           NEW i \in Id, NEW row \in Row, UpdateIdea(i, row), Current(row),
           pc[w] \in RepairStage => target[w] = i
    PROVE  ScoreInv'
<1> DEFINE r == [row EXCEPT !.tries = ideas[i].tries, !.claim = ideas[i].claim,
                            !.born = ideas[i].born, !.manual = ideas[i].manual]
<1>1. Current(r)
  BY DEF Current, Row
<1>2. ideas' = [ideas EXCEPT ![i] = r]
  BY DEF UpdateIdea
<1> HIDE DEF r
<1> QED BY <1>1, <1>2, RowStep DEF ArchiveInv

LEMMA ScoredIsCurrent ==
    ASSUME NEW row \in Row, NEW a \in Answer
    PROVE  /\ Current(Scored(row, a))
           /\ a = "answered" => Scored(row, a).scoredOn = Scored(row, a).support
  BY DEF Current, Scored, Row

LEMMA ScoreMergedIsGood ==
    ASSUME ArchiveInv, ScoreInv, NEW w \in Worker, NEW a \in Answer, ScoreMerged(w, a)
    PROVE  ScoreInv'
<1> DEFINE i == target[w]
           r == Scored(held[w], a)
<1>1. i \in Id /\ held[w] \in Row
  BY TargetRow DEF Writing, At, ScoreMerged, ArchiveInv, Held, VolatileType
<1>2. r \in Row /\ Current(r) /\ (a = "answered" => r.scoredOn = r.support)
  BY <1>1, RowOperators, ScoredIsCurrent
<1>3. UpdateIdea(i, r) /\ UNCHANGED <<mark, crashes>>
  BY DEF ScoreMerged
<1>4. OnlyMoves(w) /\ (pc'[w] = "verdict" => held'[w].scoredOn = held'[w].support)
  <2>1. CASE NextGroup(w)
    BY <2>1 DEF NextGroup, ArchiveInv, Held, VolatileType, OnlyMoves, Unmoved, Goto, EndIteration
  <2>2. CASE /\ a = "answered" /\ Goto(w, "verdict") /\ held' = [held EXCEPT ![w] = r]
             /\ UNCHANGED target
    <3> HIDE DEF r
    <3> QED BY <1>2, <2>2 DEF ArchiveInv, Held, VolatileType, OnlyMoves, Unmoved, Goto
  <2> QED BY <2>1, <2>2 DEF ScoreMerged
<1> HIDE DEF r
<1> QED BY <1>1, <1>2, <1>3, <1>4, UpdateStep

LEMMA VerdictIsGood ==
    ASSUME ArchiveInv, ScoreInv, NEW w \in Worker, WriteVerdict(w) PROVE ScoreInv'
<1>1. target[w] \in Id /\ held[w] \in Row /\ pc[w] = "verdict"
  BY TargetRow DEF Writing, At, WriteVerdict, ArchiveInv, Held, VolatileType
<1>2. Current(held[w])
  BY <1>1 DEF ScoreInv, VerdictsScored, Current
<1>3. OnlyMoves(w) /\ pc'[w] = "groups"
  BY DEF WriteVerdict, NextGroup, ArchiveInv, Held, VolatileType, OnlyMoves, Unmoved, Goto, EndIteration
<1> QED BY <1>1, <1>2, <1>3, UpdateStep DEF WriteVerdict, RepairStage

(* The answer is folded into a row that was read: its score is for it.      *)
LEMMA ScorePendingIsGood ==
    ASSUME ArchiveInv, ScoreInv, NEW w \in Worker, NEW a \in Answer, ScorePending(w, a)
    PROVE  ScoreInv'
<1> DEFINE r == Scored(held[w], a)
<1>1. target[w] \in Id /\ held[w] \in Row /\ pc[w] = "asking"
  BY TargetRow DEF Writing, At, ScorePending, ArchiveInv, Held, VolatileType
<1>2. r \in Row /\ Current(r)
  BY <1>1, RowOperators, ScoredIsCurrent
<1>3. OnlyMoves(w) /\ pc'[w] = "release"
  BY DEF ScorePending, ArchiveInv, Held, VolatileType, OnlyMoves, Unmoved, Goto
<1>4. UpdateIdea(target[w], r) /\ UNCHANGED <<mark, crashes>>
  BY DEF ScorePending
<1> HIDE DEF r
<1> QED BY <1>1, <1>2, <1>3, <1>4, UpdateStep DEF RepairStage

(* The claim, its release and its age leave the score alone. *)
LEMMA ClaimKeepsScore ==
    ASSUME ArchiveInv, ScoreInv, NEW w \in Worker,
           \/ \E e \in queue[w] : ClaimForRescore(w, e)
           \/ ReleaseClaim(w) \/ CriticRaised(w)
    PROVE  ScoreInv'
<1>1. CASE \E e \in queue[w] : ClaimForRescore(w, e)
  <2> PICK e \in queue[w] : ClaimForRescore(w, e)
    BY <1>1
  <2> DEFINE r == [ideas[e.id] EXCEPT !.claim = "held"]
  <2>1. e.id \in Id
    BY DEF ArchiveInv, Held, VolatileType
  <2>2. ideas[e.id] \in Row
    BY <2>1, ElementOfSeq, LenProperties DEF ArchiveInv, Stored, Id
  <2>3. SameScore(ideas[e.id], r)
    BY <2>2 DEF SameScore, Row
  <2>4. /\ ideas' = [ideas EXCEPT ![e.id] = r] /\ UNCHANGED <<mark, crashes>>
        /\ OnlyMoves(w) /\ pc[w] = "pending" /\ pc'[w] = "asking"
    BY DEF ClaimForRescore, ArchiveInv, Held, VolatileType, OnlyMoves, Unmoved, At, Goto
  <2> HIDE DEF r
  <2> QED BY <2>1, <2>3, <2>4, RowStep DEF ArchiveInv, RepairStage
<1>2. CASE ReleaseClaim(w) \/ CriticRaised(w)
  <2> DEFINE i == target[w]
  <2>1. i \in Id /\ ideas[i] \in Row /\ pc[w] \in {"asking", "release"}
    BY <1>2, TargetRow DEF Writing, At, ReleaseClaim, CriticRaised
  <2>2. \A a \in {critic[w], "silent"} : SameScore(ideas[i], Release(ideas[i], a))
    BY <2>1 DEF SameScore, Release, Row
  <2>3. OnlyMoves(w) /\ pc'[w] \in {"pending", "idle"} /\ UNCHANGED <<mark, crashes>>
    BY <1>2 DEF ReleaseClaim, CriticRaised, Forget, ArchiveInv, Held, VolatileType, OnlyMoves,
                Unmoved, Goto, EndIteration
  <2>4. PICK a \in {critic[w], "silent"} : ideas' = [ideas EXCEPT ![i] = Release(ideas[i], a)]
    BY <1>2 DEF ReleaseClaim, CriticRaised
  <2> QED BY <2>1, <2>2, <2>3, <2>4, RowStep DEF ArchiveInv, RepairStage
<1> QED BY <1>1, <1>2

(* A crash leaves the repair undone: from then on nothing is claimed.       *)
LEMMA CrashEndsIt ==
    ASSUME ArchiveInv, ScoreInv, NEW w \in Worker, Crash(w) PROVE ScoreInv'
<1>1. crashes' # 0
  BY DEF Crash, ArchiveInv, Stored
<1>2. VerdictsScored' /\ MarkMarks'
  BY DEF Crash, Forget, EndIteration, Goto, ScoreInv, VerdictsScored, MarkMarks, ArchiveInv, Held,
         VolatileType, NoMark, NoRow, NewRow
<1> QED BY <1>1, <1>2 DEF ScoreInv

(* Nobody moves in a step of the environment: each row stays as good.       *)
LEMMA EnvironmentScores ==
    ASSUME ArchiveInv, ScoreInv, Environment PROVE ScoreInv'
<1>1. ASSUME UNCHANGED <<volatile, crashes>>, MarkMarks',
             \A i \in Id' : Good(i)' \/ (i \in Id /\ SameScore(ideas[i], ideas'[i]))
      PROVE  ScoreInv'
  <2>1. VerdictsScored'
    BY <1>1 DEF volatile, ScoreInv, VerdictsScored
  <2>2. ASSUME crashes = 0, NEW i \in Id', ideas'[i].status = "new"
        PROVE  Current(ideas'[i]) \/ \E v \in Worker : Repairs(v, i)'
    BY <1>1, <2>2 DEF ScoreInv, RowsScored, SameScore, Current, Good, Repairs, volatile
  <2> QED BY <1>1, <2>1, <2>2 DEF ScoreInv, RowsScored
<1>2. ASSUME NEW i \in Id, NEW r, ideas' = [ideas EXCEPT ![i] = r],
             UNCHANGED <<volatile, crashes>>, MarkMarks',
             r.status # "new" \/ Current(r) \/ SameScore(ideas[i], r)
      PROVE  ScoreInv'
  <2>1. Id' = Id /\ ideas'[i] = r /\ \A j \in Id : j # i => ideas'[j] = ideas[j]
    BY <1>2 DEF ArchiveInv, Stored, Id
  <2> QED BY <1>1, <1>2, <2>1 DEF Good, SameScore
<1>3. ASSUME NEW i \in Id, AgeClaim(i) PROVE ScoreInv'
  <2>1. ideas[i] \in Row
    BY ElementOfSeq, LenProperties DEF ArchiveInv, Stored, Id
  <2>2. SameScore(ideas[i], [ideas[i] EXCEPT !.claim = "stale"])
    BY <2>1 DEF SameScore, Row
  <2>3. MarkMarks'
    BY <1>3 DEF AgeClaim, ScoreInv, MarkMarks, NoMark, NoRow, NewRow
  <2> QED BY <1>2, <1>3, <2>2, <2>3 DEF AgeClaim
<1>4. ASSUME NEW i \in Id, ReadForMark(i) PROVE ScoreInv'
  <2>1. ideas[i] \in Row
    BY ElementOfSeq, LenProperties DEF ArchiveInv, Stored, Id
  <2>2. MarkMarks'
    BY <1>4, <2>1 DEF ReadForMark, MarkMarks, Row
  <2> QED BY <1>1, <1>4, <2>2 DEF ReadForMark, SameScore, Id
<1>5. ASSUME NEW i \in Id, MarkStandin(i) PROVE ScoreInv'
  <2>1. ideas[i] \in Row
    BY ElementOfSeq, LenProperties DEF ArchiveInv, Stored, Id
  <2>2. Current([ideas[i] EXCEPT !.scoredOn = {}, !.needs = TRUE])
    BY <2>1 DEF Current, Row
  <2>3. MarkMarks'
    BY <1>5 DEF MarkStandin, ScoreInv, MarkMarks, NoMark, NoRow, NewRow
  <2> QED BY <1>2, <1>5, <2>2, <2>3 DEF MarkStandin
<1>6. CASE WriteMark
  <2> DEFINE i == mark.id
             r == [mark.row EXCEPT !.tries = ideas[i].tries, !.claim = ideas[i].claim,
                                   !.born = ideas[i].born, !.manual = ideas[i].manual]
  <2>1. i \in Id /\ mark.row \in Row /\ mark.row.status = "marked"
    BY <1>6 DEF WriteMark, ArchiveInv, MarkHeld, ScoreInv, MarkMarks
  <2>2. r.status = "marked"
    BY <2>1 DEF Row
  <2>3. ideas' = [ideas EXCEPT ![i] = r] /\ MarkMarks' /\ UNCHANGED <<volatile, crashes>>
    BY <1>6 DEF WriteMark, UpdateIdea, MarkMarks
  <2> HIDE DEF r
  <2> QED BY <1>2, <2>1, <2>2, <2>3
<1>7. ASSUME NEW n \in Nugget, ArchiveNugget(n) PROVE ScoreInv'
  <2>1. MarkMarks'
    BY <1>7 DEF ArchiveNugget, ScoreInv, MarkMarks, NoMark, NoRow, NewRow
  <2> QED BY <1>1, <1>7, <2>1 DEF ArchiveNugget, SameScore, Id
<1> QED BY <1>3, <1>4, <1>5, <1>6, <1>7 DEF Environment

LEMMA WorkerScores ==
    ASSUME ArchiveInv, ScoreInv, NEW w \in Worker,
           \/ StartRun(w) \/ (\E i \in Id : StartResynth(w, i))
           \/ Synthesize(w) \/ SelectPending(w) \/ Rescore(w)
           \/ Finish(w) \/ Crash(w)
    PROVE  ScoreInv'
<1>1. CASE Synthesize(w)
  <2>1. ASSUME NEW a \in Answer, ScoreMerged(w, a) PROVE ScoreInv'
    BY <2>1, ScoreMergedIsGood
  <2> QED BY <1>1, <2>1, QuietSteps, InsertedIsGood, MergedIsRepaired, RequeuedIsGood,
             ReadKeepsRepair, VerdictIsGood DEF Synthesize
<1>2. CASE Rescore(w)
  <2>1. ASSUME NEW a \in Answer, ScorePending(w, a) PROVE ScoreInv'
    BY <2>1, ScorePendingIsGood
  <2> QED BY <1>2, <2>1, QuietSteps, ClaimKeepsScore DEF Rescore
<1> QED BY <1>1, <1>2, QuietSteps, CrashEndsIt

LEMMA ScoreInvariant == Spec => []ScoreInv
<1>1. Init => ScoreInv
  BY DEF Init, ScoreInv, RowsScored, VerdictsScored, MarkMarks, Id
<1>2. ArchiveInv /\ ScoreInv /\ [Next]_vars => ScoreInv'
  <2> SUFFICES ASSUME ArchiveInv, ScoreInv, [Next]_vars PROVE ScoreInv'
    OBVIOUS
  <2>1. CASE UNCHANGED vars
    BY <2>1 DEF vars, volatile, ScoreInv, RowsScored, VerdictsScored, MarkMarks, Repairs, Current,
                Id, NoMark, NoRow, NewRow
  <2> QED BY <2>1, EnvironmentScores, WorkerScores DEF Next
<1> QED BY <1>1, <1>2, ArchiveInvariant, PTL DEF Spec

(* R49: as long as no process was killed, an idea that nobody works on and   *)
(* the operator left alone waits for the critic or carries a score given for *)
(* exactly the evidence it cites, whatever else writes the row meanwhile     *)
(* (_absorb, rescore_after_merge, rescore_pending).                          *)
THEOREM ScoresAreCurrent == Spec => [](crashes = 0 => ScoreMatchesEvidence)
<1>1. ScoreInv => (crashes = 0 => ScoreMatchesEvidence)
  <2> SUFFICES ASSUME ScoreInv, crashes = 0, NEW i \in Id, ideas[i].status = "new",
                      ~ideas[i].needs, ~Busy(i)
               PROVE  ideas[i].scoredOn = ideas[i].support
    BY DEF ScoreMatchesEvidence
  <2>1. \A w \in Worker : ~Repairs(w, i)
    BY DEF Busy, Repairs, RepairStage
  <2> QED BY <2>1 DEF ScoreInv, RowsScored, Current
<1> QED BY <1>1, ScoreInvariant, PTL

----------------------------------------------------------------------------
(* What a step of one worker does to the rows that are there.  A worker that *)
(* asks holds a row it read earlier: while the row on file is not marked,    *)
(* the copy is as the row is, and what it cites is not less.                 *)
Alone == \A v, w \in Worker : v = w
Reading == {"ask", "verdict", "asking"}
Rescoring == {"pending", "asking", "release"}
ByHand == {"groups", "claim", "index"}
AsRead(r, row) ==
    row.status = "new" => /\ r.status = "new" /\ row.needs
                          /\ r.support = row.support /\ r.scoredOn = row.scoredOn
MarkBehind ==
    mark # NoMark => /\ mark.row.status = "marked"
                     /\ mark.row.support \subseteq ideas[mark.id].support
HoldsWhatItRead(w) ==
    /\ queue[w] # {} => pc[w] \in Rescoring
    /\ manual[w] => pc[w] \in ByHand
    /\ pc[w] \in Reading => ideas[target[w]].support \subseteq held[w].support
    /\ pc[w] = "asking" => AsRead(held[w], ideas[target[w]])
    /\ \A e \in queue[w] : /\ ideas[e.id].support \subseteq e.row.support
                           /\ AsRead(e.row, ideas[e.id])
    /\ pc[w] \in {"asking", "release"} => \A e \in queue[w] : e.id # target[w]
    /\ \A e, f \in queue[w] : e.id = f.id => e = f
StandInv == MarkBehind /\ \A w \in Worker : HoldsWhatItRead(w)

(* The three things RowsStand says of one step. *)
Grown ==
    \A i \in Id : ideas'[i].status = "new" => ideas[i].support \subseteq ideas'[i].support
OriginalsLeft ==
    \A w \in Worker : manual[w] /\ pc'[w] # pc[w] => \A i \in Id : ideas'[i] = ideas[i]
SilentStep ==
    \A w \in Worker : At(w, "asking") /\ pc'[w] = "release" /\ critic'[w] # "answered" =>
        LET i == target[w]
        IN  ideas[i].status = "new" => ideas'[i] = [ideas[i] EXCEPT !.needs = TRUE]
Stands == Grown /\ OriginalsLeft /\ SilentStep

(* What may happen to a row somebody has read: it may be marked, with less   *)
(* evidence, or claimed; a score that is wanted stays wanted.                *)
Gentle(a, b) ==
    /\ b.support \subseteq a.support
    /\ b.status = "new" => /\ a.status = "new" /\ b.support = a.support
                           /\ a.needs => b.needs /\ b.scoredOn = a.scoredOn
Uses(w, i) == (pc[w] \in Reading /\ target[w] = i) \/ \E e \in queue[w] : e.id = i
(* A step after which w holds no more than it did. *)
HoldsNoMore(w) ==
    /\ queue'[w] \subseteq queue[w]
    /\ queue'[w] # {} => pc'[w] \in Rescoring
    /\ manual'[w] => pc'[w] \in ByHand
    /\ pc'[w] \in Reading => pc'[w] = pc[w] /\ target'[w] = target[w] /\ held'[w] = held[w]
    /\ pc'[w] = "release" => target'[w] = target[w] /\ pc[w] \in {"asking", "release"}

LEMMA GentleKeeps ==
    ASSUME NEW a, NEW b, NEW r, Gentle(a, b)
    PROVE  /\ AsRead(r, a) => AsRead(r, b)
           /\ a.support \subseteq r.support => b.support \subseteq r.support
  BY DEF Gentle, AsRead

LEMMA HoldsOn ==
    ASSUME ArchiveInv, StandInv, NEW w \in Worker, HoldsNoMore(w),
           \A i \in Id : Uses(w, i)' => Gentle(ideas[i], ideas'[i])
    PROVE  HoldsWhatItRead(w)'
<1>1. HoldsWhatItRead(w)
  BY DEF StandInv
<1>2. ASSUME pc'[w] \in Reading
      PROVE  /\ ideas'[target'[w]].support \subseteq held'[w].support
             /\ pc'[w] = "asking" => AsRead(held'[w], ideas'[target'[w]])
  <2> PICK i : i = target[w]
    OBVIOUS
  <2>1. i \in Id /\ target'[w] = i /\ held'[w] = held[w] /\ pc'[w] = pc[w]
    BY <1>2, TargetRow DEF HoldsNoMore, Reading, Writing
  <2>2. Gentle(ideas[i], ideas'[i])
    BY <1>2, <2>1 DEF Uses
  <2> QED BY <1>1, <1>2, <2>1, <2>2, GentleKeeps DEF HoldsWhatItRead
<1>3. ASSUME NEW e \in queue'[w]
      PROVE  ideas'[e.id].support \subseteq e.row.support /\ AsRead(e.row, ideas'[e.id])
  <2> PICK i : i = e.id
    OBVIOUS
  <2>1. e \in queue[w] /\ i \in Id
    BY DEF HoldsNoMore, ArchiveInv, Held, VolatileType
  <2>2. Gentle(ideas[i], ideas'[i])
    BY <2>1 DEF Uses
  <2> QED BY <1>1, <2>1, <2>2, GentleKeeps DEF HoldsWhatItRead
<1>4. pc'[w] \in {"asking", "release"} => \A e \in queue'[w] : e.id # target'[w]
  BY <1>1 DEF HoldsNoMore, HoldsWhatItRead, Reading
<1>5. \A e, f \in queue'[w] : e.id = f.id => e = f
  BY <1>1 DEF HoldsNoMore, HoldsWhatItRead
<1> QED BY <1>2, <1>3, <1>4, <1>5 DEF HoldsNoMore, HoldsWhatItRead, Reading

(* A step that leaves the rows there are. *)
LEMMA RowsLeft ==
    ASSUME MarkBehind, MarkHeld, UNCHANGED mark, \A i \in Id : ideas'[i] = ideas[i],
           \A w \in Worker : ~(pc[w] = "asking" /\ pc'[w] = "release")
    PROVE  MarkBehind' /\ Stands
<1>1. MarkBehind'
  BY DEF MarkBehind, MarkHeld, NoMark, NoRow, NewRow
<1> QED BY <1>1 DEF Stands, Grown, OriginalsLeft, SilentStep, At

LEMMA QuietStand ==
    ASSUME ArchiveInv, StandInv, Alone, NEW w \in Worker, HoldsNoMore(w),
           UNCHANGED mark, \A i \in Id : ideas'[i] = ideas[i],
           ~(pc[w] = "asking" /\ pc'[w] = "release")
    PROVE  StandInv' /\ Stands
<1>1. \A v \in Worker : v = w
  BY DEF Alone
<1>2. MarkBehind' /\ Stands
  BY <1>1, RowsLeft DEF ArchiveInv, StandInv
<1>3. HoldsWhatItRead(w)'
  BY HoldsOn DEF Gentle
<1> QED BY <1>1, <1>2, <1>3 DEF StandInv

(* A step that rewrites one row with no less evidence. *)
LEMMA RowRewritten ==
    ASSUME Stored, MarkBehind, MarkHeld, Alone, NEW w \in Worker, UNCHANGED mark,
           NEW i \in Id, NEW r, ideas' = [ideas EXCEPT ![i] = r],
           ideas[i].support \subseteq r.support, ~manual[w],
           pc[w] = "asking" /\ pc'[w] = "release" /\ critic'[w] # "answered" =>
             target[w] = i /\ (ideas[i].status = "new" => r = [ideas[i] EXCEPT !.needs = TRUE])
    PROVE  MarkBehind' /\ Stands
<1>1. Id' = Id /\ ideas'[i] = r /\ \A j \in Id : j # i => ideas'[j] = ideas[j]
  BY DEF Stored, Id
<1>2. \A v \in Worker : v = w
  BY DEF Alone
<1>3. MarkBehind'
  BY <1>1 DEF MarkBehind, MarkHeld, NoMark, NoRow, NewRow
<1>4. Grown /\ OriginalsLeft /\ SilentStep
  BY <1>1, <1>2 DEF Grown, OriginalsLeft, SilentStep, At
<1> QED BY <1>3, <1>4 DEF Stands

LEMMA RowStand ==
    ASSUME ArchiveInv, StandInv, Alone, NEW w \in Worker, HoldsNoMore(w), UNCHANGED mark,
           NEW i \in Id, NEW r, ideas' = [ideas EXCEPT ![i] = r],
           ideas[i].support \subseteq r.support, ~manual[w],
           pc[w] = "asking" /\ pc'[w] = "release" /\ critic'[w] # "answered" =>
             target[w] = i /\ (ideas[i].status = "new" => r = [ideas[i] EXCEPT !.needs = TRUE]),
           Uses(w, i)' => Gentle(ideas[i], r)
    PROVE  StandInv' /\ Stands
<1>1. MarkBehind' /\ Stands
  BY RowRewritten DEF ArchiveInv, StandInv
<1>2. Id' = Id /\ ideas'[i] = r /\ \A j \in Id : j # i => ideas'[j] = ideas[j]
  BY DEF ArchiveInv, Stored, Id
<1>3. \A j \in Id : Uses(w, j)' => Gentle(ideas[j], ideas'[j])
  BY <1>2 DEF Gentle
<1>4. HoldsWhatItRead(w)'
  BY <1>3, HoldsOn
<1> QED BY <1>1, <1>4 DEF StandInv, Alone

----------------------------------------------------------------------------
(* Each action of the worker. *)
LEMMA SynthesisStands ==
    ASSUME ArchiveInv, StandInv, Alone, NEW w \in Worker,
           \/ StartRun(w) \/ (\E i \in Id : StartResynth(w, i)) \/ StopEarly(w)
           \/ (\E g \in todo[w] : SkipFallback(w, g))
           \/ (\E g \in todo[w], a \in Answer, m \in {0} \cup indexed : Draft(w, g, a, m))
           \/ FoundDuplicate(w) \/ ClaimedElsewhere(w) \/ IndexIdea(w)
           \/ (\E e \in queue[w] : LostClaim(w, e)) \/ Finish(w) \/ Crash(w)
    PROVE  StandInv' /\ Stands
<1> USE DEF HoldsNoMore, Reading, Rescoring, ByHand, At, Goto
<1>0. HoldsWhatItRead(w)
  BY DEF StandInv
<1>a. /\ pc \in [Worker -> Stage] /\ queue \in [Worker -> SUBSET [id : Id, row : Row]]
      /\ manual \in [Worker -> BOOLEAN]
  BY DEF ArchiveInv, Held, VolatileType
<1>1. CASE StartRun(w) \/ \E i \in Id : StartResynth(w, i)
  <2>1. HoldsNoMore(w) /\ UNCHANGED <<ideas, mark>> /\ pc[w] # "asking"
    BY <1>0, <1>a, <1>1 DEF StartRun, StartResynth, HoldsWhatItRead
  <2> QED BY <2>1, QuietStand
<1>2. CASE StopEarly(w) \/ \E g \in todo[w] : SkipFallback(w, g)
  <2>1. HoldsNoMore(w) /\ UNCHANGED <<ideas, mark>> /\ pc[w] # "asking"
    BY <1>0, <1>a, <1>2 DEF StopEarly, SkipFallback, HoldsWhatItRead
  <2> QED BY <2>1, QuietStand
<1>3. CASE \E g \in todo[w], a \in Answer, m \in {0} \cup indexed : Draft(w, g, a, m)
  <2> PICK g \in todo[w], a \in Answer, m \in {0} \cup indexed : Draft(w, g, a, m)
    BY <1>3
  <2>1. pc'[w] = IF m = 0 THEN "claim" ELSE "absorb"
    BY <1>a DEF Draft
  <2>2. manual[w] => m = 0
    BY DEF Draft
  <2>3. HoldsNoMore(w) /\ UNCHANGED <<ideas, mark>> /\ pc[w] # "asking"
    BY <1>0, <2>1, <2>2 DEF Draft, HoldsWhatItRead
  <2> QED BY <2>3, QuietStand
<1>4. CASE FoundDuplicate(w) \/ ClaimedElsewhere(w)
  <2>1. HoldsNoMore(w) /\ UNCHANGED <<ideas, mark>> /\ pc[w] # "asking"
    BY <1>0, <1>a, <1>4 DEF FoundDuplicate, ClaimedElsewhere, HoldsWhatItRead
  <2> QED BY <2>1, QuietStand
<1>5. CASE IndexIdea(w)
  <2>1. HoldsNoMore(w) /\ UNCHANGED <<ideas, mark>> /\ pc[w] # "asking"
    BY <1>0, <1>a, <1>5 DEF IndexIdea, NextGroup, HoldsWhatItRead
  <2> QED BY <2>1, QuietStand
<1>6. CASE \E e \in queue[w] : LostClaim(w, e)
  <2>1. HoldsNoMore(w) /\ UNCHANGED <<ideas, mark>> /\ pc[w] # "asking"
    BY <1>0, <1>a, <1>6 DEF LostClaim, HoldsWhatItRead
  <2> QED BY <2>1, QuietStand
<1>7. CASE Finish(w) \/ Crash(w)
  <2>1. HoldsNoMore(w) /\ UNCHANGED <<ideas, mark>> /\ pc'[w] = "idle"
    BY <1>0, <1>a, <1>7 DEF Finish, Crash, Forget, HoldsWhatItRead
  <2> QED BY <2>1, QuietStand
<1> QED BY <1>1, <1>2, <1>3, <1>4, <1>5, <1>6, <1>7

(* The insert leaves the rows there are. *)
LEMMA InsertStands ==
    ASSUME ArchiveInv, StandInv, Alone, NEW w \in Worker, ClaimAndInsert(w)
    PROVE  StandInv' /\ Stands
<1> DEFINE r == NewRow(cur[w], critic[w] = "answered", manual[w])
<1>1. r \in Row
  <2>1. cur[w] \in SUBSET Nugget /\ manual[w] \in BOOLEAN /\ (critic[w] = "answered") \in BOOLEAN
    BY Zenon DEF ArchiveInv, Held, VolatileType
  <2> QED BY <2>1, NewRowType
<1>2. \A i \in Id : ideas'[i] = ideas[i]
  <2>1. ideas' = Append(ideas, r)
    BY DEF ClaimAndInsert
  <2> HIDE DEF r
  <2> QED BY <1>1, <2>1, AddRow DEF ArchiveInv, Stored, Id
<1>3. HoldsNoMore(w) /\ UNCHANGED mark /\ pc[w] # "asking"
  BY DEF ClaimAndInsert, ArchiveInv, Held, VolatileType, StandInv, HoldsWhatItRead, HoldsNoMore,
         Reading, Rescoring, ByHand, At, Goto
<1> QED BY <1>2, <1>3, QuietStand

(* A merge adds evidence, and is followed by nothing that was read. *)
LEMMA AbsorbStands ==
    ASSUME ArchiveInv, StandInv, Alone, NEW w \in Worker, Absorb(w) \/ Requeue(w)
    PROVE  StandInv' /\ Stands
<1> PICK i : i = target[w]
  OBVIOUS
<1>1. i \in Id /\ ideas[i] \in Row /\ pc[w] \in {"absorb", "requeue"}
  BY TargetRow DEF Writing, At, Absorb, Requeue
<1>2. PICK r : ideas' = [ideas EXCEPT ![i] = r] /\ ideas[i].support \subseteq r.support
  <2>1. cur[w] \in SUBSET Nugget
    BY DEF ArchiveInv, Held, VolatileType
  <2>2. /\ ideas[i].support \subseteq Merged(ideas[i], cur[w]).support
        /\ ideas[i].support \subseteq Requeued(ideas[i]).support
    BY <1>1, <2>1, RowOperators DEF Answer
  <2> QED BY <2>2 DEF Absorb, Requeue
<1>3. /\ queue[w] = {} /\ queue'[w] = {} /\ ~manual[w] /\ ~manual'[w] /\ UNCHANGED mark
      /\ pc'[w] \in {"groups", "requeue", "merged"}
  <2>1. queue[w] = {} /\ ~manual[w]
    BY <1>1 DEF StandInv, HoldsWhatItRead, Rescoring, ByHand
  <2>2. UNCHANGED <<queue, manual, mark>>
    BY DEF Absorb, Requeue, NextGroup
  <2>3. pc'[w] \in {"groups", "requeue", "merged"}
    BY DEF Absorb, Requeue, NextGroup, Goto, ArchiveInv, Held, VolatileType
  <2> QED BY <2>1, <2>2, <2>3
<1>4. HoldsNoMore(w) /\ ~Uses(w, i)'
  BY <1>3 DEF HoldsNoMore, Uses, Reading, Rescoring, ByHand
<1> QED BY <1>1, <1>2, <1>3, <1>4, RowStand

LEMMA ReadStands ==
    ASSUME ArchiveInv, StandInv, Alone, NEW w \in Worker, ReadMerged(w)
    PROVE  StandInv' /\ Stands
<1>1. /\ pc[w] = "merged" /\ pc'[w] = "ask" /\ held'[w] = ideas[target[w]]
      /\ UNCHANGED <<ideas, mark, target, queue, manual>>
  BY DEF ReadMerged, At, Goto, ArchiveInv, Held, VolatileType
<1>2. HoldsWhatItRead(w)'
  BY <1>1 DEF StandInv, HoldsWhatItRead, Reading, Rescoring, ByHand
<1>3. \A v \in Worker : v = w
  BY DEF Alone
<1>4. MarkBehind' /\ Stands
  BY <1>1, <1>3, RowsLeft DEF ArchiveInv, StandInv
<1> QED BY <1>2, <1>3, <1>4 DEF StandInv

(* What UpdateIdea writes: all of the row but four columns. *)
LEMMA UpdatedRow ==
    ASSUME NEW i \in Id, ideas[i] \in Row, NEW row \in Row, UpdateIdea(i, row)
    PROVE  \E r \in Row :
              /\ ideas' = [ideas EXCEPT ![i] = r]
              /\ r.support = row.support /\ r.status = row.status
              /\ row.status = ideas[i].status /\ row.support = ideas[i].support
                   /\ row.scoredOn = ideas[i].scoredOn /\ row.needs
                 => r = [ideas[i] EXCEPT !.needs = TRUE]
<1> DEFINE r == [row EXCEPT !.tries = ideas[i].tries, !.claim = ideas[i].claim,
                            !.born = ideas[i].born, !.manual = ideas[i].manual]
<1>1. r \in Row /\ r.support = row.support /\ r.status = row.status
  BY DEF Row
<1>2. row.status = ideas[i].status /\ row.support = ideas[i].support
        /\ row.scoredOn = ideas[i].scoredOn /\ row.needs
      => r = [ideas[i] EXCEPT !.needs = TRUE]
  BY DEF Row
<1>3. ideas' = [ideas EXCEPT ![i] = r]
  BY DEF UpdateIdea
<1> QED BY <1>1, <1>2, <1>3

(* The row read for the re-score cites all that the row on file cites. *)
LEMMA ScoreMergedStands ==
    ASSUME ArchiveInv, StandInv, Alone, NEW w \in Worker, NEW a \in Answer, ScoreMerged(w, a)
    PROVE  StandInv' /\ Stands
<1> PICK i, row : i = target[w] /\ row = Scored(held[w], a)
  OBVIOUS
<1>1. i \in Id /\ ideas[i] \in Row /\ held[w] \in Row /\ pc[w] = "ask"
  BY TargetRow DEF Writing, At, ScoreMerged, ArchiveInv, Held, VolatileType
<1>2. row \in Row /\ row.support = held[w].support
  BY <1>1, RowOperators
<1>3. UpdateIdea(i, row) /\ UNCHANGED mark
  BY DEF ScoreMerged
<1>4. PICK r \in Row : ideas' = [ideas EXCEPT ![i] = r] /\ r.support = row.support
  BY <1>1, <1>2, <1>3, UpdatedRow
<1>5. /\ ideas[i].support \subseteq r.support /\ queue[w] = {} /\ ~manual[w]
  BY <1>1, <1>2, <1>4 DEF StandInv, HoldsWhatItRead, Reading, Rescoring, ByHand
<1>6. CASE NextGroup(w)
  <2>1. queue'[w] = {} /\ ~manual'[w] /\ pc'[w] = "groups"
    BY <1>5, <1>6 DEF NextGroup, Goto, ArchiveInv, Held, VolatileType
  <2>2. HoldsNoMore(w) /\ ~Uses(w, i)'
    BY <2>1 DEF HoldsNoMore, Uses, Reading, Rescoring, ByHand
  <2> QED BY <1>1, <1>3, <1>4, <1>5, <2>2, RowStand
<1>7. CASE /\ Goto(w, "verdict") /\ held' = [held EXCEPT ![w] = row]
           /\ UNCHANGED <<todo, cur, target, critic, queue, manual>>
  <2>1. /\ queue'[w] = {} /\ ~manual'[w] /\ pc'[w] = "verdict" /\ target'[w] = i
        /\ held'[w] = row
    BY <1>5, <1>7 DEF Goto, ArchiveInv, Held, VolatileType
  <2>2. ideas'[i] = r
    BY <1>1, <1>4 DEF ArchiveInv, Stored, Id
  <2>3. HoldsWhatItRead(w)'
    BY <1>4, <2>1, <2>2 DEF HoldsWhatItRead, Reading, Rescoring, ByHand
  <2>4. MarkBehind' /\ Stands
    BY <1>1, <1>3, <1>4, <1>5, <2>1, RowRewritten DEF ArchiveInv, StandInv
  <2> QED BY <2>3, <2>4 DEF StandInv, Alone
<1> QED BY <1>6, <1>7 DEF ScoreMerged

LEMMA VerdictStands ==
    ASSUME ArchiveInv, StandInv, Alone, NEW w \in Worker, WriteVerdict(w)
    PROVE  StandInv' /\ Stands
<1> PICK i : i = target[w]
  OBVIOUS
<1>1. i \in Id /\ ideas[i] \in Row /\ held[w] \in Row /\ pc[w] = "verdict"
  BY TargetRow DEF Writing, At, WriteVerdict, ArchiveInv, Held, VolatileType
<1>2. UpdateIdea(i, held[w]) /\ UNCHANGED mark
  BY DEF WriteVerdict
<1>3. PICK r \in Row : ideas' = [ideas EXCEPT ![i] = r] /\ r.support = held[w].support
  BY <1>1, <1>2, UpdatedRow
<1>4. /\ ideas[i].support \subseteq r.support /\ queue[w] = {} /\ ~manual[w]
  BY <1>1, <1>3 DEF StandInv, HoldsWhatItRead, Reading, Rescoring, ByHand
<1>5. queue'[w] = {} /\ ~manual'[w] /\ pc'[w] = "groups"
  BY <1>4 DEF WriteVerdict, NextGroup, Goto, ArchiveInv, Held, VolatileType
<1>6. HoldsNoMore(w) /\ ~Uses(w, i)'
  BY <1>5 DEF HoldsNoMore, Uses, Reading, Rescoring, ByHand
<1> QED BY <1>1, <1>2, <1>3, <1>4, <1>6, RowStand

(* The rows selected wait for a score, and are as they are. *)
LEMMA SelectStands ==
    ASSUME ArchiveInv, StandInv, Alone, NEW w \in Worker, SelectPending(w)
    PROVE  StandInv' /\ Stands
<1>1. PICK S \in SUBSET Id :
        /\ LeastTried(S)
        /\ queue' = [queue EXCEPT ![w] = {[id |-> i, row |-> ideas[i]] : i \in S}]
  BY DEF SelectPending
<1>2. \A i \in S : ideas[i].needs
  BY <1>1 DEF LeastTried, Waiting
<1>3. /\ pc[w] \in {"idle", "groups"} /\ pc'[w] = "pending" /\ ~manual[w]
      /\ UNCHANGED <<ideas, mark, manual>>
  BY DEF SelectPending, At, Goto, ArchiveInv, Held, VolatileType, StandInv, HoldsWhatItRead, ByHand
<1>4. \A e \in queue'[w] : e.id \in S /\ e.row = ideas[e.id] /\ e = [id |-> e.id, row |-> ideas[e.id]]
  BY <1>1 DEF ArchiveInv, Held, VolatileType
<1>5. HoldsWhatItRead(w)'
  <2>1. ASSUME NEW e \in queue'[w]
        PROVE  ideas'[e.id].support \subseteq e.row.support /\ AsRead(e.row, ideas'[e.id])
    BY <1>2, <1>3, <1>4 DEF AsRead
  <2>2. \A e, f \in queue'[w] : e.id = f.id => e = f
    BY <1>4
  <2> QED BY <1>3, <2>1, <2>2 DEF HoldsWhatItRead, Reading, Rescoring, ByHand
<1>6. \A v \in Worker : v = w
  BY DEF Alone
<1>7. MarkBehind' /\ Stands
  BY <1>3, <1>6, RowsLeft DEF ArchiveInv, StandInv
<1> QED BY <1>5, <1>6, <1>7 DEF StandInv

LEMMA ClaimStands ==
    ASSUME ArchiveInv, StandInv, Alone, NEW w \in Worker, NEW e \in queue[w], ClaimForRescore(w, e)
    PROVE  StandInv' /\ Stands
<1> PICK i, r : i = e.id /\ r = [ideas[i] EXCEPT !.claim = "held"]
  OBVIOUS
<1>1. i \in Id /\ ideas[i] \in Row
  BY ElementOfSeq, LenProperties DEF ArchiveInv, Stored, Id, Held, VolatileType
<1>2. ideas' = [ideas EXCEPT ![i] = r] /\ UNCHANGED <<mark, manual>>
  BY DEF ClaimForRescore
<1>3. /\ pc[w] = "pending" /\ pc'[w] = "asking" /\ target'[w] = i /\ held'[w] = e.row
      /\ queue'[w] = queue[w] \ {e}
  BY DEF ClaimForRescore, At, Goto, ArchiveInv, Held, VolatileType
<1>4. r.support = ideas[i].support /\ Gentle(ideas[i], r)
  BY <1>1 DEF Gentle, Row
<1>5. HoldsWhatItRead(w) /\ ~manual[w]
  BY <1>3 DEF StandInv, HoldsWhatItRead, ByHand
<1>6. ideas'[i] = r /\ \A j \in Id : Gentle(ideas[j], ideas'[j])
  BY <1>1, <1>2, <1>4 DEF ArchiveInv, Stored, Id, Gentle
<1>7. HoldsWhatItRead(w)'
  <2>1. ideas'[i].support \subseteq e.row.support /\ AsRead(e.row, ideas'[i])
    BY <1>4, <1>5, <1>6, GentleKeeps DEF HoldsWhatItRead
  <2>2. ASSUME NEW f \in queue'[w]
        PROVE  /\ ideas'[f.id].support \subseteq f.row.support /\ AsRead(f.row, ideas'[f.id])
               /\ f.id # i
    <3> PICK j : j = f.id
      OBVIOUS
    <3>1. f \in queue[w] /\ f # e
      BY <1>3
    <3>2. j \in Id
      BY <3>1 DEF ArchiveInv, Held, VolatileType
    <3>3. j # i
      BY <1>5, <3>1 DEF HoldsWhatItRead
    <3>4. ideas[j].support \subseteq f.row.support /\ AsRead(f.row, ideas[j])
      BY <1>5, <3>1 DEF HoldsWhatItRead
    <3>5. Gentle(ideas[j], ideas'[j])
      BY <1>6, <3>2
    <3>6. ideas'[j].support \subseteq f.row.support /\ AsRead(f.row, ideas'[j])
      BY <3>4, <3>5, GentleKeeps
    <3> QED BY <3>3, <3>6
  <2>3. \A f, g \in queue'[w] : f.id = g.id => f = g
    BY <1>3, <1>5 DEF HoldsWhatItRead
  <2> QED BY <1>2, <1>3, <1>5, <2>1, <2>2, <2>3 DEF HoldsWhatItRead, Reading, Rescoring, ByHand
<1>8. MarkBehind' /\ Stands
  BY <1>1, <1>2, <1>3, <1>4, <1>5, RowRewritten DEF ArchiveInv, StandInv
<1> QED BY <1>7, <1>8 DEF StandInv, Alone

(* A critic that is silent writes the row back as it is. *)
LEMMA PendingStands ==
    ASSUME ArchiveInv, StandInv, Alone, NEW w \in Worker, NEW a \in Answer, ScorePending(w, a)
    PROVE  StandInv' /\ Stands
<1> PICK i, row : i = target[w] /\ row = Scored(held[w], a)
  OBVIOUS
<1>1. i \in Id /\ ideas[i] \in Row /\ held[w] \in Row /\ pc[w] = "asking"
  BY TargetRow DEF Writing, At, ScorePending, ArchiveInv, Held, VolatileType
<1>2. row \in Row /\ row.support = held[w].support
  BY <1>1, RowOperators
<1>3. UpdateIdea(i, row) /\ UNCHANGED mark
  BY DEF ScorePending
<1>4. PICK r \in Row : /\ ideas' = [ideas EXCEPT ![i] = r] /\ r.support = row.support
                       /\ row.status = ideas[i].status /\ row.support = ideas[i].support
                            /\ row.scoredOn = ideas[i].scoredOn /\ row.needs
                          => r = [ideas[i] EXCEPT !.needs = TRUE]
  BY <1>1, <1>2, <1>3, UpdatedRow
<1>5. HoldsWhatItRead(w) /\ ~manual[w] /\ ideas[i].support \subseteq r.support
  BY <1>1, <1>2, <1>4 DEF StandInv, HoldsWhatItRead, Reading, ByHand
<1>6. /\ pc'[w] = "release" /\ critic'[w] = a /\ target'[w] = i /\ queue'[w] = queue[w]
      /\ manual'[w] = manual[w]
  BY DEF ScorePending, Goto, ArchiveInv, Held, VolatileType
<1>7. a # "answered" /\ ideas[i].status = "new" => r = [ideas[i] EXCEPT !.needs = TRUE]
  <2> SUFFICES ASSUME a # "answered", ideas[i].status = "new"
               PROVE  r = [ideas[i] EXCEPT !.needs = TRUE]
    OBVIOUS
  <2>1. /\ held[w].status = "new" /\ held[w].support = ideas[i].support
        /\ held[w].scoredOn = ideas[i].scoredOn
    BY <1>1, <1>5 DEF HoldsWhatItRead, AsRead
  <2>2. row = [held[w] EXCEPT !.needs = TRUE]
    BY DEF Scored
  <2>3. /\ row.status = ideas[i].status /\ row.support = ideas[i].support
        /\ row.scoredOn = ideas[i].scoredOn /\ row.needs
    BY <1>1, <2>1, <2>2 DEF Row
  <2> QED BY <1>4, <2>3
<1>8. HoldsNoMore(w) /\ ~Uses(w, i)'
  BY <1>1, <1>5, <1>6 DEF HoldsNoMore, Uses, HoldsWhatItRead, Reading, Rescoring, ByHand
<1> QED BY <1>1, <1>3, <1>4, <1>5, <1>6, <1>7, <1>8, RowStand

LEMMA ReleaseStands ==
    ASSUME ArchiveInv, StandInv, Alone, NEW w \in Worker, ReleaseClaim(w) \/ CriticRaised(w)
    PROVE  StandInv' /\ Stands
<1> PICK i : i = target[w]
  OBVIOUS
<1>1. i \in Id /\ ideas[i] \in Row /\ pc[w] \in {"asking", "release"}
  BY TargetRow DEF Writing, At, ReleaseClaim, CriticRaised
<1>2. PICK a \in Answer : ideas' = [ideas EXCEPT ![i] = Release(ideas[i], a)]
  BY DEF ReleaseClaim, CriticRaised, Answer, ArchiveInv, Held, VolatileType
<1> PICK r : r = Release(ideas[i], a)
  OBVIOUS
<1>3. r.support = ideas[i].support /\ Gentle(ideas[i], r)
  <2>1. /\ r.support = ideas[i].support /\ r.scoredOn = ideas[i].scoredOn
        /\ r.status = ideas[i].status /\ r.needs = ideas[i].needs
    BY <1>1 DEF Release, Row
  <2> QED BY <2>1 DEF Gentle
<1>4. HoldsWhatItRead(w) /\ ~manual[w]
  BY <1>1 DEF StandInv, HoldsWhatItRead, ByHand
<1>5. /\ queue'[w] \subseteq queue[w] /\ ~manual'[w] /\ UNCHANGED mark
      /\ (pc'[w] = "pending" \/ (pc'[w] = "idle" /\ queue'[w] = {}))
  BY <1>4 DEF ReleaseClaim, CriticRaised, Forget, Goto, ArchiveInv, Held, VolatileType
<1>6. HoldsNoMore(w)
  BY <1>5 DEF HoldsNoMore, Reading, Rescoring, ByHand
<1> QED BY <1>1, <1>2, <1>3, <1>4, <1>5, <1>6, RowStand

(* The operator and the clock. *)
LEMMA EnvironmentStands ==
    ASSUME ArchiveInv, StandInv, Environment PROVE StandInv' /\ Stands
<1>1. ASSUME UNCHANGED volatile, \A i \in Id : Gentle(ideas[i], ideas'[i]), MarkBehind'
      PROVE  StandInv' /\ Stands
  <2>1. ASSUME NEW w \in Worker PROVE HoldsWhatItRead(w)'
    <3>1. HoldsNoMore(w)
      BY <1>1 DEF volatile, StandInv, HoldsWhatItRead, HoldsNoMore
    <3> QED BY <1>1, <3>1, HoldsOn
  <2>2. Stands
    BY <1>1 DEF volatile, Stands, Grown, OriginalsLeft, SilentStep, Gentle, At
  <2> QED BY <1>1, <2>1, <2>2 DEF StandInv
<1>2. ASSUME NEW i \in Id, NEW r, ideas' = [ideas EXCEPT ![i] = r], Gentle(ideas[i], r),
             UNCHANGED volatile,
             mark' = NoMark \/ (mark' = mark /\ r.support = ideas[i].support)
      PROVE  StandInv' /\ Stands
  <2>1. Id' = Id /\ ideas'[i] = r /\ \A j \in Id : j # i => ideas'[j] = ideas[j]
    BY <1>2 DEF ArchiveInv, Stored, Id
  <2>2. \A j \in Id : Gentle(ideas[j], ideas'[j])
    BY <1>2, <2>1 DEF Gentle
  <2>3. MarkBehind'
    BY <1>2, <2>1 DEF ArchiveInv, StandInv, MarkBehind, MarkHeld, NoMark, NoRow, NewRow
  <2> QED BY <1>1, <1>2, <2>2, <2>3
<1>3. \A i \in Id : ideas[i] \in Row
  BY ElementOfSeq, LenProperties DEF ArchiveInv, Stored, Id
<1>4. ASSUME NEW i \in Id, AgeClaim(i) PROVE StandInv' /\ Stands
  <2> PICK r : r = [ideas[i] EXCEPT !.claim = "stale"]
    OBVIOUS
  <2>1. Gentle(ideas[i], r) /\ r.support = ideas[i].support
    BY <1>3 DEF Gentle, Row
  <2> QED BY <1>2, <1>4, <2>1 DEF AgeClaim
<1>5. ASSUME NEW i \in Id, ReadForMark(i) PROVE StandInv' /\ Stands
  <2> PICK r : r = [ideas[i] EXCEPT !.status = "marked"]
    OBVIOUS
  <2>1. r.status = "marked" /\ r.support = ideas[i].support
    BY <1>3 DEF Row
  <2>2. mark' = [id |-> i, row |-> r] /\ UNCHANGED <<ideas, volatile>>
    BY <1>5 DEF ReadForMark
  <2>3. MarkBehind'
    BY <2>1, <2>2 DEF MarkBehind
  <2> QED BY <1>1, <2>2, <2>3 DEF Gentle
<1>6. ASSUME NEW i \in Id, MarkStandin(i) PROVE StandInv' /\ Stands
  <2> PICK r : r = [ideas[i] EXCEPT !.scoredOn = {}, !.needs = TRUE]
    OBVIOUS
  <2>1. Gentle(ideas[i], r) /\ r.support = ideas[i].support
    BY <1>3, <1>6 DEF Gentle, Row, MarkStandin
  <2> QED BY <1>2, <1>6, <2>1 DEF MarkStandin
<1>7. CASE WriteMark
  <2> PICK i, row : i = mark.id /\ row = mark.row
    OBVIOUS
  <2>1. /\ i \in Id /\ row \in Row /\ row.status = "marked"
        /\ row.support \subseteq ideas[i].support
    BY <1>7 DEF WriteMark, ArchiveInv, MarkHeld, StandInv, MarkBehind
  <2>2. PICK r \in Row : /\ ideas' = [ideas EXCEPT ![i] = r]
                         /\ r.support = row.support /\ r.status = row.status
    BY <1>3, <1>7, <2>1, UpdatedRow DEF WriteMark
  <2>3. Gentle(ideas[i], r) /\ mark' = NoMark /\ UNCHANGED volatile
    BY <1>7, <2>1, <2>2 DEF Gentle, WriteMark
  <2> QED BY <1>2, <2>1, <2>2, <2>3
<1>8. ASSUME NEW n \in Nugget, ArchiveNugget(n) PROVE StandInv' /\ Stands
  <2>1. MarkBehind' /\ UNCHANGED <<ideas, volatile>>
    BY <1>8 DEF ArchiveNugget, StandInv, MarkBehind, NoMark, NoRow, NewRow
  <2> QED BY <1>1, <2>1 DEF Gentle
<1> QED BY <1>4, <1>5, <1>6, <1>7, <1>8 DEF Environment

LEMMA WorkerStands ==
    ASSUME ArchiveInv, StandInv, Alone, NEW w \in Worker,
           \/ StartRun(w) \/ (\E i \in Id : StartResynth(w, i))
           \/ Synthesize(w) \/ SelectPending(w) \/ Rescore(w)
           \/ Finish(w) \/ Crash(w)
    PROVE  StandInv' /\ Stands
<1>1. CASE Synthesize(w)
  <2>1. ASSUME NEW a \in Answer, ScoreMerged(w, a) PROVE StandInv' /\ Stands
    BY <2>1, ScoreMergedStands
  <2> QED BY <1>1, <2>1, SynthesisStands, InsertStands, AbsorbStands, ReadStands, VerdictStands
      DEF Synthesize
<1>2. CASE Rescore(w)
  <2>1. ASSUME NEW e \in queue[w], ClaimForRescore(w, e) PROVE StandInv' /\ Stands
    BY <2>1, ClaimStands
  <2>2. ASSUME NEW a \in Answer, ScorePending(w, a) PROVE StandInv' /\ Stands
    BY <2>2, PendingStands
  <2> QED BY <1>2, <2>1, <2>2, SynthesisStands, ReleaseStands DEF Rescore
<1> QED BY <1>1, <1>2, SynthesisStands, SelectStands

(* With one process over the archive, and the operator's commands beside it, *)
(* whatever crashes: evidence is only added to an idea that nobody marked, a *)
(* manual resynth leaves the ideas there are, and a critic that does not     *)
(* answer costs an idea an attempt and nothing else (update_idea from a row  *)
(* read before the call, cmd_resynth, rescore_pending).                      *)
THEOREM OneWorkerLetsRowsStand ==
    ASSUME \A v, w \in Worker : v = w PROVE Spec => RowsStand
<1>1. Init => StandInv
  BY DEF Init, StandInv, MarkBehind, HoldsWhatItRead, Reading
<1>2. ArchiveInv /\ StandInv /\ [Next]_vars => StandInv' /\ [Stands]_vars
  <2> SUFFICES ASSUME ArchiveInv, StandInv, [Next]_vars PROVE StandInv' /\ [Stands]_vars
    OBVIOUS
  <2>1. Alone
    BY DEF Alone
  <2>2. CASE UNCHANGED vars
    <3>1. MarkBehind'
      BY <2>2 DEF vars, StandInv, MarkBehind, NoMark, NoRow, NewRow
    <3>2. \A w \in Worker : HoldsWhatItRead(w)'
      BY <2>2 DEF vars, volatile, StandInv, HoldsWhatItRead, AsRead
    <3> QED BY <2>2, <3>1, <3>2 DEF StandInv
  <2> QED BY <2>1, <2>2, EnvironmentStands, WorkerStands DEF Next
<1>3. [Stands]_vars => /\ [\A i \in Id : ideas'[i].status = "new" =>
                             ideas[i].support \subseteq ideas'[i].support]_vars
                       /\ [\A w \in Worker : manual[w] /\ pc'[w] # pc[w] =>
                             \A i \in Id : ideas'[i] = ideas[i]]_vars
                       /\ [\A w \in Worker :
                             At(w, "asking") /\ pc'[w] = "release" /\ critic'[w] # "answered" =>
                                LET i == target[w]
                                IN  ideas[i].status = "new" =>
                                       ideas'[i] = [ideas[i] EXCEPT !.needs = TRUE]]_vars
  BY DEF Stands, Grown, OriginalsLeft, SilentStep
<1> QED
  BY <1>1, <1>2, <1>3, ArchiveInvariant, PTL
  DEF Spec, RowsStand, EvidenceOnlyGrows, ResynthLeavesOriginals, SilenceChangesNothing

-----------------------------------------------------------------------------
(* The answers of the console                                              *)

\* No client of the console sends a body with a read.
ReadsAreBare == \A r \in Calls : r.verb = "get" => r.body = 0

RequestShapes ==
    /\ at = [k \in Conns |-> at[k]] /\ ask = [k \in Conns |-> ask[k]]
    /\ unsent = [k \in Conns |-> unsent[k]] /\ unread = [k \in Conns |-> unread[k]]
    /\ left = [k \in Conns |-> left[k]] /\ reply = [k \in Conns |-> reply[k]]
    /\ \A k \in Conns : unsent[k] \in Nat /\ unread[k] \in Nat /\ left[k] \in Nat
\* What of a request's body is on its way or waits, at each place its thread
\* can be.
Sized(r) == r.framing = "length" /\ r.body <= DrainLimit
Accounted(k) ==
    LET waits == unsent[k] + unread[k]
        r == ask[k] IN
    /\ at[k] \in {"none", "head", "route", "body", "reading", "drain", "closed"}
    /\ at[k] = "none" => reply[k] = 0 /\ waits = 0
    /\ at[k] \in {"head", "route", "body", "reading", "drain"} => r \in Calls
    /\ at[k] \in {"head", "route", "body"} => waits = r.body /\ reply[k] = 0
    /\ at[k] = "reading" => waits = left[k] /\ reply[k] = 0
    /\ at[k] = "drain" /\ Sized(r) => waits = left[k]
    /\ at[k] = "closed" /\ reply[k] \notin {0, 500} /\ k \notin slow /\ Sized(r) => waits = 0
RequestInv == RequestShapes /\ \A k \in Conns : Accounted(k)

LEMMA CallIs ==
    ASSUME NEW r \in Calls
    PROVE  /\ r.verb \in {"get", "post"} /\ r.body \in 0..(DrainLimit + 1) /\ r.body \in Nat
           /\ r.framing \in {"length", "chunked", "unreadable"} /\ BodyLimit \in Nat /\ DrainLimit \in Nat
           /\ BodyLimit < DrainLimit
BY RequestsAssumption

\* One connection goes on; the others are as they were.
LEMMA ConnectionMoves ==
    ASSUME RequestInv, NEW k \in Conns, RequestShapes', Accounted(k)',
           \A j \in Conns \ {k} :
              /\ at'[j] = at[j] /\ ask'[j] = ask[j] /\ unsent'[j] = unsent[j] /\ unread'[j] = unread[j]
              /\ left'[j] = left[j] /\ reply'[j] = reply[j] /\ (j \in slow <=> j \in slow')
    PROVE  RequestInv'
<1>1. ASSUME NEW j \in Conns \ {k}
      PROVE  Accounted(j)'
  <2>1. Accounted(j)
    BY DEF RequestInv
  <2> QED
    BY <1>1, <2>1 DEF Accounted, Sized
<1> QED
  BY <1>1 DEF RequestInv

LEMMA Closes ==
    ASSUME RequestInv, NEW k \in Conns, NEW status, Close(k, status),
           status \in {0, 500} \/ ~Sized(ask[k]) \/ unsent[k] + unread[k] = 0
    PROVE  RequestInv'
<1>1. /\ at' = [at EXCEPT ![k] = "closed"] /\ reply' = [reply EXCEPT ![k] = status]
      /\ UNCHANGED <<ask, unsent, unread, left, slow>>
  BY DEF Close, Goes, Reply, wire
<1>2. RequestShapes'
  BY <1>1 DEF RequestInv, RequestShapes
<1>3. at'[k] = "closed" /\ reply'[k] = status
  BY <1>1 DEF RequestInv, RequestShapes
<1>4. Accounted(k)'
  BY <1>1, <1>3 DEF Accounted, Sized
<1>5. \A j \in Conns \ {k} : at'[j] = at[j] /\ reply'[j] = reply[j]
  BY <1>1 DEF RequestInv, RequestShapes
<1> QED
  BY <1>1, <1>2, <1>4, <1>5, ConnectionMoves

LEMMA Refuses ==
    ASSUME RequestInv, NEW k \in Conns, NEW status, at[k] \in {"route", "body"}, Refuse(k, status)
    PROVE  RequestInv'
<1>1. /\ at' = [at EXCEPT ![k] = "drain"] /\ reply' = [reply EXCEPT ![k] = status]
      /\ left' = [left EXCEPT ![k] = Drainable(ask[k])] /\ UNCHANGED <<ask, unsent, unread, slow>>
  BY DEF Refuse, Goes, Reply, wire
<1>2. ask[k] \in Calls /\ unsent[k] + unread[k] = ask[k].body
  BY DEF RequestInv, Accounted
<1>3. PICK r \in Calls : r = ask[k]
  BY <1>2
<1>4. Drainable(r) \in Nat /\ (Sized(r) => Drainable(r) = r.body)
  BY CallIs DEF Drainable, Sized
<1>5. at'[k] = "drain" /\ left'[k] = Drainable(r)
  BY <1>1, <1>3 DEF RequestInv, RequestShapes
<1>6. \A j \in Conns \ {k} : at'[j] = at[j] /\ reply'[j] = reply[j] /\ left'[j] = left[j]
  BY <1>1 DEF RequestInv, RequestShapes
<1>7. RequestShapes'
  BY <1>1, <1>4, <1>5, <1>6 DEF RequestInv, RequestShapes
<1>8. Accounted(k)'
  <2>1. Sized(r)' <=> Sized(r)
    BY DEF Sized
  <2> QED
    BY <1>1, <1>2, <1>3, <1>4, <1>5 DEF Accounted, Sized
<1> QED
  BY <1>1, <1>6, <1>7, <1>8, ConnectionMoves

\* A chunk is taken off the socket.
LEMMA Takes ==
    ASSUME RequestInv, NEW k \in Conns, at[k] \in {"reading", "drain"}, left[k] > 0, unread[k] > 0,
           left' = [left EXCEPT ![k] = left[k] - 1], unread' = [unread EXCEPT ![k] = unread[k] - 1],
           UNCHANGED <<at, ask, unsent, reply, slow>>
    PROVE  RequestInv'
<1>1. left'[k] = left[k] - 1 /\ unread'[k] = unread[k] - 1 /\ left'[k] \in Nat /\ unread'[k] \in Nat
      /\ \A j \in Conns \ {k} : left'[j] = left[j] /\ unread'[j] = unread[j]
  BY DEF RequestInv, RequestShapes
<1>2. RequestShapes'
  BY <1>1 DEF RequestInv, RequestShapes
<1>3. unsent[k] \in Nat /\ unread[k] \in Nat /\ left[k] \in Nat
  BY DEF RequestInv, RequestShapes
<1>4. Accounted(k)'
  BY <1>1, <1>3 DEF RequestInv, Accounted, Sized
<1> QED
  BY <1>1, <1>2, <1>4, ConnectionMoves

\* A thread that goes on without touching the body.
LEMMA GoesOn ==
    ASSUME RequestInv, NEW k \in Conns, NEW step, Goes(k, step), UNCHANGED <<ask, unsent, unread, left, slow>>,
           reply' = [reply EXCEPT ![k] = reply'[k]], Accounted(k)'
    PROVE  RequestInv'
<1>1. RequestShapes' /\ \A j \in Conns \ {k} : at'[j] = at[j] /\ reply'[j] = reply[j]
  BY DEF RequestInv, RequestShapes, Goes
<1> QED
  BY <1>1, ConnectionMoves

LEMMA RequestStep ==
    ASSUME ReadsAreBare, RequestInv, [RequestsNext]_requestVars
    PROVE  RequestInv'
<1>t. RequestShapes /\ \A k \in Conns : Accounted(k) /\ unsent[k] \in Nat /\ unread[k] \in Nat /\ left[k] \in Nat
  BY DEF RequestInv, RequestShapes
<1>1. CASE UNCHANGED requestVars \/ ArchiveChanges
  BY <1>1 DEF requestVars, ArchiveChanges, wire, RequestInv, RequestShapes, Accounted, Sized
<1>2. ASSUME NEW k \in Conns, NEW r \in Calls, Connect(k, r)
      PROVE  RequestInv'
  <2>1. /\ at' = [at EXCEPT ![k] = "head"] /\ ask' = [ask EXCEPT ![k] = r] /\ unsent' = [unsent EXCEPT ![k] = r.body]
        /\ at[k] = "none" /\ UNCHANGED <<unread, left, reply, slow>>
    BY <1>2 DEF Connect, Goes
  <2>2. /\ at'[k] = "head" /\ ask'[k] = r /\ unsent'[k] = r.body /\ unread'[k] = 0 /\ reply'[k] = 0
        /\ \A j \in Conns \ {k} : at'[j] = at[j] /\ ask'[j] = ask[j] /\ unsent'[j] = unsent[j]
    BY <1>t, <2>1 DEF RequestShapes, Accounted
  <2>3. r.body \in Nat
    BY CallIs
  <2>4. RequestShapes'
    BY <1>t, <2>1, <2>2, <2>3 DEF RequestShapes
  <2>5. Accounted(k)'
    BY <2>2, <2>3 DEF Accounted
  <2> QED
    BY <2>1, <2>2, <2>4, <2>5, ConnectionMoves
<1>3. ASSUME NEW k \in Conns, HeadArrives(k) \/ HeadTimeout(k)
      PROVE  RequestInv'
  <2>1. PICK step \in {"route", "closed"} : Goes(k, step)
    BY <1>3 DEF HeadArrives, HeadTimeout
  <2>2. at[k] = "head" /\ UNCHANGED <<ask, unsent, unread, left, reply, slow>>
    BY <1>3 DEF HeadArrives, HeadTimeout, wire
  <2>3. at'[k] = step
    BY <1>t, <2>1 DEF Goes, RequestShapes
  <2>4. Accounted(k)'
    BY <1>t, <2>2, <2>3 DEF Accounted, Sized
  <2>5. reply' = [reply EXCEPT ![k] = reply'[k]]
    BY <1>t, <2>2 DEF RequestShapes
  <2> QED
    BY <2>1, <2>2, <2>4, <2>5, GoesOn
<1>4. ASSUME NEW k \in Conns, BodyArrives(k)
      PROVE  RequestInv'
  <2>1. /\ at[k] \notin {"none", "head"} /\ unsent[k] > 0 /\ unsent' = [unsent EXCEPT ![k] = unsent[k] - 1]
        /\ unread' = [unread EXCEPT ![k] = unread[k] + 1] /\ UNCHANGED <<at, ask, left, reply, slow>>
    BY <1>4 DEF BodyArrives
  <2>2. /\ unsent'[k] = unsent[k] - 1 /\ unread'[k] = unread[k] + 1 /\ unsent'[k] \in Nat /\ unread'[k] \in Nat
        /\ unsent'[k] + unread'[k] = unsent[k] + unread[k]
        /\ \A j \in Conns \ {k} : unsent'[j] = unsent[j] /\ unread'[j] = unread[j]
    BY <1>t, <2>1 DEF RequestShapes
  <2>3. RequestShapes'
    BY <1>t, <2>1, <2>2 DEF RequestShapes
  <2>4. Accounted(k)'
    <3>1. Accounted(k)
      BY <1>t
    <3> QED
      BY <2>1, <2>2, <3>1 DEF Accounted, Sized
  <2> QED
    BY <2>1, <2>2, <2>3, <2>4, ConnectionMoves
<1>5. ASSUME NEW k \in Conns, RouteGet(k)
      PROVE  RequestInv'
  <2> PICK r : r = ask[k]
    OBVIOUS
  <2>1. at[k] = "route" /\ r \in Calls /\ r.body = 0 /\ unsent[k] + unread[k] = 0
    BY <1>5, <1>t DEF RouteGet, Accounted, ReadsAreBare
  <2>2. \/ \E status \in {403, 503} : Refuse(k, status)
        \/ \E status \in {401, 404, 200} : Close(k, status)
    BY <1>5 DEF RouteGet
  <2> QED
    BY <2>1, <2>2, Refuses, Closes
<1>6. ASSUME NEW k \in Conns, RoutePost(k)
      PROVE  RequestInv'
  <2>1. at[k] = "route"
    BY <1>6 DEF RoutePost
  <2>2. CASE \E status \in {403, 401, 503} : Refuse(k, status)
    BY <2>1, <2>2, Refuses
  <2>3. CASE Goes(k, "body") /\ UNCHANGED <<wire, left, reply, current, slow>>
    <3>1. at'[k] = "body" /\ UNCHANGED <<ask, unsent, unread, left, reply, slow>>
          /\ reply' = [reply EXCEPT ![k] = reply'[k]]
      BY <1>t, <2>3 DEF Goes, RequestShapes, wire
    <3>2. Accounted(k)'
      BY <1>t, <2>1, <3>1 DEF Accounted
    <3> QED
      BY <2>3, <3>1, <3>2, GoesOn
  <2> QED
    BY <1>6, <2>2, <2>3 DEF RoutePost
<1>7. ASSUME NEW k \in Conns, RouteCrashes(k)
      PROVE  RequestInv'
  BY <1>7, Closes, RequestInv DEF RouteCrashes
<1>8. ASSUME NEW k \in Conns, ReadBody(k)
      PROVE  RequestInv'
  <2> PICK r : r = ask[k]
    OBVIOUS
  <2>1. at[k] = "body" /\ r \in Calls /\ unsent[k] + unread[k] = r.body /\ reply[k] = 0
    BY <1>8, <1>t DEF ReadBody, Accounted
  <2>2. \/ Refuse(k, 411)
        \/ r.framing = "unreadable" /\ Close(k, 400)
        \/ Refuse(k, 413)
        \/ /\ Goes(k, "reading") /\ left' = [left EXCEPT ![k] = r.body]
           /\ UNCHANGED <<wire, reply, current, slow>>
    BY <1>8 DEF ReadBody
  <2>3. CASE Refuse(k, 411) \/ Refuse(k, 413)
    BY <2>1, <2>3, Refuses
  <2>4. CASE r.framing = "unreadable" /\ Close(k, 400)
    BY <2>4, Closes DEF Sized
  <2>5. CASE /\ Goes(k, "reading") /\ left' = [left EXCEPT ![k] = r.body]
             /\ UNCHANGED <<wire, reply, current, slow>>
    <3>1. /\ at'[k] = "reading" /\ left'[k] = r.body /\ UNCHANGED <<ask, unsent, unread, reply, slow>>
          /\ \A j \in Conns \ {k} : at'[j] = at[j] /\ left'[j] = left[j]
      BY <1>t, <2>5 DEF Goes, RequestShapes, wire
    <3>2. r.body \in Nat
      BY <2>1, CallIs
    <3>3. RequestShapes'
      BY <1>t, <2>5, <3>1, <3>2 DEF RequestShapes, Goes
    <3>4. Accounted(k)'
      BY <2>1, <3>1 DEF Accounted
    <3> QED
      BY <3>1, <3>3, <3>4, ConnectionMoves
  <2> QED
    BY <2>2, <2>3, <2>4, <2>5
<1>9. ASSUME NEW k \in Conns, ReadChunk(k) \/ Drain(k)
      PROVE  RequestInv'
  <2>1. /\ at[k] \in {"reading", "drain"} /\ left[k] > 0 /\ unread[k] > 0
        /\ left' = [left EXCEPT ![k] = left[k] - 1] /\ unread' = [unread EXCEPT ![k] = unread[k] - 1]
        /\ UNCHANGED <<at, ask, unsent, reply, slow>>
    BY <1>9 DEF ReadChunk, Drain
  <2> QED
    BY <2>1, Takes
\* A thread that has the whole body, or gives its client up.
<1>c. ASSUME NEW k \in Conns, Goes(k, "closed"), UNCHANGED <<ask, unsent, unread, left>>,
             reply' = [reply EXCEPT ![k] = reply'[k]], slow' = slow \/ slow' = slow \cup {k},
             k \in slow' \/ ~Sized(ask[k]) \/ unsent[k] + unread[k] = 0
      PROVE  RequestInv'
  <2>1. at'[k] = "closed" /\ \A j \in Conns \ {k} : at'[j] = at[j] /\ reply'[j] = reply[j]
    BY <1>c, <1>t DEF Goes, RequestShapes
  <2>2. RequestShapes'
    BY <1>c, <1>t DEF Goes, RequestShapes
  <2>3. Accounted(k)'
    BY <1>c, <2>1 DEF Accounted, Sized
  <2>4. \A j \in Conns \ {k} : j \in slow <=> j \in slow'
    BY <1>c
  <2> QED
    BY <1>c, <2>1, <2>2, <2>3, <2>4, ConnectionMoves
<1>10. ASSUME NEW k \in Conns, BodyTimeout(k) \/ BodyCut(k)
       PROVE  RequestInv'
  <2>1. Goes(k, "closed") /\ UNCHANGED <<ask, unsent, unread, left>> /\ slow' = slow \cup {k}
    BY <1>10 DEF BodyTimeout, BodyCut, wire
  <2>2. \E status : Reply(k, status)
    BY <1>10 DEF BodyTimeout, BodyCut, Operate
  <2>3. reply' = [reply EXCEPT ![k] = reply'[k]]
    BY <1>t, <2>2 DEF Reply, RequestShapes
  <2> QED
    BY <1>c, <2>1, <2>3
<1>11. ASSUME NEW k \in Conns, BadBody(k) \/ Perform(k)
       PROVE  RequestInv'
  <2>1. /\ Goes(k, "closed") /\ UNCHANGED <<ask, unsent, unread, left, slow>>
        /\ at[k] = "reading" /\ left[k] = 0
    BY <1>11 DEF BadBody, Perform, Close, wire
  <2>2. \E status : Reply(k, status)
    BY <1>11 DEF BadBody, Perform, Close, Operate
  <2>3. reply' = [reply EXCEPT ![k] = reply'[k]]
    BY <1>t, <2>2 DEF Reply, RequestShapes
  <2>4. unsent[k] + unread[k] = 0
    BY <1>t, <2>1 DEF Accounted
  <2> QED
    BY <1>c, <2>1, <2>3, <2>4
<1>12. ASSUME NEW k \in Conns, DrainEnds(k)
       PROVE  RequestInv'
  <2>1. /\ Goes(k, "closed") /\ UNCHANGED <<ask, unsent, unread, left, reply>> /\ at[k] = "drain"
        /\ slow' = IF left[k] > 0 THEN slow \cup {k} ELSE slow
    BY <1>12 DEF DrainEnds, wire
  <2>2. left[k] > 0 \/ ~Sized(ask[k]) \/ unsent[k] + unread[k] = 0
    BY <1>t, <2>1 DEF Accounted
  <2>3. reply' = [reply EXCEPT ![k] = reply'[k]]
    BY <1>t, <2>1 DEF RequestShapes
  <2> QED
    BY <1>c, <2>1, <2>2, <2>3
<1> QED
  BY <1>1, <1>2, <1>3, <1>4, <1>5, <1>6, <1>7, <1>8, <1>9, <1>10, <1>11, <1>12 DEF RequestsNext, Serve

(***************************************************************************)
(* Any number of connections, each with a client that may stop at any      *)
(* byte: when one is closed on an answer, nothing its client was let send  *)
(* waits in the socket to take that answer back (_refuse, _discard_body).  *)
(***************************************************************************)
THEOREM AnswersReachTheirClients == ReadsAreBare => (RequestsSpec => []AnswerArrives)
<1> SUFFICES ASSUME ReadsAreBare
             PROVE  RequestsSpec => []AnswerArrives
  OBVIOUS
<1>1. RequestsInit => RequestInv
  BY DEF RequestsInit, RequestInv, RequestShapes, Accounted
<1>2. RequestInv /\ [RequestsNext]_requestVars => RequestInv'
  BY RequestStep
<1>3. RequestInv => AnswerArrives
  <2> SUFFICES ASSUME RequestInv, NEW k \in Conns, at[k] = "closed", reply[k] \notin {0, 500}, k \notin slow,
                      ask[k].framing = "length", ask[k].body <= DrainLimit
               PROVE  unread[k] = 0 /\ unsent[k] = 0
    BY DEF AnswerArrives
  <2>1. unread[k] \in Nat /\ unsent[k] \in Nat /\ Accounted(k)
    BY DEF RequestInv, RequestShapes
  <2> QED
    BY <2>1 DEF Accounted, Sized
<1> QED
  BY <1>1, <1>2, <1>3, PTL DEF RequestsSpec
=============================================================================
