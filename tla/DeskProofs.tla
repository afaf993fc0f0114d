----------------------------- MODULE DeskProofs -----------------------------
(***************************************************************************)
(* What a person does beside the worker, for any number of processes,      *)
(* requests and files: the vectors of the archive, its schema, backups,    *)
(* packs and themes, the agents, the schedule, the chat, the settings and  *)
(* the edits.                                                              *)
(***************************************************************************)
EXTENDS Corpus, Packs, Llm, Schedule, GroqChat, ChatTurn, Settings, Schema, Backup, Themes, Edits, Integers,
        FiniteSetTheorems, SequenceTheorems, WellFoundedInduction, TLAPS

-----------------------------------------------------------------------------
(* The vectors of the archive                                              *)

Space == Models \cup {NoModel}
Row == [kept : BOOLEAN, text : BOOLEAN, flagged : BOOLEAN]
Point == [by : Space, of : {"nothing", "text", "empty"}]
Archiving == [step : {"idle", "look", "insert"}, by : Space, at : SUBSET Nuggets, vector : BOOLEAN]
Repair == [step : {"idle", "work", "mark"}, by : Space, all : BOOLEAN, todo : SUBSET Nuggets,
           at : SUBSET Nuggets, texts : SUBSET Nuggets, failed : BOOLEAN]
CorpusTypes ==
    /\ model \in Models /\ tag \in Space /\ torn \in BOOLEAN
    /\ nugget \in [Nuggets -> Row] /\ point \in [Nuggets -> Point]
    /\ archiving \in Archiving /\ repair \in Repair

(* The lock of the local store. *)
OneHolder == archiving.step = "idle" \/ repair.step = "idle"

(* A corpus without a tag has no rows; a run archives under the tag. *)
TagFirst ==
    /\ tag = NoModel => \A n \in Nuggets : ~nugget[n].kept
    /\ archiving.step # "idle" => archiving.by = tag /\ tag # NoModel
(* The row that is about to be written unflagged has its vector. *)
PointFirst ==
    archiving.step = "insert" /\ archiving.vector =>
        \A n \in archiving.at : point[n].by = archiving.by

(* What a repair has written: under the tag, or the corpus is torn; and what
   it has left behind is of its model, all of it when it covers the archive. *)
RepairTold == repair.step # "idle" => torn \/ repair.by = tag
RepairNamed == repair.step # "idle" => repair.by # NoModel
MarkedWritten == repair.step = "mark" => \A n \in repair.at : point[n].by = repair.by
RepairCovers ==
    repair.step # "idle" /\ repair.all /\ ~repair.failed =>
        \A n \in Nuggets \ repair.todo : nugget[n].kept => point[n].by = repair.by

(* OneSpace, nugget by nugget. *)
InSpace(n) ==
    tag # NoModel /\ ~torn /\ nugget[n].kept /\ ~nugget[n].flagged /\ point[n] # NoPoint
        => point[n].by = tag

CorpusInv ==
    /\ CorpusTypes /\ OneHolder /\ TagFirst /\ PointFirst
    /\ RepairTold /\ RepairNamed /\ MarkedWritten /\ RepairCovers
    /\ \A n \in Nuggets : InSpace(n)

----------------------------------------------------------------------------
LEMMA CorpusInvInit == CorpusInit => CorpusInv
<1> SUFFICES ASSUME CorpusInit
             PROVE  CorpusInv
  OBVIOUS
<1>1. CorpusTypes
  BY DEF CorpusInit, CorpusTypes, Space, Row, Point, Archiving, Repair,
         NoRow, NoPoint, NoArchiving, NoRepair
<1>2. OneHolder /\ TagFirst /\ PointFirst
  BY DEF CorpusInit, OneHolder, TagFirst, PointFirst, NoArchiving, NoRow
<1>3. RepairTold /\ RepairNamed /\ MarkedWritten /\ RepairCovers
  BY DEF CorpusInit, RepairTold, RepairNamed, MarkedWritten, RepairCovers, NoRepair
<1>4. \A n \in Nuggets : InSpace(n)
  BY DEF CorpusInit, InSpace
<1> QED
  BY <1>1, <1>2, <1>3, <1>4 DEF CorpusInv

(* A step of the archivist that leaves rows, vectors, tag and repair alone,  *)
(* and ends what it was at.                                                  *)
LEMMA ArchivingEnds ==
    ASSUME CorpusInv, archiving' = NoArchiving,
           UNCHANGED <<model, tag, nugget, point, repair, torn>>
    PROVE  CorpusInv'
<1>1. NoArchiving \in Archiving
  BY DEF NoArchiving, Archiving, Space
<1>2. archiving'.step = "idle"
  BY DEF NoArchiving
<1> QED
  BY <1>1, <1>2 DEF CorpusInv, CorpusTypes, OneHolder, TagFirst, PointFirst, RepairTold,
                    RepairNamed, MarkedWritten, RepairCovers, InSpace

(* A repair that is given up leaves what it wrote. *)
LEMMA RepairGivenUp ==
    ASSUME CorpusInv, repair' = NoRepair,
           UNCHANGED <<model, tag, nugget, point, archiving, torn>>
    PROVE  CorpusInv'
<1>1. NoRepair \in Repair
  BY DEF NoRepair, Repair, Space
<1>2. repair'.step = "idle"
  BY DEF NoRepair
<1> QED
  BY <1>1, <1>2 DEF CorpusInv, CorpusTypes, OneHolder, TagFirst, PointFirst, RepairTold,
                    RepairNamed, MarkedWritten, RepairCovers, InSpace

LEMMA CorpusInvStep ==
    ASSUME ~Overlap, CorpusInv, [CorpusNext]_corpusVars
    PROVE  CorpusInv'
<1> USE DEF CorpusInv
<1>1. ASSUME NEW m \in Models, ChangeModel(m)
      PROVE  CorpusInv'
  BY <1>1 DEF ChangeModel, CorpusTypes, OneHolder, TagFirst, PointFirst, RepairTold,
              RepairNamed, MarkedWritten, RepairCovers, InSpace
<1>2. ASSUME StartArchiving
      PROVE  CorpusInv'
  <2>1. /\ archiving' = [step |-> "look", by |-> model, at |-> {}, vector |-> FALSE]
        /\ tag' = model /\ tag \in {NoModel, model} /\ repair.step = "idle"
        /\ UNCHANGED <<model, nugget, point, repair, torn>>
    BY <1>2 DEF StartArchiving, NoArchiving
  <2>2. model \in Space /\ model # NoModel
    BY CorpusAssumption DEF CorpusTypes, Space, CorpusAssumption
  <2>3. /\ archiving' \in Archiving /\ archiving'.step = "look" /\ archiving'.by = model
    BY <2>1, <2>2 DEF Archiving
  <2>4. CorpusTypes'
    BY <2>1, <2>2, <2>3 DEF CorpusTypes
  <2>5. (OneHolder /\ TagFirst /\ PointFirst)'
    BY <2>1, <2>2, <2>3 DEF OneHolder, TagFirst, PointFirst
  <2>6. (RepairTold /\ RepairNamed /\ MarkedWritten /\ RepairCovers)'
    BY <2>1 DEF RepairTold, RepairNamed, MarkedWritten, RepairCovers
  <2>7. \A n \in Nuggets : InSpace(n)'
    BY <2>1 DEF InSpace, TagFirst
  <2> QED
    BY <2>4, <2>5, <2>6, <2>7
<1>3. ASSUME NEW n \in Nuggets, NEW stored \in BOOLEAN, ArchiveVector(n, stored)
      PROVE  CorpusInv'
  <2>1. /\ archiving.step = "look" /\ ~nugget[n].kept
        /\ archiving' = [archiving EXCEPT !.step = "insert", !.at = {n}, !.vector = stored]
        /\ UNCHANGED <<model, tag, nugget, repair, torn>>
    BY <1>3 DEF ArchiveVector, Kept
  <2>2. /\ archiving' \in Archiving /\ archiving'.step = "insert"
        /\ archiving'.by = archiving.by /\ archiving'.at = {n}
        /\ archiving'.vector = stored /\ archiving.by \in Space
    BY <2>1 DEF CorpusTypes, Archiving
  <2>3. /\ point' \in [Nuggets -> Point]
        /\ stored => point'[n].by = archiving.by
        /\ \A k \in Nuggets \ {n} : point'[k] = point[k]
    BY <1>3, <2>2 DEF ArchiveVector, CorpusTypes, Point
  <2>4. repair.step = "idle"
    BY <2>1 DEF OneHolder
  <2>5. CorpusTypes'
    BY <2>1, <2>2, <2>3 DEF CorpusTypes
  <2>6. (OneHolder /\ TagFirst /\ PointFirst)'
    BY <2>1, <2>2, <2>3, <2>4 DEF OneHolder, TagFirst, PointFirst
  <2>7. (RepairTold /\ RepairNamed /\ MarkedWritten /\ RepairCovers)'
    BY <2>1, <2>4 DEF RepairTold, RepairNamed, MarkedWritten, RepairCovers
  <2>8. \A k \in Nuggets : InSpace(k)'
    BY <2>1, <2>3 DEF InSpace
  <2> QED
    BY <2>5, <2>6, <2>7, <2>8
<1>4. ASSUME InsertNugget
      PROVE  CorpusInv'
  <2> DEFINE row == [kept |-> TRUE, text |-> TRUE, flagged |-> ~archiving.vector]
  <2>1. /\ archiving.step = "insert" /\ repair.step = "idle"
        /\ archiving.by = tag /\ tag # NoModel /\ archiving.at \subseteq Nuggets
        /\ archiving.vector \in BOOLEAN
        /\ UNCHANGED <<model, tag, point, repair, torn>>
    BY <1>4 DEF InsertNugget, OneHolder, TagFirst, CorpusTypes, Archiving
  <2>2. /\ nugget' \in [Nuggets -> Row]
        /\ \A n \in Nuggets : nugget'[n] = IF n \in archiving.at THEN row ELSE nugget[n]
    BY <1>4, <2>1 DEF InsertNugget, CorpusTypes, Row
  <2>3. /\ archiving' \in Archiving /\ archiving'.step = "look"
        /\ archiving'.by = archiving.by
    BY <1>4 DEF InsertNugget, CorpusTypes, Archiving
  <2>4. CorpusTypes'
    BY <2>1, <2>2, <2>3 DEF CorpusTypes
  <2>5. (OneHolder /\ TagFirst /\ PointFirst)'
    BY <2>1, <2>3 DEF OneHolder, TagFirst, PointFirst
  <2>6. (RepairTold /\ RepairNamed /\ MarkedWritten /\ RepairCovers)'
    BY <2>1 DEF RepairTold, RepairNamed, MarkedWritten, RepairCovers
  <2>7. ASSUME NEW n \in Nuggets
        PROVE  InSpace(n)'
    <3>1. CASE n \in archiving.at
      <4>1. nugget'[n].flagged = ~archiving.vector
        BY <3>1, <2>2
      <4>2. archiving.vector => point[n].by = tag
        BY <3>1, <2>1 DEF PointFirst
      <4> QED
        BY <4>1, <4>2, <2>1 DEF InSpace
    <3>2. CASE n \notin archiving.at
      BY <3>2, <2>1, <2>2 DEF InSpace
    <3> QED
      BY <3>1, <3>2
  <2> QED
    BY <2>4, <2>5, <2>6, <2>7
<1>5. ASSUME EndArchiving \/ ArchivistKilled
      PROVE  CorpusInv'
  BY <1>5, ArchivingEnds DEF EndArchiving, ArchivistKilled
<1>6. ASSUME NEW n \in Nuggets, RetentionSweep(n)
      PROVE  CorpusInv'
  <2>1. /\ nugget' \in [Nuggets -> Row]
        /\ \A k \in Nuggets : /\ nugget'[k].kept = nugget[k].kept
                              /\ nugget'[k].flagged = nugget[k].flagged
        /\ UNCHANGED <<model, tag, point, archiving, repair, torn>>
    BY <1>6 DEF RetentionSweep, CorpusTypes, Row
  <2> QED
    BY <2>1 DEF CorpusTypes, OneHolder, TagFirst, PointFirst, RepairTold,
                RepairNamed, MarkedWritten, RepairCovers, InSpace
<1>7. ASSUME NEW all \in BOOLEAN, NEW recreate \in BOOLEAN, NEW console \in BOOLEAN,
             StartRepair(all, recreate, console)
      PROVE  CorpusInv'
  <2> DEFINE rows == IF all THEN Kept ELSE {n \in Kept : nugget[n].flagged}
             texts == {n \in rows : nugget[n].text}
  <2>1. archiving.step = "idle" /\ UNCHANGED <<model, tag, nugget, archiving>>
    BY <1>7 DEF StartRepair
  <2>2. point' = point \/ point' = [n \in Nuggets |-> NoPoint]
    BY <1>7 DEF StartRepair
  <2>3. NoPoint \in Point
    BY DEF NoPoint, Point, Space
  <2>4. torn' \in BOOLEAN /\ (~torn' => ~torn) /\ (~torn' => rows = {} \/ model = tag)
    <3>1. torn' = (torn \/ (rows # {} /\ model # tag))
      BY <1>7 DEF StartRepair
    <3> QED
      BY <3>1, Zenon DEF CorpusTypes
  <2>5. rows \subseteq Nuggets /\ texts \subseteq Nuggets
    BY DEF Kept
  <2>6. repair' = IF rows = {} THEN NoRepair
                  ELSE [step |-> "work", by |-> model, all |-> all, todo |-> rows, at |-> {},
                        texts |-> texts, failed |-> FALSE]
    BY <1>7 DEF StartRepair
  <2>7. repair' \in Repair
    BY <2>5, <2>6 DEF Repair, NoRepair, CorpusTypes, Space
  <2>8. CorpusTypes'
    BY <2>1, <2>2, <2>3, <2>4, <2>7 DEF CorpusTypes
  <2>9. (OneHolder /\ TagFirst /\ PointFirst)'
    BY <2>1 DEF OneHolder, TagFirst, PointFirst
  <2>10. /\ repair'.step # "idle" =>
              /\ rows # {} /\ repair'.by = model /\ repair'.step = "work"
              /\ repair'.all = all /\ repair'.todo = rows
    BY <2>6 DEF NoRepair
  <2>11. RepairTold' /\ RepairNamed' /\ MarkedWritten'
    BY <2>1, <2>4, <2>10, CorpusAssumption
       DEF RepairTold, RepairNamed, MarkedWritten, CorpusTypes, CorpusAssumption
  <2>12. RepairCovers'
    BY <2>1, <2>10 DEF RepairCovers, Kept
  <2>13. \A n \in Nuggets : InSpace(n)'
    BY <2>1, <2>2, <2>4 DEF InSpace
  <2> QED
    BY <2>8, <2>9, <2>11, <2>12, <2>13
<1>8. ASSUME NEW n \in Nuggets, NEW stored \in BOOLEAN, ReembedVector(n, stored)
      PROVE  CorpusInv'
  <2>1. /\ repair.step = "work" /\ n \in repair.todo /\ archiving.step = "idle"
        /\ UNCHANGED <<model, tag, nugget, archiving, torn>>
    BY <1>8 DEF ReembedVector, OneHolder
  <2>2. /\ repair \in Repair /\ repair.by \in Space
    BY DEF CorpusTypes, Repair
  <2>3. (OneHolder /\ TagFirst /\ PointFirst)'
    BY <2>1 DEF OneHolder, TagFirst, PointFirst
  <2>4. CASE stored
    <3> DEFINE v == [by |-> repair.by, of |-> IF n \in repair.texts THEN "text" ELSE "empty"]
    <3>1. /\ point' = [point EXCEPT ![n] = v]
          /\ repair' = [repair EXCEPT !.step = "mark", !.todo = @ \ {n}, !.at = {n}]
      BY <1>8, <2>4 DEF ReembedVector
    <3>2. v \in Point /\ v.by = repair.by
      BY <2>2 DEF Point
    <3>3. /\ point' \in [Nuggets -> Point] /\ point'[n] = v
          /\ \A k \in Nuggets \ {n} : point'[k] = point[k]
      BY <3>1, <3>2 DEF CorpusTypes
    <3>4. /\ repair' \in Repair /\ repair'.step = "mark" /\ repair'.at = {n}
          /\ repair'.by = repair.by /\ repair'.all = repair.all
          /\ repair'.failed = repair.failed /\ repair'.todo = repair.todo \ {n}
      BY <2>2, <3>1 DEF Repair
    <3>5. CorpusTypes'
      BY <2>1, <3>3, <3>4 DEF CorpusTypes
    <3>6. RepairTold' /\ RepairNamed' /\ MarkedWritten'
      BY <2>1, <3>2, <3>3, <3>4 DEF RepairTold, RepairNamed, MarkedWritten
    <3>7. RepairCovers'
      BY <2>1, <3>2, <3>3, <3>4 DEF RepairCovers
    <3>8. \A k \in Nuggets : InSpace(k)'
      BY <2>1, <3>2, <3>3 DEF InSpace, RepairTold
    <3> QED
      BY <2>3, <3>5, <3>6, <3>7, <3>8
  <2>5. CASE ~stored
    <3>1. /\ point' = point
          /\ repair' = [repair EXCEPT !.todo = @ \ {n}, !.failed = TRUE]
      BY <1>8, <2>5 DEF ReembedVector
    <3>2. /\ repair' \in Repair /\ repair'.step = "work" /\ repair'.failed
          /\ repair'.by = repair.by
      BY <2>1, <2>2, <3>1 DEF Repair
    <3>3. CorpusTypes'
      BY <2>1, <3>1, <3>2 DEF CorpusTypes
    <3>4. (RepairTold /\ RepairNamed /\ MarkedWritten /\ RepairCovers)'
      BY <2>1, <3>2 DEF RepairTold, RepairNamed, MarkedWritten, RepairCovers
    <3>5. \A k \in Nuggets : InSpace(k)'
      BY <2>1, <3>1 DEF InSpace
    <3> QED
      BY <2>3, <3>3, <3>4, <3>5
  <2> QED
    BY <2>4, <2>5
<1>9. ASSUME MarkReembedded
      PROVE  CorpusInv'
  <2>1. /\ repair.step = "mark" /\ archiving.step = "idle" /\ repair \in Repair
        /\ UNCHANGED <<model, tag, point, archiving, torn>>
    BY <1>9 DEF MarkReembedded, OneHolder, CorpusTypes
  <2>2. /\ nugget' \in [Nuggets -> Row]
        /\ \A n \in Nuggets : /\ nugget'[n].kept = nugget[n].kept
                              /\ n \notin repair.at => nugget'[n] = nugget[n]
    BY <1>9 DEF MarkReembedded, CorpusTypes, Row
  <2>3. /\ repair' \in Repair /\ repair'.step = "work"
        /\ repair'.by = repair.by /\ repair'.all = repair.all
        /\ repair'.failed = repair.failed /\ repair'.todo = repair.todo
    BY <1>9, <2>1 DEF MarkReembedded, Repair
  <2>4. CorpusTypes'
    BY <2>1, <2>2, <2>3 DEF CorpusTypes
  <2>5. (OneHolder /\ TagFirst /\ PointFirst)'
    BY <2>1, <2>2 DEF OneHolder, TagFirst, PointFirst
  <2>6. (RepairTold /\ RepairNamed /\ MarkedWritten /\ RepairCovers)'
    BY <2>1, <2>2, <2>3 DEF RepairTold, RepairNamed, MarkedWritten, RepairCovers
  <2>7. \A n \in Nuggets : InSpace(n)'
    BY <2>1, <2>2 DEF InSpace, MarkedWritten, RepairTold
  <2> QED
    BY <2>4, <2>5, <2>6, <2>7
<1>10. ASSUME EndRepair
       PROVE  CorpusInv'
  <2>1. /\ repair.step = "work" /\ repair.todo = {} /\ archiving.step = "idle"
        /\ UNCHANGED <<model, nugget, point, archiving>>
        /\ repair' = NoRepair /\ repair.by # NoModel
    BY <1>10 DEF EndRepair, OneHolder, RepairNamed
  <2>2. CASE repair.all /\ ~repair.failed
    <3>1. tag' = repair.by /\ ~torn'
      BY <1>10, <2>2 DEF EndRepair
    <3>2. \A n \in Nuggets : nugget[n].kept => point[n].by = repair.by
      BY <2>1, <2>2 DEF RepairCovers
    <3>3. tag' \in Space /\ torn' \in BOOLEAN
      BY <3>1, <1>10 DEF EndRepair, CorpusTypes, Repair
    <3>4. CorpusTypes' /\ repair'.step = "idle"
      BY <2>1, <3>3 DEF CorpusTypes, NoRepair, Repair, Space
    <3>5. (OneHolder /\ TagFirst /\ PointFirst)'
      BY <2>1, <3>1 DEF OneHolder, TagFirst, PointFirst
    <3>6. (RepairTold /\ RepairNamed /\ MarkedWritten /\ RepairCovers)'
      BY <3>4 DEF RepairTold, RepairNamed, MarkedWritten, RepairCovers
    <3>7. \A n \in Nuggets : InSpace(n)'
      BY <2>1, <3>1, <3>2 DEF InSpace
    <3> QED
      BY <3>4, <3>5, <3>6, <3>7
  <2>3. CASE ~(repair.all /\ ~repair.failed)
    <3>1. tag' = tag
      BY <1>10, <2>3 DEF EndRepair
    <3>2. torn' = torn
      BY <1>10, <2>3, Zenon DEF EndRepair, CorpusTypes
    <3> QED
      BY <2>1, <3>1, <3>2, RepairGivenUp
  <2> QED
    BY <2>2, <2>3
<1>11. ASSUME RepairKilled
       PROVE  CorpusInv'
  BY <1>11, RepairGivenUp DEF RepairKilled
<1>12. CASE UNCHANGED corpusVars
  BY <1>12 DEF corpusVars, CorpusTypes, OneHolder, TagFirst, PointFirst, RepairTold,
               RepairNamed, MarkedWritten, RepairCovers, InSpace
<1> QED
  BY <1>1, <1>2, <1>3, <1>4, <1>5, <1>6, <1>7, <1>8, <1>9, <1>10, <1>11, <1>12 DEF CorpusNext

----------------------------------------------------------------------------
(* The inductive invariant, of the processes of archivist.py and cli.py over *)
(* a local store (vector.py), which one of them at a time may open.          *)
THEOREM CorpusInvariant ==
    ASSUME ~Overlap
    PROVE  CorpusSpec => []CorpusInv
<1>1. CorpusInit => CorpusInv
  BY CorpusInvInit
<1>2. CorpusInv /\ [CorpusNext]_corpusVars => CorpusInv'
  BY CorpusInvStep
<1> QED
  BY <1>1, <1>2, PTL DEF CorpusSpec

(* For any number of nuggets and of models: unless a repair has begun to     *)
(* write under a model it has not tagged, every archived vector that is not  *)
(* flagged is of the model that meta.corpus_embedding_model names.           *)
THEOREM SpaceIsOne ==
    ASSUME ~Overlap
    PROVE  CorpusSpec => []OneSpace
<1>1. CorpusInv => OneSpace
  BY DEF CorpusInv, InSpace, OneSpace, Kept, Vectored
<1> QED
  BY <1>1, CorpusInvariant, PTL

-----------------------------------------------------------------------------
(* The evidence pack: its files agree                                      *)

PackRow == [ideas : Citations, nuggets : SUBSET NuggetKeys, sources : SUBSET NuggetKeys,
            missing : SUBSET NuggetKeys]

\* What is known of a pack of which so many tables were read: an idea cites
\* nuggets that are there, and a table that is read later holds them.
ReadThrough(pack, r, rows) ==
    /\ pack.nuggets \subseteq rows \cap RunKeys
    /\ r >= 1 => Cited(pack) \subseteq rows
    /\ r >= 2 => Cited(pack) \cap RunKeys \subseteq pack.nuggets
    /\ r >= 3 => pack.nuggets \subseteq pack.sources
    /\ r >= 4 => pack.missing = {}

PackShapes ==
    /\ nuggetRows \subseteq NuggetKeys /\ ideaRows \in Citations
    /\ \A i \in DOMAIN ideaRows : ideaRows[i] \subseteq nuggetRows
    /\ packer \in [Packers -> [pack : Nat, read : 0..4, written : 0..3]]
    /\ packs \in Seq(PackRow)
    /\ folder \in [PackFiles -> 0..Len(packs)]

\* A pack is of one command, and a file is of one that was read to its end.
PacksAreApart ==
    /\ \A p \in Packers : packer[p].pack # 0 =>
          /\ packer[p].pack \in 1..Len(packs)
          /\ ReadThrough(packs[packer[p].pack], packer[p].read, nuggetRows)
          /\ \A q \in Packers \ {p} : packer[q].pack # packer[p].pack
          /\ packer[p].read < 4 => \A f \in PackFiles : folder[f] # packer[p].pack
    /\ \A p \in Packers : packer[p].pack = 0 => packer[p].read = 0
    /\ \A f \in PackFiles : folder[f] # 0 => ReadThrough(packs[folder[f]], 4, nuggetRows)

PacksInv == PackShapes /\ PacksAreApart

LEMMA RowsGrow ==
    ASSUME PackShapes, NEW pack \in PackRow, NEW r \in 0..4, ReadThrough(pack, r, nuggetRows),
           nuggetRows \subseteq nuggetRows'
    PROVE  ReadThrough(pack, r, nuggetRows')
BY DEF ReadThrough, Cited, PackRow

LEMMA ReadingGoesOn ==
    ASSUME PackShapes, NEW pack \in PackRow, NEW r \in 0..3, ReadThrough(pack, r, nuggetRows)
    PROVE  /\ OfTable(ReadOrder[r + 1], pack) \in PackRow
           /\ ReadThrough(OfTable(ReadOrder[r + 1], pack), r + 1, nuggetRows)
<1> DEFINE now == OfTable(ReadOrder[r + 1], pack)
<1>1. CASE r = 0
  <2>1. now = [pack EXCEPT !.ideas = ideaRows]
    BY <1>1 DEF OfTable, ReadOrder
  <2>2. now \in PackRow /\ now.ideas = ideaRows /\ now.nuggets = pack.nuggets
    BY <2>1 DEF PackShapes, PackRow
  <2>3. Cited(now) \subseteq nuggetRows
    BY <2>2 DEF Cited, PackShapes
  <2> QED
    BY <1>1, <2>2, <2>3 DEF ReadThrough
<1>2. CASE r = 1
  <2>1. now = [pack EXCEPT !.nuggets = nuggetRows \cap RunKeys]
    BY <1>2 DEF OfTable, ReadOrder
  <2>2. now \in PackRow /\ now.ideas = pack.ideas /\ now.nuggets = nuggetRows \cap RunKeys
    BY <2>1 DEF PackShapes, PackRow
  <2>3. Cited(now) = Cited(pack)
    BY <2>2 DEF Cited
  <2> QED
    BY <1>2, <2>2, <2>3 DEF ReadThrough
<1>3. CASE r = 2
  <2>1. now = [pack EXCEPT !.sources = nuggetRows \cap RunKeys]
    BY <1>3 DEF OfTable, ReadOrder
  <2>2. now \in PackRow /\ now.ideas = pack.ideas /\ now.nuggets = pack.nuggets
        /\ now.sources = nuggetRows \cap RunKeys
    BY <2>1 DEF PackShapes, PackRow
  <2>3. Cited(now) = Cited(pack)
    BY <2>2 DEF Cited
  <2> QED
    BY <1>3, <2>2, <2>3 DEF ReadThrough
<1>4. CASE r = 3
  <2>1. now = [pack EXCEPT !.missing = Cited(pack) \ nuggetRows]
    BY <1>4 DEF OfTable, ReadOrder
  <2>2. Cited(pack) \ nuggetRows = {}
    BY <1>4 DEF ReadThrough
  <2>3. now \in PackRow /\ now.ideas = pack.ideas /\ now.nuggets = pack.nuggets
        /\ now.sources = pack.sources /\ now.missing = {}
    BY <2>1, <2>2 DEF PackRow
  <2>4. Cited(now) = Cited(pack)
    BY <2>3 DEF Cited
  <2> QED
    BY <1>4, <2>3, <2>4 DEF ReadThrough
<1> QED
  BY <1>1, <1>2, <1>3, <1>4

LEMMA PackStep ==
    ASSUME PacksInv, [PacksNext]_packVars
    PROVE  PacksInv'
<1>t. PackShapes /\ PacksAreApart
  BY DEF PacksInv
<1>r. \A n \in 1..Len(packs) : packs[n] \in PackRow
  BY <1>t, ElementOfSeq DEF PackShapes
<1>1. CASE UNCHANGED packVars
  BY <1>t, <1>1 DEF packVars, PacksInv, PackShapes, PacksAreApart, ReadThrough, Cited
<1>2. ASSUME UNCHANGED <<packer, packs, folder>>, nuggetRows \subseteq nuggetRows', PackShapes'
      PROVE  PacksInv'
  <2>1. \A n \in 1..Len(packs), r \in 0..4 : ReadThrough(packs[n], r, nuggetRows) => ReadThrough(packs[n], r, nuggetRows')
    <3> SUFFICES ASSUME NEW n \in 1..Len(packs), NEW r \in 0..4, ReadThrough(packs[n], r, nuggetRows)
                 PROVE  ReadThrough(packs[n], r, nuggetRows')
      OBVIOUS
    <3> QED
      BY <1>t, <1>r, <1>2, RowsGrow DEF ReadThrough, Cited, PackRow
  <2>2. PacksAreApart'
    BY <1>t, <1>2, <2>1 DEF PackShapes, PacksAreApart
  <2> QED
    BY <1>2, <2>2 DEF PacksInv
<1>3. ASSUME NEW x \in NuggetKeys, AddNugget(x)
      PROVE  PacksInv'
  <2>1. UNCHANGED <<packer, packs, folder, ideaRows>> /\ nuggetRows' = nuggetRows \cup {x}
    BY <1>3 DEF AddNugget
  <2>2. PackShapes'
    BY <1>t, <2>1 DEF PackShapes
  <2> QED
    BY <1>2, <2>1, <2>2
<1>4. ASSUME NEW i \in IdeaRows, NEW S \in SUBSET nuggetRows, AddIdea(i, S)
      PROVE  PacksInv'
  <2>1. /\ UNCHANGED <<packer, packs, folder, nuggetRows>>
        /\ ideaRows' = [j \in DOMAIN ideaRows \cup {i} |-> IF j = i THEN S ELSE ideaRows[j]]
    BY <1>4 DEF AddIdea
  <2>2. PICK I \in SUBSET IdeaRows : ideaRows \in [I -> SUBSET NuggetKeys]
    BY <1>t DEF PackShapes, Citations
  <2>3. DOMAIN ideaRows = I
    BY <2>2
  <2>4. ideaRows' \in [I \cup {i} -> SUBSET NuggetKeys]
    BY <1>t, <2>1, <2>2, <2>3 DEF PackShapes
  <2>5. ideaRows' \in Citations
    BY <2>4 DEF Citations
  <2>6. \A j \in DOMAIN ideaRows' : ideaRows'[j] \subseteq nuggetRows
    BY <1>t, <2>1 DEF PackShapes
  <2>7. PackShapes'
    BY <1>t, <2>1, <2>5, <2>6 DEF PackShapes
  <2> QED
    BY <1>2, <2>1, <2>7
<1>5. ASSUME NEW p \in Packers, StartPack(p)
      PROVE  PacksInv'
  <2> DEFINE n == Len(packs) + 1
  <2>1. Blank \in PackRow
    <3>1. <<>> \in [{} -> SUBSET NuggetKeys]
      OBVIOUS
    <3>2. {} \in SUBSET IdeaRows
      OBVIOUS
    <3>3. <<>> \in Citations
      BY <3>1, <3>2 DEF Citations
    <3> QED
      BY <3>3 DEF Blank, PackRow
  <2>2. /\ packs' = Append(packs, Blank) /\ packer' = [packer EXCEPT ![p] = [Unpacked EXCEPT !.pack = n]]
        /\ UNCHANGED <<nuggetRows, ideaRows, folder>>
    BY <1>5 DEF StartPack, archiveRows
  <2>3. /\ packs' \in Seq(PackRow) /\ Len(packs') = n /\ Len(packs) \in Nat /\ packs'[n] = Blank
        /\ \A m \in 1..Len(packs) : packs'[m] = packs[m]
    BY <1>t, <2>1, <2>2 DEF PackShapes
  <2>4. [Unpacked EXCEPT !.pack = n] = [pack |-> n, read |-> 0, written |-> 0]
    BY DEF Unpacked
  <2> HIDE DEF n
  <2>5. PackShapes'
    BY <1>t, <2>2, <2>3, <2>4 DEF PackShapes, n
  <2>6. packer'[p] = [pack |-> n, read |-> 0, written |-> 0] /\ \A q \in Packers \ {p} : packer'[q] = packer[q]
    BY <1>t, <2>2, <2>4 DEF PackShapes
  <2>7. n \in Nat /\ n # 0 /\ n \notin 1..Len(packs) /\ n \in 1..n /\ 1..Len(packs) \subseteq 1..n
        /\ n \notin 0..Len(packs)
    BY <2>3 DEF n
  <2>8. ReadThrough(packs'[n], 0, nuggetRows')
    BY <2>3 DEF ReadThrough, Blank
  <2>9. \A m \in 1..Len(packs), r \in 0..4 : ReadThrough(packs[m], r, nuggetRows) => ReadThrough(packs'[m], r, nuggetRows')
    BY <2>2, <2>3 DEF ReadThrough, Cited
  <2>10. \A f \in PackFiles : folder[f] \in 0..Len(packs)
    BY <1>t DEF PackShapes
  <2>11. \A q \in Packers \ {p} : packer[q].pack # n
    BY <1>t, <2>7 DEF PacksAreApart
  <2>12. PacksAreApart'
    <3>1. \A q \in Packers : packer'[q].pack # 0 =>
          /\ packer'[q].pack \in 1..Len(packs')
          /\ ReadThrough(packs'[packer'[q].pack], packer'[q].read, nuggetRows')
          /\ \A o \in Packers \ {q} : packer'[o].pack # packer'[q].pack
          /\ packer'[q].read < 4 => \A f \in PackFiles : folder'[f] # packer'[q].pack
      <4> SUFFICES ASSUME NEW q \in Packers, packer'[q].pack # 0
                   PROVE  /\ packer'[q].pack \in 1..Len(packs')
                          /\ ReadThrough(packs'[packer'[q].pack], packer'[q].read, nuggetRows')
                          /\ \A o \in Packers \ {q} : packer'[o].pack # packer'[q].pack
                          /\ packer'[q].read < 4 => \A f \in PackFiles : folder'[f] # packer'[q].pack
        OBVIOUS
      <4>1. CASE q = p
        BY <2>2, <2>3, <2>6, <2>7, <2>8, <2>10, <2>11, <4>1
      <4>2. CASE q # p
        <5>1. packer[q].read \in 0..4
          BY <1>t DEF PackShapes
        <5> QED
          BY <1>t, <2>2, <2>3, <2>6, <2>7, <2>9, <2>11, <4>2, <5>1 DEF PacksAreApart
      <4> QED
        BY <4>1, <4>2
    <3>2. \A q \in Packers : packer'[q].pack = 0 => packer'[q].read = 0
      BY <1>t, <2>6 DEF PacksAreApart
    <3>3. \A f \in PackFiles : folder'[f] # 0 => ReadThrough(packs'[folder'[f]], 4, nuggetRows')
      BY <1>t, <2>2, <2>9, <2>10 DEF PacksAreApart
    <3> QED
      BY <3>1, <3>2, <3>3 DEF PacksAreApart, ReadThrough, Cited
  <2> QED
    BY <2>5, <2>12 DEF PacksInv
<1>6. ASSUME NEW p \in Packers, ReadTable(p)
      PROVE  PacksInv'
  <2> DEFINE n == packer[p].pack
             r == packer[p].read
             now == OfTable(ReadOrder[r + 1], packs[n])
  <2>1. /\ n # 0 /\ r < 4 /\ packer' = [packer EXCEPT ![p].read = r + 1]
        /\ packs' = [packs EXCEPT ![n] = now] /\ UNCHANGED <<nuggetRows, ideaRows, folder>>
    BY <1>6 DEF ReadTable, archiveRows
  <2>2. n \in 1..Len(packs) /\ r \in 0..3 /\ ReadThrough(packs[n], r, nuggetRows) /\ packs[n] \in PackRow
    BY <1>t, <1>r, <2>1 DEF PackShapes, PacksAreApart
  <2>3. now \in PackRow /\ ReadThrough(now, r + 1, nuggetRows)
    BY <1>t, <2>2, ReadingGoesOn
  <2>4. /\ \A q \in Packers \ {p} : packer'[q] = packer[q] /\ packer[q].pack # n
        /\ \A f \in PackFiles : folder[f] # n
    BY <1>t, <2>1 DEF PackShapes, PacksAreApart
  <2>5. packer'[p].pack = n /\ packer'[p].read = r + 1 /\ packer'[p] \in [pack : Nat, read : 0..4, written : 0..3]
    <3>1. packer[p] \in [pack : Nat, read : 0..4, written : 0..3]
      BY <1>t DEF PackShapes
    <3>2. packer'[p] = [packer[p] EXCEPT !.read = r + 1]
      BY <1>t, <2>1 DEF PackShapes
    <3> QED
      BY <2>2, <3>1, <3>2
  <2> HIDE DEF n, r, now
  <2>6. /\ packs' \in Seq(PackRow) /\ Len(packs') = Len(packs) /\ packs'[n] = now
        /\ \A m \in 1..Len(packs) : m # n => packs'[m] = packs[m]
    BY <1>t, <2>1, <2>2, <2>3 DEF PackShapes
  <2>7. PackShapes'
    BY <1>t, <2>1, <2>4, <2>5, <2>6 DEF PackShapes
  <2>8. \A m \in 1..Len(packs), k \in 0..4 : m # n /\ ReadThrough(packs[m], k, nuggetRows) => ReadThrough(packs'[m], k, nuggetRows')
    BY <2>1, <2>6 DEF ReadThrough, Cited
  <2>9. ReadThrough(packs'[n], r + 1, nuggetRows')
    BY <2>1, <2>3, <2>6 DEF ReadThrough, Cited
  <2>10. PacksAreApart'
    <3>1. \A q \in Packers : packer'[q].pack # 0 =>
          /\ packer'[q].pack \in 1..Len(packs')
          /\ ReadThrough(packs'[packer'[q].pack], packer'[q].read, nuggetRows')
          /\ \A o \in Packers \ {q} : packer'[o].pack # packer'[q].pack
          /\ packer'[q].read < 4 => \A f \in PackFiles : folder'[f] # packer'[q].pack
      <4> SUFFICES ASSUME NEW q \in Packers, packer'[q].pack # 0
                   PROVE  /\ packer'[q].pack \in 1..Len(packs')
                          /\ ReadThrough(packs'[packer'[q].pack], packer'[q].read, nuggetRows')
                          /\ \A o \in Packers \ {q} : packer'[o].pack # packer'[q].pack
                          /\ packer'[q].read < 4 => \A f \in PackFiles : folder'[f] # packer'[q].pack
        OBVIOUS
      <4>1. CASE q = p
        BY <2>1, <2>2, <2>4, <2>5, <2>6, <2>9, <4>1
      <4>2. CASE q # p
        <5>1. packer[q].read \in 0..4
          BY <1>t DEF PackShapes
        <5> QED
          BY <1>t, <2>1, <2>4, <2>5, <2>6, <2>8, <4>2, <5>1 DEF PacksAreApart
      <4> QED
        BY <4>1, <4>2
    <3>2. \A q \in Packers : packer'[q].pack = 0 => packer'[q].read = 0
      BY <1>t, <2>1, <2>4, <2>5 DEF PacksAreApart
    <3>3. \A f \in PackFiles : folder'[f] # 0 => ReadThrough(packs'[folder'[f]], 4, nuggetRows')
      <4>1. \A f \in PackFiles : folder[f] # 0 => folder[f] \in 1..Len(packs)
        BY <1>t DEF PackShapes
      <4> QED
        BY <1>t, <2>1, <2>4, <2>8, <4>1 DEF PacksAreApart
    <3> QED
      BY <3>1, <3>2, <3>3 DEF PacksAreApart, ReadThrough, Cited
  <2> QED
    BY <2>7, <2>10 DEF PacksInv
<1>7. ASSUME UNCHANGED <<archiveRows, packs>>, NEW p \in Packers,
             packer'[p] \in {Unpacked} \cup {[packer[p] EXCEPT !.written = k] : k \in 0..3},
             packer' = [packer EXCEPT ![p] = packer'[p]],
             folder' \in [PackFiles -> 0..Len(packs)],
             \A f \in PackFiles : folder'[f] = folder[f] \/ (folder'[f] = packer[p].pack /\ packer[p].read = 4)
      PROVE  PacksInv'
  <2>1. packer'[p] = Unpacked \/ /\ packer'[p].pack = packer[p].pack /\ packer'[p].read = packer[p].read
                                 /\ packer'[p].written \in 0..3
                                 /\ packer'[p] \in [pack : Nat, read : 0..4, written : 0..3]
    BY <1>t, <1>7 DEF PackShapes
  <2>2. \A q \in Packers \ {p} : packer'[q] = packer[q]
    BY <1>t, <1>7 DEF PackShapes
  <2>3. packer'[p] \in [pack : Nat, read : 0..4, written : 0..3]
    BY <2>1 DEF Unpacked
  <2>4. PackShapes'
    BY <1>t, <1>7, <2>3 DEF PackShapes, archiveRows
  <2>5. \A m \in 1..Len(packs), k \in 0..4 : ReadThrough(packs[m], k, nuggetRows) => ReadThrough(packs'[m], k, nuggetRows')
    BY <1>7 DEF ReadThrough, Cited, archiveRows
  <2>6. \A q \in Packers : packer'[q].pack # 0 => packer'[q].pack = packer[q].pack /\ packer'[q].read = packer[q].read
    BY <2>1, <2>2 DEF Unpacked
  <2>7. \A q \in Packers : packer'[q].pack # 0 =>
          /\ packer'[q].pack \in 1..Len(packs')
          /\ ReadThrough(packs'[packer'[q].pack], packer'[q].read, nuggetRows')
          /\ \A o \in Packers \ {q} : packer'[o].pack # packer'[q].pack
          /\ packer'[q].read < 4 => \A f \in PackFiles : folder'[f] # packer'[q].pack
    <3> SUFFICES ASSUME NEW q \in Packers, packer'[q].pack # 0
                 PROVE  /\ packer'[q].pack \in 1..Len(packs')
                        /\ ReadThrough(packs'[packer'[q].pack], packer'[q].read, nuggetRows')
                        /\ \A o \in Packers \ {q} : packer'[o].pack # packer'[q].pack
                        /\ packer'[q].read < 4 => \A f \in PackFiles : folder'[f] # packer'[q].pack
      OBVIOUS
    <3>1. packer[q].read \in 0..4 /\ packer'[q].pack = packer[q].pack /\ packer'[q].read = packer[q].read
      BY <1>t, <2>6 DEF PackShapes
    <3>2. /\ packer[q].pack \in 1..Len(packs) /\ ReadThrough(packs[packer[q].pack], packer[q].read, nuggetRows)
          /\ \A o \in Packers \ {q} : packer[o].pack # packer[q].pack
          /\ packer[q].read < 4 => \A f \in PackFiles : folder[f] # packer[q].pack
      BY <1>t, <3>1 DEF PacksAreApart
    <3>3. \A o \in Packers \ {q} : packer'[o].pack # packer'[q].pack
      BY <2>6, <3>1, <3>2
    <3>4. packer[q].read < 4 => \A f \in PackFiles : folder'[f] # packer[q].pack
      BY <1>7, <3>1, <3>2
    <3> QED
      BY <1>7, <2>5, <3>1, <3>2, <3>3, <3>4
  <2>8. \A q \in Packers : packer'[q].pack = 0 => packer'[q].read = 0
    BY <1>t, <2>1, <2>2 DEF PacksAreApart, Unpacked
  <2>9. \A f \in PackFiles : folder'[f] # 0 => ReadThrough(packs'[folder'[f]], 4, nuggetRows')
    <3> SUFFICES ASSUME NEW f \in PackFiles, folder'[f] # 0
                 PROVE  ReadThrough(packs'[folder'[f]], 4, nuggetRows')
      OBVIOUS
    <3>1. folder'[f] \in 1..Len(packs)
      BY <1>7
    <3>2. ReadThrough(packs[folder'[f]], 4, nuggetRows)
      BY <1>t, <1>7 DEF PacksAreApart
    <3> QED
      BY <2>5, <3>1, <3>2
  <2> QED
    BY <2>4, <2>7, <2>8, <2>9 DEF PacksInv, PacksAreApart, ReadThrough, Cited
<1>8. ASSUME NEW p \in Packers, WriteFile(p)
      PROVE  PacksInv'
  <2>1. /\ packer[p].read = 4 /\ UNCHANGED <<archiveRows, packs>>
        /\ folder' = [folder EXCEPT ![WriteOrder[packer[p].written + 1]] = packer[p].pack]
        /\ packer' = [packer EXCEPT ![p] = IF packer[p].written = 3 THEN Unpacked
                                           ELSE [packer[p] EXCEPT !.written = packer[p].written + 1]]
    <3>1. packer[p].read = 4 /\ UNCHANGED <<archiveRows, packs>>
          /\ folder' = [folder EXCEPT ![WriteOrder[packer[p].written + 1]] = packer[p].pack]
      BY <1>8 DEF WriteFile
    <3>2. packer' = [packer EXCEPT ![p] = IF packer[p].written = 3 THEN Unpacked
                                          ELSE [packer[p] EXCEPT !.written = packer[p].written + 1]]
      BY <1>8 DEF WriteFile
    <3> QED
      BY <3>1, <3>2
  <2>2. packer[p].pack \in 0..Len(packs)
    BY <1>t, <2>1 DEF PackShapes, PacksAreApart
  <2>3. packer[p].written \in 0..3 /\ (packer[p].written # 3 => packer[p].written + 1 \in 0..3)
    BY <1>t DEF PackShapes
  <2>4. packer'[p] \in {Unpacked} \cup {[packer[p] EXCEPT !.written = k] : k \in 0..3}
    BY <1>t, <2>1, <2>3 DEF PackShapes
  <2>5. packer' = [packer EXCEPT ![p] = packer'[p]]
    BY <1>t, <2>1 DEF PackShapes
  <2>6. /\ folder' \in [PackFiles -> 0..Len(packs)]
        /\ \A f \in PackFiles : folder'[f] = folder[f] \/ (folder'[f] = packer[p].pack /\ packer[p].read = 4)
    BY <1>t, <2>1, <2>2 DEF PackShapes
  <2> QED
    BY <1>7, <2>1, <2>4, <2>5, <2>6
<1>9. ASSUME NEW p \in Packers, PackerDies(p)
      PROVE  PacksInv'
  <2>1. /\ UNCHANGED <<archiveRows, packs, folder>> /\ packer' = [packer EXCEPT ![p] = Unpacked]
    BY <1>9 DEF PackerDies
  <2>2. packer'[p] = Unpacked
    BY <1>t, <2>1 DEF PackShapes
  <2>3. folder' \in [PackFiles -> 0..Len(packs)]
    BY <1>t, <2>1 DEF PackShapes
  <2> QED
    BY <1>7, <2>1, <2>2, <2>3
<1> QED
  BY <1>1, <1>3, <1>4, <1>5, <1>6, <1>8, <1>9 DEF PacksNext

(***************************************************************************)
(* However many commands write the pack of a run, in whatever order with   *)
(* it and with each other, and wherever they are killed: a folder that is  *)
(* one pack's agrees with itself (write_pack).                             *)
(***************************************************************************)
THEOREM OnePackAgrees == PacksSpec => []PackAgrees
<1>1. PacksInit => PacksInv
  <2> SUFFICES ASSUME PacksInit PROVE PacksInv
    OBVIOUS
  <2>1. <<>> \in [{} -> SUBSET NuggetKeys] /\ {} \in SUBSET IdeaRows
    OBVIOUS
  <2>2. ideaRows \in Citations /\ \A i \in DOMAIN ideaRows : ideaRows[i] \subseteq nuggetRows
    BY <2>1 DEF PacksInit, Citations
  <2>3. packs \in Seq(PackRow) /\ Len(packs) = 0
    BY DEF PacksInit
  <2>4. PackShapes
    BY <2>2, <2>3 DEF PacksInit, PackShapes, Unpacked
  <2> QED
    BY <2>4 DEF PacksInit, PacksInv, PacksAreApart, Unpacked
<1>2. PacksInv /\ [PacksNext]_packVars => PacksInv'
  BY PackStep
<1>3. PacksInv => PackAgrees
  <2> SUFFICES ASSUME PacksInv, NEW n \in DOMAIN packs, OnePack(n)
               PROVE  FilesAgree(packs[n])
    BY DEF PackAgrees
  <2>1. "verdict" \in PackFiles
    BY DEF PackFiles, WriteOrder
  <2>2. folder["verdict"] = n /\ n # 0
    BY <2>1 DEF OnePack, PacksInv, PackShapes
  <2>3. ReadThrough(packs[n], 4, nuggetRows)
    BY <2>1, <2>2 DEF PacksInv, PacksAreApart
  <2> QED
    BY <2>3 DEF ReadThrough, FilesAgree, Passes
<1> QED
  BY <1>1, <1>2, <1>3, PTL DEF PacksSpec

-----------------------------------------------------------------------------
(* The agents: what a run counts of its calls, and what it leaves behind   *)

AgentRow == [calls : Nat, fallbacks : Nat, limited : BOOLEAN, retryAfter : Nat]
FiledRow == [ok : Nat, failed : Nat]

LlmShapes ==
    /\ time \in Nat /\ block \in [Keys -> Nat]
    /\ agent \in [Runs -> [Roles -> AgentRow]] /\ filed \in [Runs -> [Roles -> FiledRow]]
    /\ used \in [Runs -> [Roles -> Nat]]
    /\ work \in [Runs -> {"idle", "work"}]
    /\ drafts \in [Runs -> [Comments -> 0..(N + 1)]]

LlmInv == LlmShapes /\ RepliesAreTrue

LEMMA CountIsTrue ==
    ASSUME LlmInv, NEW p \in Runs, NEW r \in Roles, NEW a \in AgentRow, NEW f \in FiledRow, NEW u \in {0, 1},
           Count(p, r, a, f, u), a.calls - a.fallbacks = used[p][r] + u, f.ok = used[p][r] + u
    PROVE  /\ agent' \in [Runs -> [Roles -> AgentRow]] /\ filed' \in [Runs -> [Roles -> FiledRow]]
           /\ used' \in [Runs -> [Roles -> Nat]] /\ AnsweredIsReal'
<1>1. agent' = [agent EXCEPT ![p][r] = a] /\ agent \in [Runs -> [Roles -> AgentRow]]
  BY DEF Count, LlmInv, LlmShapes
<1>2. filed' = [filed EXCEPT ![p][r] = f] /\ filed \in [Runs -> [Roles -> FiledRow]]
  BY DEF Count, LlmInv, LlmShapes
<1>3. used' = [used EXCEPT ![p][r] = used[p][r] + u] /\ used \in [Runs -> [Roles -> Nat]]
  BY DEF Count, LlmInv, LlmShapes
<1>4. agent' \in [Runs -> [Roles -> AgentRow]] /\ filed' \in [Runs -> [Roles -> FiledRow]]
      /\ used' \in [Runs -> [Roles -> Nat]]
  BY <1>1, <1>2, <1>3
<1>5. ASSUME NEW q \in Runs, NEW s \in Roles
      PROVE  /\ agent'[q][s].calls - agent'[q][s].fallbacks = used'[q][s]
             /\ filed'[q][s].ok = used'[q][s]
  <2>1. CASE q = p /\ s = r
    BY <1>1, <1>2, <1>3, <2>1
  <2>2. CASE ~(q = p /\ s = r)
    <3>1. agent'[q][s] = agent[q][s] /\ filed'[q][s] = filed[q][s] /\ used'[q][s] = used[q][s]
      BY <1>1, <1>2, <1>3, <2>2
    <3> QED
      BY <3>1 DEF LlmInv, RepliesAreTrue, AnsweredIsReal
  <2> QED
    BY <2>1, <2>2
<1> QED
  BY <1>4, <1>5 DEF AnsweredIsReal

LEMMA CallIsCounted ==
    ASSUME LlmInv, NEW p \in Runs, NEW r \in Roles,
           Used(p, r) \/ Failed(p, r) \/ \E wait \in Waits429 : Limit(p, r, wait)
    PROVE  /\ agent' \in [Runs -> [Roles -> AgentRow]] /\ filed' \in [Runs -> [Roles -> FiledRow]]
           /\ used' \in [Runs -> [Roles -> Nat]] /\ AnsweredIsReal'
<1> DEFINE now == agent[p][r]
           f == filed[p][r]
<1>1. /\ now \in AgentRow /\ f \in FiledRow /\ used[p][r] \in Nat
      /\ now.calls - now.fallbacks = used[p][r] /\ f.ok = used[p][r]
  BY DEF LlmInv, LlmShapes, RepliesAreTrue, AnsweredIsReal
<1>2. CASE Used(p, r)
  <2> DEFINE a == [now EXCEPT !.calls = now.calls + 1]
             g == [f EXCEPT !.ok = f.ok + 1]
  <2>1. Count(p, r, a, g, 1)
    BY <1>2 DEF Used, FiledOk
  <2> HIDE DEF now, f
  <2>2. a \in AgentRow /\ g \in FiledRow /\ a.calls - a.fallbacks = used[p][r] + 1 /\ g.ok = used[p][r] + 1
    BY <1>1 DEF AgentRow, FiledRow
  <2> HIDE DEF a, g
  <2> QED
    BY <2>1, <2>2, CountIsTrue
<1> DEFINE g == [f EXCEPT !.failed = f.failed + 1]
<1>3. g \in FiledRow /\ g.ok = used[p][r] + 0
  BY <1>1 DEF FiledRow
<1>4. CASE Failed(p, r)
  <2> DEFINE a == [now EXCEPT !.calls = now.calls + 1, !.fallbacks = now.fallbacks + 1]
  <2>1. Count(p, r, a, g, 0)
    BY <1>4 DEF Failed, FiledFailed
  <2> HIDE DEF now, f, g
  <2>2. a \in AgentRow /\ a.calls - a.fallbacks = used[p][r] + 0
    <3> DEFINE c == now.calls + 1
               b == now.fallbacks + 1
    <3>2. now.calls \in Nat /\ now.fallbacks \in Nat /\ c \in Nat /\ b \in Nat
      BY <1>1 DEF AgentRow
    <3>4. a = [now EXCEPT !.calls = c, !.fallbacks = b]
      OBVIOUS
    <3> HIDE DEF c, b, a
    <3>5. a \in AgentRow /\ a.calls = c /\ a.fallbacks = b
      BY <1>1, <3>2, <3>4 DEF AgentRow
    <3>1. a \in AgentRow /\ a.calls = now.calls + 1 /\ a.fallbacks = now.fallbacks + 1
      BY <3>5 DEF c, b
    <3>3. (now.calls + 1) - (now.fallbacks + 1) = now.calls - now.fallbacks
      BY <3>2
    <3> QED
      BY <1>1, <3>1, <3>3
  <2> HIDE DEF a
  <2> QED
    BY <1>3, <2>1, <2>2, CountIsTrue
<1>5. ASSUME NEW wait \in Waits429, Limit(p, r, wait)
      PROVE  /\ agent' \in [Runs -> [Roles -> AgentRow]] /\ filed' \in [Runs -> [Roles -> FiledRow]]
             /\ used' \in [Runs -> [Roles -> Nat]] /\ AnsweredIsReal'
  <2> DEFINE longest == IF wait > now.retryAfter THEN wait ELSE now.retryAfter
             a == [now EXCEPT !.calls = now.calls + 1, !.fallbacks = now.fallbacks + 1, !.limited = TRUE,
                              !.retryAfter = longest]
  <2>1. Count(p, r, a, g, 0)
    BY <1>5 DEF Limit, FiledFailed
  <2>2. longest \in Nat
    BY <1>1, LlmAssumption DEF AgentRow
  <2> HIDE DEF now, f, g, longest
  <2>3. a \in AgentRow /\ a.calls - a.fallbacks = used[p][r] + 0
    <3> DEFINE c == now.calls + 1
               b == now.fallbacks + 1
    <3>2. now.calls \in Nat /\ now.fallbacks \in Nat /\ c \in Nat /\ b \in Nat
      BY <1>1 DEF AgentRow
    <3>4. a = [now EXCEPT !.calls = c, !.fallbacks = b, !.limited = TRUE, !.retryAfter = longest]
      OBVIOUS
    <3> HIDE DEF c, b, a
    <3>5. a \in AgentRow /\ a.calls = c /\ a.fallbacks = b
      BY <1>1, <2>2, <3>2, <3>4 DEF AgentRow
    <3>1. a \in AgentRow /\ a.calls = now.calls + 1 /\ a.fallbacks = now.fallbacks + 1
      BY <3>5 DEF c, b
    <3>3. (now.calls + 1) - (now.fallbacks + 1) = now.calls - now.fallbacks
      BY <3>2
    <3> QED
      BY <1>1, <3>1, <3>3
  <2> HIDE DEF a
  <2> QED
    BY <1>3, <2>1, <2>3, CountIsTrue
<1> QED
  BY <1>2, <1>4, <1>5

LEMMA AgentsStep ==
    ASSUME LlmInv, [LlmNext]_llmVars
    PROVE  LlmInv'
<1>t. /\ LlmShapes /\ DraftOfItsComment /\ AnsweredIsReal
      /\ N \in Nat /\ N > 0
  BY LlmAssumption DEF LlmInv, RepliesAreTrue
<1>0. Fresh \in AgentRow /\ [ok |-> 0, failed |-> 0] \in FiledRow
      /\ NoDrafts \in [Comments -> 0..(N + 1)] /\ \A c \in Comments : NoDrafts[c] = Undrafted
  BY <1>t DEF Fresh, AgentRow, FiledRow, NoDrafts, Undrafted, Comments
<1>1. CASE UNCHANGED <<counters, drafts, time, block, work>>
  BY <1>t, <1>1 DEF counters, LlmInv, LlmShapes, RepliesAreTrue, DraftOfItsComment, AnsweredIsReal
<1>2. ASSUME NEW p \in Runs, NEW force \in BOOLEAN, StartRun(p, force)
      PROVE  LlmInv'
  <2>1. /\ agent' = [agent EXCEPT ![p] = [r \in Roles |-> Fresh]]
        /\ filed' = [filed EXCEPT ![p] = [r \in Roles |-> [ok |-> 0, failed |-> 0]]]
        /\ used' = [used EXCEPT ![p] = [r \in Roles |-> 0]]
        /\ drafts' = [drafts EXCEPT ![p] = NoDrafts]
        /\ work' = [work EXCEPT ![p] = "work"] /\ UNCHANGED <<time, block>>
    BY <1>2 DEF StartRun
  <2>2. LlmShapes'
    BY <1>t, <1>0, <2>1 DEF LlmShapes
  <2>3. DraftOfItsComment'
    BY <1>t, <1>0, <2>1 DEF LlmShapes, DraftOfItsComment
  <2>4. ASSUME NEW q \in Runs, NEW s \in Roles
        PROVE  /\ agent'[q][s].calls - agent'[q][s].fallbacks = used'[q][s]
               /\ filed'[q][s].ok = used'[q][s]
    <3>1. CASE q = p
      BY <1>t, <2>1, <3>1 DEF LlmShapes, Fresh
    <3>2. CASE q # p
      BY <1>t, <2>1, <3>2 DEF LlmShapes, AnsweredIsReal
    <3> QED
      BY <3>1, <3>2
  <2> QED
    BY <2>2, <2>3, <2>4 DEF LlmInv, RepliesAreTrue, AnsweredIsReal
<1>3. ASSUME NEW p \in Runs, NEW r \in Roles,
             Used(p, r) \/ Failed(p, r) \/ \E wait \in Waits429 : Limit(p, r, wait),
             UNCHANGED <<time, block, work>>, drafts' \in [Runs -> [Comments -> 0..(N + 1)]],
             DraftOfItsComment'
      PROVE  LlmInv'
  <2>1. /\ agent' \in [Runs -> [Roles -> AgentRow]] /\ filed' \in [Runs -> [Roles -> FiledRow]]
        /\ used' \in [Runs -> [Roles -> Nat]] /\ AnsweredIsReal'
    BY <1>3, CallIsCounted
  <2> QED
    BY <1>t, <1>3, <2>1 DEF LlmInv, LlmShapes, RepliesAreTrue
<1>4. ASSUME NEW p \in Runs, NEW r \in Roles, Ask(p, r)
      PROVE  LlmInv'
  <2>1. UNCHANGED <<time, block, work, drafts>>
        /\ (Used(p, r) \/ Failed(p, r) \/ \E wait \in Waits429 : Limit(p, r, wait))
    BY <1>4 DEF Ask
  <2>2. drafts' \in [Runs -> [Comments -> 0..(N + 1)]] /\ DraftOfItsComment'
    BY <1>t, <2>1 DEF LlmShapes, DraftOfItsComment
  <2> QED
    BY <1>3, <2>1, <2>2
<1>5. ASSUME NEW p \in Runs, NEW d \in [Comments -> 0..(N + 1)], drafts' = [drafts EXCEPT ![p] = d],
             \A c \in Comments : d[c] \in {Undrafted, Standin, c}
      PROVE  drafts' \in [Runs -> [Comments -> 0..(N + 1)]] /\ DraftOfItsComment'
  BY <1>t, <1>5 DEF LlmShapes, DraftOfItsComment
<1>6. ASSUME UNCHANGED drafts
      PROVE  drafts' \in [Runs -> [Comments -> 0..(N + 1)]] /\ DraftOfItsComment'
  BY <1>t, <1>6 DEF LlmShapes, DraftOfItsComment
<1>7. ASSUME NEW p \in Runs, NEW items \in [Comments -> 0..N], ExtractBatch(p, items)
      PROVE  LlmInv'
  <2>1. /\ "extractor" \in Roles /\ UNCHANGED <<time, block, work>>
        /\ Used(p, "extractor") \/ Failed(p, "extractor")
    BY <1>7, LlmAssumption DEF ExtractBatch, MayAsk
  <2>2. CASE InOrder(items)
    <3>1. drafts' = [drafts EXCEPT ![p] = Drafted(items)]
      BY <1>7, <2>2 DEF ExtractBatch
    <3>2. Drafted(items) \in [Comments -> 0..(N + 1)]
          /\ \A c \in Comments : Drafted(items)[c] \in {Undrafted, Standin, c}
      BY <1>t, <2>2 DEF Drafted, InOrder, Comments
    <3> QED
      BY <1>3, <1>5, <2>1, <3>1, <3>2
  <2>3. CASE ~InOrder(items)
    BY <1>3, <1>6, <1>7, <2>1, <2>3 DEF ExtractBatch, OneByOne
  <2> QED
    BY <2>2, <2>3
<1>8. ASSUME NEW p \in Runs, BatchLost(p)
      PROVE  LlmInv'
  <2>1. "extractor" \in Roles /\ UNCHANGED <<time, block, work>>
    BY <1>8, LlmAssumption DEF BatchLost, MayAsk
  <2>2. CASE Failed(p, "extractor") /\ OneByOne(p)
    BY <1>3, <1>6, <2>1, <2>2 DEF OneByOne
  <2>3. CASE /\ \E wait \in Waits429 : Limit(p, "extractor", wait)
             /\ drafts' = [drafts EXCEPT ![p] = [c \in Comments |-> Standin]]
    <3> DEFINE d == [c \in Comments |-> Standin]
    <3>1. d \in [Comments -> 0..(N + 1)] /\ \A c \in Comments : d[c] \in {Undrafted, Standin, c}
      BY <1>t DEF Standin
    <3>2. drafts' = [drafts EXCEPT ![p] = d]
      BY <2>3
    <3> HIDE DEF d
    <3> QED
      BY <1>3, <1>5, <2>1, <2>3, <3>1, <3>2
  <2> QED
    BY <1>8, <2>2, <2>3 DEF BatchLost
<1>9. ASSUME NEW p \in Runs, NEW c \in Comments, ExtractOne(p, c)
      PROVE  LlmInv'
  <2>1. /\ "extractor" \in Roles /\ UNCHANGED <<time, block, work>>
        /\ Used(p, "extractor") \/ Failed(p, "extractor") \/ \E wait \in Waits429 : Limit(p, "extractor", wait)
        /\ \E d \in {c, Standin} : drafts' = [drafts EXCEPT ![p][c] = d]
    BY <1>9, LlmAssumption DEF ExtractOne, MayAsk, ToNugget
  <2>2. PICK d \in {c, Standin} : drafts' = [drafts EXCEPT ![p][c] = d]
    BY <2>1
  <2>3. d \in 0..(N + 1)
    BY <1>t DEF Standin, Comments
  <2>4. drafts' \in [Runs -> [Comments -> 0..(N + 1)]]
    BY <1>t, <2>2, <2>3 DEF LlmShapes
  <2>5. DraftOfItsComment'
    BY <1>t, <2>2 DEF LlmShapes, DraftOfItsComment
  <2> QED
    BY <1>3, <2>1, <2>4, <2>5
<1>10. ASSUME NEW p \in Runs, Settle(p)
       PROVE  LlmInv'
  <2>1. /\ UNCHANGED <<time, counters, drafts>> /\ work' = [work EXCEPT ![p] = "idle"]
        /\ block' = [k \in Keys |-> IF LastLimited(p, k) # {}
                                    THEN time + WaitOf(p, RoleOrder[CHOOSE i \in LastLimited(p, k) : TRUE])
                                    ELSE IF k \in Cleared(p) THEN 0 ELSE block[k]]
    BY <1>10 DEF Settle
  <2>2. \A r \in Roles : WaitOf(p, r) \in Nat
    BY <1>t, LlmAssumption DEF WaitOf, LlmShapes, AgentRow
  <2>3. \A k \in Keys : LastLimited(p, k) # {} => RoleOrder[CHOOSE i \in LastLimited(p, k) : TRUE] \in Roles
    BY DEF LastLimited, Roles
  <2>4. block' \in [Keys -> Nat]
    BY <1>t, <2>1, <2>2, <2>3 DEF LlmShapes
  <2>5. LlmShapes'
    BY <1>t, <2>1, <2>4 DEF LlmShapes, counters
  <2> QED
    BY <1>t, <2>1, <2>5 DEF LlmInv, RepliesAreTrue, DraftOfItsComment, AnsweredIsReal, counters
<1>11. ASSUME NEW p \in Runs, RunKilled(p)
       PROVE  LlmInv'
  <2>1. LlmShapes'
    BY <1>t, <1>11 DEF RunKilled, LlmShapes, counters
  <2> QED
    BY <1>t, <1>11, <2>1 DEF RunKilled, LlmInv, RepliesAreTrue, DraftOfItsComment, AnsweredIsReal, counters
<1>12. CASE LlmTick
  <2>1. LlmShapes'
    BY <1>t, <1>12 DEF LlmTick, LlmShapes, counters
  <2> QED
    BY <1>t, <1>12, <2>1 DEF LlmTick, LlmInv, RepliesAreTrue, DraftOfItsComment, AnsweredIsReal, counters
<1> QED
  BY <1>1, <1>2, <1>4, <1>7, <1>8, <1>9, <1>10, <1>11, <1>12 DEF LlmNext, llmVars, counters

LEMMA LlmInvHolds == LlmSpec => []LlmInv
<1>1. LlmInit => LlmInv
  <2> SUFFICES ASSUME LlmInit PROVE LlmInv
    OBVIOUS
  <2>1. N \in Nat
    BY LlmAssumption
  <2>2. LlmShapes
    BY <2>1 DEF LlmInit, LlmShapes, Fresh, AgentRow, FiledRow, NoDrafts, Undrafted
  <2> QED
    BY <2>2 DEF LlmInit, LlmInv, RepliesAreTrue, DraftOfItsComment, AnsweredIsReal, NoDrafts, Fresh
<1>2. LlmInv /\ [LlmNext]_llmVars => LlmInv'
  BY AgentsStep
<1> QED
  BY <1>1, <1>2, PTL DEF LlmSpec

(***************************************************************************)
(* However the replies come back, and whatever else asks the same models:  *)
(* a draft is of its comment or the stand-in's, and calls less fallbacks   *)
(* are the replies that were used (extract_batch, _obj, _reject).          *)
(***************************************************************************)
THEOREM RepliesStayTrue == LlmSpec => []RepliesAreTrue
<1>1. LlmInv => RepliesAreTrue
  BY DEF LlmInv
<1> QED
  BY <1>1, LlmInvHolds, PTL

-----------------------------------------------------------------------------
(* What a run leaves on a model                                            *)

LEMMA LastOfSome ==
    ASSUME NEW n \in Nat, NEW T \in SUBSET (1..n), T # {}
    PROVE  \E i \in T : \A j \in T : j <= i
<1> DEFINE R == {n - i : i \in T}
<1>0. \A i \in T : n - i \in Nat
  OBVIOUS
<1>1. R \subseteq Nat /\ R # {}
  BY <1>0
<1>2. \E m \in R : \A k \in R : ~(<<k, m>> \in OpToRel(<, Nat))
  BY <1>1, WFMin, NatLessThanWellFounded
<1>3. PICK i \in T : \A k \in R : ~(<<k, n - i>> \in OpToRel(<, Nat))
  BY <1>2
<1>4. \A j \in T : n - j \in R /\ n - j \in Nat /\ n - i \in Nat
  BY <1>1
<1>5. \A j \in T : ~(n - j < n - i)
  BY <1>3, <1>4 DEF OpToRel
<1>6. \A j \in T : j \in 1..n
  OBVIOUS
<1> QED
  BY <1>5, <1>6

LEMMA SettlingStands ==
    ASSUME LlmInv, NEW p \in Runs, Settle(p), NEW k \in Keys
    PROVE  /\ (\E r \in RanOut(p) : Key(r) = k) => block'[k] > time
           /\ (\A r \in RanOut(p) : Key(r) # k) => block'[k] <= block[k]
<1>t. LlmShapes
  BY DEF LlmInv
<1> DEFINE latest == CHOOSE i \in LastLimited(p, k) : TRUE
           limited == {i \in DOMAIN RoleOrder : RoleOrder[i] \in RanOut(p) /\ Key(RoleOrder[i]) = k}
<1>1. block'[k] = IF LastLimited(p, k) # {} THEN time + WaitOf(p, RoleOrder[latest])
                  ELSE IF k \in Cleared(p) THEN 0 ELSE block[k]
  BY DEF Settle
<1>2. LastLimited(p, k) = {i \in limited : \A j \in limited : j <= i}
  BY DEF LastLimited
<1>3. limited = {} <=> \A r \in RanOut(p) : Key(r) # k
  BY LlmAssumption DEF RanOut, Roles
<1>4. limited # {} => LastLimited(p, k) # {}
  <2>1. Len(RoleOrder) \in Nat /\ limited \in SUBSET (1..Len(RoleOrder))
    BY LlmAssumption
  <2> HIDE DEF limited
  <2> QED
    BY <1>2, <2>1, LastOfSome
<1>5. LastLimited(p, k) # {} => WaitOf(p, RoleOrder[latest]) \in Nat /\ WaitOf(p, RoleOrder[latest]) > 0
  <2>1. \A r \in Roles : WaitOf(p, r) \in Nat /\ WaitOf(p, r) > 0
    BY <1>t, LlmAssumption DEF WaitOf, LlmShapes, AgentRow
  <2>2. LastLimited(p, k) # {} => RoleOrder[latest] \in Roles
    BY <1>2 DEF Roles
  <2> QED
    BY <2>1, <2>2
<1>6. time \in Nat /\ block[k] \in Nat
  BY <1>t DEF LlmShapes
<1> HIDE DEF latest, limited
<1>7. limited # {} => block'[k] > time
  BY <1>1, <1>4, <1>5, <1>6
<1>8. limited = {} => block'[k] <= block[k]
  BY <1>1, <1>2, <1>6
<1> QED
  BY <1>3, <1>7, <1>8

(***************************************************************************)
(* A model that ran out for one job of a run is blocked when the run is    *)
(* over, whatever the run's other jobs had of it, and no other model is    *)
(* blocked for longer (settle).                                            *)
(***************************************************************************)
THEOREM SettlingHolds == LlmSpec => SettledStands
<1> DEFINE Booked == \A p \in Runs, k \in Keys :
                     work[p] = "work" /\ work'[p] = "idle" /\ batch[p] = {} /\ block' # block =>
                        /\ (\E r \in RanOut(p) : Key(r) = k) => block'[k] > time
                        /\ (\A r \in RanOut(p) : Key(r) # k) => block'[k] <= block[k]
<1>1. LlmInv /\ [LlmNext]_llmVars => [Booked]_llmVars
  <2> SUFFICES ASSUME LlmInv, LlmNext, NEW p \in Runs, NEW k \in Keys,
                      work[p] = "work", work'[p] = "idle", block' # block
               PROVE  /\ (\E r \in RanOut(p) : Key(r) = k) => block'[k] > time
                      /\ (\A r \in RanOut(p) : Key(r) # k) => block'[k] <= block[k]
    OBVIOUS
  <2>1. \E q \in Runs : Settle(q)
    BY DEF LlmNext, StartRun, Ask, ExtractBatch, BatchLost, ExtractOne, RunKilled, LlmTick
  <2>2. PICK q \in Runs : Settle(q)
    BY <2>1
  <2>3. q = p
    BY <2>2 DEF Settle, LlmInv, LlmShapes
  <2> QED
    BY <2>2, <2>3, SettlingStands
<1>2. LlmSpec => [][Booked]_llmVars
  BY <1>1, LlmInvHolds, PTL DEF LlmSpec
<1> QED
  BY <1>2 DEF SettledStands

-----------------------------------------------------------------------------
(* One call of a hosted model                                              *)

Outcomes == {"nothing", "limited", "error", "reply", "served"}

ChatInv ==
    /\ elapsed \in Int /\ attempt \in 0..MaxRetries
    /\ chat \in {"ask", "limited", "error", "reply"} /\ answer \in Outcomes /\ last \in Outcomes
    /\ chat = "ask" /\ attempt > 0 => last = answer /\ last \in {"limited", "error"}
    /\ ChatKeepsItsTime

\* A wait that is taken leaves time for another request.
LEMMA RetryKeepsTime ==
    ASSUME ChatInv, NEW what \in {"limited", "error"}, NEW asked \in Asked \cup {NoHeader},
           NEW t \in 0..Timeout, Asks(t), Retry(what, Delay(asked), t), answer' = what
    PROVE  ChatInv'
<1> USE GroqChatAssumption
<1>1. elapsed \in Int /\ attempt \in 0..MaxRetries /\ t \in Nat /\ Left \in Int /\ t <= Left
      /\ Left = Timeout - elapsed
  BY DEF ChatInv, Asks, Left
<1>2. CASE elapsed' = elapsed + t /\ EndWith(what)
  BY <1>1, <1>2 DEF EndWith, ChatInv, ChatKeepsItsTime, Outcomes
<1>3. CASE /\ attempt # MaxRetries /\ Affordable(Delay(asked), Left - t)
           /\ \E late \in 0..Oversleep : elapsed' = elapsed + t + Delay(asked) + late
           /\ attempt' = attempt + 1 /\ last' = what /\ UNCHANGED chat
  <2> DEFINE wanted == IF asked = NoHeader THEN 2 ^ attempt ELSE asked
             delay == Delay(asked)
  <2>1. 2 ^ attempt \in Nat
    BY <1>1
  <2>2. wanted \in Nat
    BY <2>1
  <2>3. delay = IF wanted > LongestWait THEN LongestWait ELSE wanted
    BY DEF Delay
  <2> HIDE DEF wanted
  <2>4. delay \in Nat
    BY <2>2, <2>3
  <2> HIDE DEF delay
  <2>5. PICK late \in 0..Oversleep : elapsed' = elapsed + t + delay + late
    BY <1>3 DEF delay
  <2>6. delay < Left - t
    BY <1>3 DEF Affordable, delay
  <2>7. elapsed' \in Int /\ elapsed' <= Timeout + Oversleep
    BY <1>1, <2>4, <2>5, <2>6
  <2>8. attempt' \in 0..MaxRetries /\ chat' = "ask" /\ last' = what
    BY <1>1, <1>3 DEF Asks
  <2> QED
    BY <2>7, <2>8 DEF ChatInv, ChatKeepsItsTime, Outcomes
<1> QED
  BY <1>2, <1>3 DEF Retry

LEMMA ChatStep ==
    ASSUME ChatInv, [ChatNext]_chatVars
    PROVE  ChatInv'
<1> USE GroqChatAssumption
<1>1. CASE UNCHANGED chatVars
  BY <1>1 DEF chatVars, ChatInv, ChatKeepsItsTime
<1>2. CASE OutOfTime
  BY <1>2 DEF OutOfTime, ChatInv, ChatKeepsItsTime
<1>3. ASSUME NEW t \in 0..Timeout, Asks(t), elapsed' = elapsed + t, UNCHANGED <<attempt, last>>,
             chat' \in {"error", "reply"}, answer' \in {"served", "error"}
      PROVE  ChatInv'
  BY <1>3 DEF Asks, Left, ChatInv, ChatKeepsItsTime, Outcomes
<1>4. ASSUME NEW t \in 0..Timeout, NEW choices \in BOOLEAN, Served(t, choices)
      PROVE  ChatInv'
  BY <1>3, <1>4 DEF Served, EndWith
<1>5. ASSUME NEW t \in 0..Timeout, Denied(t)
      PROVE  ChatInv'
  BY <1>3, <1>5 DEF Denied, EndWith
<1>6. ASSUME NEW t \in 0..Timeout, NEW status \in {429, 503}, NEW asked \in Asked \cup {NoHeader},
             Busy(t, status, asked)
      PROVE  ChatInv'
  <2>1. Kind(status) \in {"limited", "error"}
    BY DEF Kind
  <2> QED
    BY <1>6, <2>1, RetryKeepsTime DEF Busy
<1>7. ASSUME NEW t \in 0..Timeout, NEW transient \in BOOLEAN, Broken(t, transient)
      PROVE  ChatInv'
  <2>1. CASE transient
    BY <1>7, <2>1, RetryKeepsTime DEF Broken
  <2>2. CASE ~transient
    BY <1>3, <1>7, <2>2 DEF Broken, EndWith
  <2> QED
    BY <2>1, <2>2
<1> QED
  BY <1>1, <1>2, <1>4, <1>5, <1>6, <1>7 DEF ChatNext

(***************************************************************************)
(* For every timeout, cap of a wait and number of retries: a call is over  *)
(* by its deadline, give or take the wait it was in, and is called rate    *)
(* limited exactly when that was the server's last word (chat).            *)
(***************************************************************************)
THEOREM CallsKeepTheirTime == ChatSpec => []ChatKeepsItsTime
<1>1. ChatInit => ChatInv
  BY GroqChatAssumption DEF ChatInit, ChatInv, ChatKeepsItsTime, Outcomes
<1>2. ChatInv /\ [ChatNext]_chatVars => ChatInv'
  BY ChatStep
<1>3. ChatInv => ChatKeepsItsTime
  BY DEF ChatInv
<1> QED
  BY <1>1, <1>2, <1>3, PTL DEF ChatSpec

-----------------------------------------------------------------------------
(* A turn of the chat                                                      *)

TurnSteps == {"none", "history", "model", "tools", "record", "closing", "answer"}
Message == [role : {"user", "chat", "system-note"}, turn : Nat]
TurnRow == [step : TurnSteps, id : Nat, round : Nat, calls : Int, made : Nat,
            shown : SUBSET Message, final : BOOLEAN]

\* Proposals of a turn that no row tells of.
Untold(t) == {m \in minted \ traced : m[1] = t}
Question == [role |-> "user", turn |-> turn.id]

TurnShapes ==
    /\ transcript \in Seq(Message) /\ turn \in TurnRow /\ turns \in Nat
    /\ minted \subseteq Nat \X Nat /\ \A m \in minted : m[1] \in 1..turns

TurnIsAtWork ==
    /\ turn.step # "none" => turn.id = turns /\ turns >= 1
    /\ turn.step = "history" => Len(transcript) >= 1 /\ transcript[Len(transcript)] = Question
    /\ turn.step \notin {"none", "record"} => Untold(turn.id) = {}

TurnInv == TurnShapes /\ TurnIsAtWork /\ TurnIsAccounted

LEMMA TurnGoesOn ==
    ASSUME TurnInv, turn.step # "none", turn' \in TurnRow, turn'.id = turn.id,
           turn'.shown = turn.shown, turn.step # "history",
           turn'.step \notin {"none", "history", "record"}, turn.step # "record",
           UNCHANGED <<minted, traced, turns>>, transcript' \in Seq(Message)
    PROVE  TurnInv'
<1>1. TurnShapes'
  BY DEF TurnInv, TurnShapes
<1>2. TurnIsAtWork'
  BY DEF TurnInv, TurnIsAtWork, Untold
<1>3. TurnIsAccounted'
  BY DEF TurnInv, TurnIsAccounted
<1> QED
  BY <1>1, <1>2, <1>3 DEF TurnInv

LEMMA TurnStep ==
    ASSUME TurnInv, [TurnNext]_turnVars
    PROVE  TurnInv'
<1>t. TurnShapes /\ TurnIsAtWork /\ TurnIsAccounted
  BY DEF TurnInv
<1> USE ChatTurnAssumption
<1>0. NoTurn \in TurnRow /\ NoTurn.step = "none"
  BY DEF NoTurn, TurnRow, TurnSteps
<1>1. ASSUME UNCHANGED <<minted, traced, turns>>, transcript' \in Seq(Message), turn' = NoTurn
      PROVE  TurnInv'
  <2>1. TurnShapes'
    BY <1>0, <1>t, <1>1 DEF TurnShapes
  <2>2. TurnIsAtWork'
    BY <1>0, <1>1 DEF TurnIsAtWork
  <2>3. TurnIsAccounted'
    BY <1>0, <1>t, <1>1 DEF TurnIsAccounted
  <2> QED
    BY <2>1, <2>2, <2>3 DEF TurnInv
<1>2. CASE UNCHANGED <<transcript, turn, minted, traced, turns>>
  BY <1>t, <1>2 DEF TurnInv, TurnShapes, TurnIsAtWork, TurnIsAccounted, Untold, Question
<1>3. CASE ChatStart
  <2> DEFINE n == turns + 1
             asked == [role |-> "user", turn |-> n]
  <2>1. /\ turn = NoTurn /\ turns' = n /\ transcript' = Append(transcript, asked)
        /\ turn' = [NoTurn EXCEPT !.step = "history", !.id = n] /\ UNCHANGED <<minted, traced>>
    BY <1>3 DEF ChatStart
  <2>2. n \in Nat /\ n >= 1 /\ asked \in Message /\ n > turns
    BY <1>t DEF TurnShapes, Message
  <2> HIDE DEF n
  <2>3. turn' \in TurnRow /\ turn'.step = "history" /\ turn'.id = n
    BY <1>0, <2>1, <2>2 DEF TurnRow, TurnSteps
  <2>4. transcript' \in Seq(Message) /\ Len(transcript') >= 1 /\ transcript'[Len(transcript')] = asked
    BY <1>t, <2>1, <2>2 DEF TurnShapes
  <2>5. \A m \in minted : m[1] \in 1..turns /\ m[1] # n /\ m[1] \in 1..n
    BY <1>t, <2>2 DEF TurnShapes
  <2>6. TurnShapes'
    BY <1>t, <2>1, <2>2, <2>3, <2>4, <2>5 DEF TurnShapes
  <2>7. TurnIsAtWork'
    BY <2>1, <2>2, <2>3, <2>4, <2>5 DEF TurnIsAtWork, Question, Untold
  <2>8. TurnIsAccounted'
    BY <1>t, <2>1, <2>3, <2>5 DEF TurnIsAccounted
  <2> QED
    BY <2>6, <2>7, <2>8 DEF TurnInv
<1>4. CASE ModelHistory
  <2> DEFINE n == Len(transcript)
             seen == Messages(Window)
  <2>1. /\ turn.step = "history" /\ turn' = [turn EXCEPT !.step = "model", !.shown = seen]
        /\ UNCHANGED <<transcript, minted, traced, turns>>
    BY <1>4 DEF ModelHistory
  <2>2. n \in Nat /\ n >= 1 /\ transcript[n] = Question /\ n \in DOMAIN transcript
    BY <1>t, <2>1 DEF TurnShapes, TurnIsAtWork
  <2>3. Question \in seen
    BY <2>2 DEF Messages
  <2>4. seen \in SUBSET Message
    <3>1. \A k \in DOMAIN transcript : transcript[k] \in Message
      BY <1>t, ElementOfSeq DEF TurnShapes
    <3> QED
      BY <3>1 DEF Messages
  <2> HIDE DEF n, seen
  <2>5. turn' \in TurnRow /\ turn'.step = "model" /\ turn'.id = turn.id /\ turn'.shown = seen
    BY <1>t, <2>1, <2>4 DEF TurnShapes, TurnRow, TurnSteps
  <2>6. TurnShapes'
    BY <1>t, <2>1, <2>5 DEF TurnShapes
  <2>7. TurnIsAtWork'
    BY <1>t, <2>1, <2>5 DEF TurnIsAtWork, Untold
  <2>8. TurnIsAccounted'
    BY <1>t, <2>1, <2>3, <2>5 DEF TurnIsAccounted, Question
  <2> QED
    BY <2>6, <2>7, <2>8 DEF TurnInv
<1>5. ASSUME NEW n \in 1..DemandBound, ToolRound(n)
      PROVE  TurnInv'
  <2> DEFINE calls == IF FirstCalls(n) > RoundCap THEN 0 ELSE FirstCalls(n)
             step == IF FirstCalls(n) > RoundCap THEN "model" ELSE "tools"
             r == turn.round + 1
  <2>1. /\ turn.step = "model" /\ UNCHANGED <<transcript, minted, traced, turns>>
        /\ turn' = [turn EXCEPT !.calls = calls, !.step = step, !.round = r]
    BY <1>t, <1>5 DEF ToolRound, Asking, NextRound, Quiet, TurnShapes, TurnRow
  <2>2. FirstCalls(n) \in Nat
    BY DEF FirstCalls
  <2>3. calls \in Int /\ step \in {"model", "tools"} /\ r \in Nat
    BY <1>t, <2>2 DEF TurnShapes, TurnRow
  <2> HIDE DEF calls, step, r
  <2>4. turn' \in TurnRow /\ turn'.id = turn.id /\ turn'.shown = turn.shown /\ turn'.step = step
    BY <1>t, <2>1, <2>3 DEF TurnShapes, TurnRow, TurnSteps
  <2> QED
    BY <1>t, <2>1, <2>3, <2>4, TurnGoesOn DEF TurnShapes
<1>6. CASE FinalAnswer
  <2> DEFINE r == turn.round + 1
  <2>1. /\ turn.step = "model" /\ UNCHANGED <<transcript, minted, traced, turns>>
        /\ turn' = [turn EXCEPT !.step = "closing", !.final = TRUE, !.round = r]
    BY <1>t, <1>6 DEF FinalAnswer, Asking, NextRound, Quiet, TurnShapes, TurnRow
  <2>2. r \in Nat
    BY <1>t DEF TurnShapes, TurnRow
  <2> HIDE DEF r
  <2>3. turn' \in TurnRow /\ turn'.id = turn.id /\ turn'.shown = turn.shown /\ turn'.step = "closing"
    BY <1>t, <2>1, <2>2 DEF TurnShapes, TurnRow, TurnSteps
  <2> QED
    BY <1>t, <2>1, <2>3, TurnGoesOn DEF TurnShapes
<1>7. CASE OutOfRounds
  <2>1. /\ turn.step = "model" /\ UNCHANGED <<transcript, minted, traced, turns>>
        /\ turn' = [turn EXCEPT !.step = "closing"]
    BY <1>7 DEF OutOfRounds, Quiet
  <2>2. turn' \in TurnRow /\ turn'.id = turn.id /\ turn'.shown = turn.shown /\ turn'.step = "closing"
    BY <1>t, <2>1 DEF TurnShapes, TurnRow, TurnSteps
  <2> QED
    BY <1>t, <2>1, <2>2, TurnGoesOn DEF TurnShapes
<1>8. CASE NoteUncited
  <2>1. /\ turn.step = "closing" /\ UNCHANGED <<minted, traced, turns>>
        /\ transcript' = Append(transcript, [role |-> "system-note", turn |-> turn.id])
        /\ turn' = [turn EXCEPT !.step = "answer"]
    BY <1>8 DEF NoteUncited, Says
  <2>2. /\ turn' \in TurnRow /\ turn'.id = turn.id /\ turn'.shown = turn.shown /\ turn'.step = "answer"
        /\ turn.id \in Nat
    BY <1>t, <2>1 DEF TurnShapes, TurnRow, TurnSteps
  <2>3. [role |-> "system-note", turn |-> turn.id] \in Message
    BY <2>2 DEF Message
  <2>4. transcript' \in Seq(Message)
    BY <1>t, <2>1, <2>3 DEF TurnShapes
  <2> QED
    BY <2>1, <2>2, <2>4, TurnGoesOn
<1>9. CASE CloseTurn
  <2>1. turn.id \in Nat
    BY <1>t DEF TurnShapes, TurnRow
  <2>2. [role |-> "chat", turn |-> turn.id] \in Message
    BY <2>1 DEF Message
  <2>3. transcript' \in Seq(Message)
    BY <1>t, <1>9, <2>2 DEF CloseTurn, Says, TurnShapes
  <2> QED
    BY <1>1, <1>9, <2>3 DEF CloseTurn
<1>10. CASE TurnLost
  BY <1>t, <1>1, <1>10 DEF TurnLost, TurnShapes
<1>11. ASSUME NEW made \in Nat, RunTool(made), minted' \in {minted, minted \cup {<<turn.id, turn.made + 1>>}}
       PROVE  TurnInv'
  <2> DEFINE p == <<turn.id, turn.made + 1>>
  <2>1. /\ turn.step = "tools" /\ turn' = [turn EXCEPT !.step = "record", !.made = made]
        /\ UNCHANGED <<transcript, traced, turns>>
    BY <1>11 DEF RunTool
  <2>2. turn' \in TurnRow /\ turn'.step = "record" /\ turn'.id = turn.id /\ turn'.shown = turn.shown
    BY <1>t, <2>1 DEF TurnShapes, TurnRow, TurnSteps
  <2>3. p \in Nat \X Nat /\ p[1] = turn.id /\ turn.id \in 1..turns
    BY <1>t, <2>1 DEF TurnShapes, TurnRow, TurnIsAtWork
  <2>4. minted' = minted \/ minted' = minted \cup {p}
    BY <1>11
  <2> HIDE DEF p
  <2>5. TurnShapes'
    BY <1>t, <2>1, <2>2, <2>3, <2>4 DEF TurnShapes
  <2>6. TurnIsAtWork'
    BY <1>t, <2>1, <2>2 DEF TurnIsAtWork
  <2>7. Untold(turn.id) = {}
    BY <1>t, <2>1 DEF TurnIsAtWork
  <2>8. \A t \in 1..turns : \A m, q \in {x \in minted' \ traced : x[1] = t} : m = q
    <3> SUFFICES ASSUME NEW t \in 1..turns, NEW m \in minted' \ traced, NEW q \in minted' \ traced,
                        m[1] = t, q[1] = t
                 PROVE  m = q
      OBVIOUS
    <3>1. CASE t = turn.id
      BY <2>4, <2>7, <3>1 DEF Untold
    <3>2. CASE t # turn.id
      BY <1>t, <2>3, <2>4, <3>2 DEF TurnIsAccounted
    <3> QED
      BY <3>1, <3>2
  <2>9. TurnIsAccounted'
    BY <1>t, <2>1, <2>2, <2>8 DEF TurnIsAccounted
  <2> QED
    BY <2>5, <2>6, <2>9 DEF TurnInv
<1>12. CASE ReadTool
  BY <1>t, <1>11, <1>12 DEF ReadTool, TurnShapes, TurnRow
<1>13. CASE ProposeTool
  BY <1>t, <1>11, <1>13 DEF ProposeTool, TurnShapes, TurnRow
<1>14. CASE RecordCall
  <2> DEFINE calls == turn.calls - 1
             step == IF turn.calls = 1 THEN "model" ELSE "tools"
  <2>1. /\ turn.step = "record" /\ turn' = [turn EXCEPT !.calls = calls, !.step = step]
        /\ traced' = traced \cup {p \in minted : p[1] = turn.id} /\ UNCHANGED <<transcript, minted, turns>>
    BY <1>14 DEF RecordCall
  <2>2. calls \in Int /\ step \in {"model", "tools"}
    BY <1>t DEF TurnShapes, TurnRow
  <2> HIDE DEF calls, step
  <2>3. turn' \in TurnRow /\ turn'.step = step /\ turn'.id = turn.id /\ turn'.shown = turn.shown
    BY <1>t, <2>1, <2>2 DEF TurnShapes, TurnRow, TurnSteps
  <2>4. TurnShapes'
    BY <1>t, <2>1, <2>3 DEF TurnShapes
  <2>5. TurnIsAtWork'
    BY <1>t, <2>1, <2>2, <2>3 DEF TurnIsAtWork, Untold
  <2>6. TurnIsAccounted'
    BY <1>t, <2>1, <2>3 DEF TurnIsAccounted
  <2> QED
    BY <2>4, <2>5, <2>6 DEF TurnInv
<1> QED
  BY <1>2, <1>3, <1>4, <1>5, <1>6, <1>7, <1>8, <1>9, <1>10, <1>12, <1>13, <1>14
     DEF TurnNext, turnVars, SwitchChat

(***************************************************************************)
(* However long a session, wherever its turns were cut off: the model is   *)
(* shown the question it answers, and of what a turn put on file at most   *)
(* the last proposal has no row (chat_start, run_tool).                    *)
(***************************************************************************)
THEOREM TurnsAreAccounted == TurnSpec => []TurnIsAccounted
<1>1. TurnInit => TurnInv
  BY DEF TurnInit, TurnInv, TurnShapes, TurnIsAtWork, TurnIsAccounted, NoTurn, TurnRow, TurnSteps
<1>2. TurnInv /\ [TurnNext]_turnVars => TurnInv'
  BY TurnStep
<1>3. TurnInv => TurnIsAccounted
  BY DEF TurnInv
<1> QED
  BY <1>1, <1>2, <1>3, PTL DEF TurnSpec

-----------------------------------------------------------------------------
(* The schedule: what an apply leaves                                      *)

ApplySteps == {"none", "look", "create", "state"}
TaskRow == [installed : BOOLEAN, enabled : BOOLEAN, cadence : Cadences]

ScheduleShapes ==
    /\ desired \in [TaskNames -> Specs] /\ task \in [TaskNames -> TaskRow]
    /\ launcher = [c \in Commands |-> launcher[c]]
    /\ apply \in [step : ApplySteps, todo : Seq(TaskNames), ok : BOOLEAN, force : BOOLEAN]
    /\ settled \in BOOLEAN

\* The tasks an apply has left behind, by their place in the file.
Behind == Len(Tasks) - Len(apply.todo)

\* An apply goes through the file; the launcher is right once it is written,
\* and the task is once it is registered.
ApplyIsOnItsWay ==
    Applying =>
        /\ ~settled
        /\ Len(apply.todo) \in 1..Len(Tasks)
        /\ \A j \in 1..Len(apply.todo) : apply.todo[j] = Tasks[Behind + j]
        /\ apply.ok => \A i \in 1..Behind : ~Drift(Tasks[i])
        /\ apply.step \in {"create", "state"} => ~LauncherProblems(Current)
        /\ apply.step = "state" => task[Current].installed /\ ~CadenceChanged(Current)

ScheduleInv == ScheduleShapes /\ ApplyIsOnItsWay /\ AppliedIsDesired

\* Tasks of their own commands: load_desired takes others, too.
OwnCommands == \A t, u \in TaskNames : TaskCommand[t] = TaskCommand[u] => t = u

LEMMA CurrentTask ==
    ASSUME ScheduleInv, Applying
    PROVE  /\ Current \in TaskNames /\ Behind \in Nat /\ Behind + 1 \in 1..Len(Tasks)
           /\ Current = Tasks[Behind + 1] /\ \A i \in 1..Behind : Tasks[i] \in TaskNames /\ Tasks[i] # Current
<1>1. Tasks \in Seq(TaskNames) /\ Len(Tasks) \in Nat /\ DOMAIN Tasks = 1..Len(Tasks)
  BY ScheduleAssumption DEF TaskNames
<1>2. Len(apply.todo) \in 1..Len(Tasks) /\ apply.todo \in Seq(TaskNames)
      /\ \A j \in 1..Len(apply.todo) : apply.todo[j] = Tasks[Behind + j]
  BY DEF ScheduleInv, ScheduleShapes, ApplyIsOnItsWay
<1>3. Behind \in Nat /\ Behind + 1 \in 1..Len(Tasks)
  BY <1>1, <1>2 DEF Behind
<1>4. Current = apply.todo[1]
  BY <1>2 DEF Current
<1>5. Current = Tasks[Behind + 1]
  BY <1>2, <1>4
<1>6. Current \in TaskNames
  BY <1>1, <1>3, <1>5, ElementOfSeq
<1>7. ASSUME NEW i \in 1..Behind
      PROVE  Tasks[i] \in TaskNames /\ Tasks[i] # Current
  <2>1. i \in 1..Len(Tasks) /\ i # Behind + 1
    BY <1>1, <1>3
  <2>2. Tasks[i] \in TaskNames
    BY <1>1, <2>1, ElementOfSeq
  <2>3. \A j, k \in 1..Len(Tasks) : Tasks[j] = Tasks[k] => j = k
    BY <1>1, ScheduleAssumption DEF IsInjective
  <2> QED
    BY <1>3, <1>5, <2>1, <2>2, <2>3
<1> QED
  BY <1>3, <1>5, <1>6, <1>7

LEMMA TasksAreBehind ==
    \A t \in TaskNames : \E i \in 1..Len(Tasks) : t = Tasks[i]
BY ScheduleAssumption DEF TaskNames, ToSet

\* One task is left behind: with no drift, or the apply does not say yes.
LEMMA GoneOn ==
    ASSUME ScheduleInv, Applying, NEW ok \in BOOLEAN, Gone(ok),
           NEW here \in TaskNames, here = Current,
           UNCHANGED desired, UNCHANGED launcher, UNCHANGED code,
           task' \in [TaskNames -> TaskRow],
           \A t \in TaskNames : t # here => task'[t] = task[t],
           ok => ~Drift(here)'
    PROVE  ScheduleInv'
<1> DEFINE n == Len(apply.todo)
<1>t. ScheduleShapes /\ ApplyIsOnItsWay
  BY DEF ScheduleInv
<1>1. /\ here \in TaskNames /\ Behind \in Nat /\ Behind + 1 \in 1..Len(Tasks)
      /\ here = Tasks[Behind + 1] /\ \A i \in 1..Behind : Tasks[i] \in TaskNames /\ Tasks[i] # here
  BY CurrentTask
<1>2. n \in 1..Len(Tasks) /\ Len(Tasks) \in Nat /\ Behind = Len(Tasks) - n /\ apply.todo \in Seq(TaskNames)
      /\ apply.ok \in BOOLEAN
  BY <1>t, ScheduleAssumption DEF ApplyIsOnItsWay, Behind, ScheduleShapes
<1>3. \A t \in TaskNames : t # here => Drift(t)' = Drift(t)
  BY DEF Drift, CadenceChanged, LauncherProblems
<1>4. apply.ok /\ ok => \A i \in 1..(Behind + 1) : ~Drift(Tasks[i])'
  <2> SUFFICES ASSUME apply.ok, ok, NEW i \in 1..(Behind + 1)
               PROVE  ~Drift(Tasks[i])'
    OBVIOUS
  <2>1. CASE i = Behind + 1
    <3>1. Tasks[i] = here
      BY <1>1, <2>1
    <3> QED
      BY <3>1
  <2>2. CASE i # Behind + 1
    <3>1. i \in 1..Behind
      BY <1>1, <2>2
    <3>2. ~Drift(Tasks[i]) /\ Tasks[i] \in TaskNames /\ Tasks[i] # here
      BY <1>1, <1>t, <3>1 DEF ApplyIsOnItsWay
    <3> QED
      BY <1>3, <3>2
  <2> QED
    BY <2>1, <2>2
<1>5. CASE n = 1
  <2>1. apply' = NoApply /\ settled' = (apply.ok /\ ok)
    BY <1>5 DEF Gone
  <2>2. ~Applying' /\ settled' \in BOOLEAN
    BY <2>1 DEF Applying, NoApply
  <2>3. ScheduleShapes'
    BY <1>t, <2>1, <2>2 DEF ScheduleShapes, NoApply, ApplySteps
  <2>4. AppliedIsDesired'
    <3> SUFFICES ASSUME settled', NEW t \in TaskNames
                 PROVE  ~Drift(t)'
      BY DEF AppliedIsDesired
    <3>1. apply.ok /\ ok
      BY <2>1
    <3>2. PICK i \in 1..Len(Tasks) : t = Tasks[i]
      BY TasksAreBehind
    <3>3. i \in 1..(Behind + 1)
      BY <1>2, <1>5
    <3> QED
      BY <1>4, <3>1, <3>2, <3>3
  <2> QED
    BY <2>2, <2>3, <2>4 DEF ScheduleInv, ApplyIsOnItsWay
<1>6. CASE n # 1
  <2> DEFINE rest == Tail(apply.todo)
             yes == apply.ok /\ ok
  <2>1. apply' = [apply EXCEPT !.step = "look", !.todo = rest, !.ok = yes] /\ settled' = FALSE
    BY <1>6 DEF Gone
  <2>2. rest \in Seq(TaskNames) /\ Len(rest) = n - 1 /\ \A j \in 1..(n - 1) : rest[j] = apply.todo[j + 1]
    BY <1>2
  <2>3. yes \in BOOLEAN
    OBVIOUS
  <2> HIDE DEF rest, yes
  <2>4. /\ apply'.step = "look" /\ apply'.todo = rest /\ apply'.ok = yes
        /\ apply' \in [step : ApplySteps, todo : Seq(TaskNames), ok : BOOLEAN, force : BOOLEAN]
    BY <1>t, <2>1, <2>2, <2>3 DEF ScheduleShapes, ApplySteps
  <2>5. ScheduleShapes'
    BY <1>t, <2>1, <2>4 DEF ScheduleShapes
  <2>6. Behind' = Behind + 1
    <3>1. Behind' = Len(Tasks) - (n - 1)
      BY <2>2, <2>4 DEF Behind
    <3> HIDE DEF n
    <3> QED
      BY <1>2, <3>1
  <2>7. \A j \in 1..(n - 1) : rest[j] = Tasks[Behind + 1 + j]
    <3> SUFFICES ASSUME NEW j \in 1..(n - 1)
                 PROVE  rest[j] = Tasks[Behind + 1 + j]
      OBVIOUS
    <3>1. j + 1 \in 1..n /\ Behind + (j + 1) = Behind + 1 + j
      <4> HIDE DEF n
      <4>1. j \in Nat /\ j >= 1 /\ j <= n - 1
        BY <1>2
      <4> QED
        BY <1>1, <1>2, <4>1
    <3>2. apply.todo[j + 1] = Tasks[Behind + (j + 1)]
      BY <1>t, <3>1 DEF ApplyIsOnItsWay
    <3> QED
      BY <2>2, <3>1, <3>2
  <2>8. yes => \A i \in 1..Behind' : ~Drift(Tasks[i])'
    BY <1>4, <2>6 DEF yes
  <2>9. n - 1 \in 1..Len(Tasks)
    <3> HIDE DEF n
    <3> QED
      BY <1>2, <1>6
  <2>10. ApplyIsOnItsWay'
    BY <2>1, <2>2, <2>4, <2>6, <2>7, <2>8, <2>9 DEF ApplyIsOnItsWay
  <2> QED
    BY <2>1, <2>5, <2>10 DEF ScheduleInv, AppliedIsDesired
<1> QED
  BY <1>5, <1>6

LEMMA ApplyStep ==
    ASSUME OwnCommands, ScheduleInv, [ScheduleNext]_scheduleVars
    PROVE  ScheduleInv'
<1>t. ScheduleShapes /\ ApplyIsOnItsWay /\ AppliedIsDesired
  BY DEF ScheduleInv
<1>1. CASE UNCHANGED scheduleVars
  BY <1>t, <1>1 DEF scheduleVars, ScheduleInv, ScheduleShapes, ApplyIsOnItsWay, AppliedIsDesired, Applying,
     Behind, Drift, CadenceChanged, LauncherProblems, Current
<1>2. ASSUME NEW force \in BOOLEAN, StartApply(force)
      PROVE  ScheduleInv'
  <2>1. /\ apply' = [step |-> "look", todo |-> Tasks, ok |-> TRUE, force |-> force] /\ settled' = FALSE
        /\ UNCHANGED <<desired, task, launcher, code>>
    BY <1>2 DEF StartApply
  <2>2. Tasks \in Seq(TaskNames) /\ Len(Tasks) \in Nat /\ Len(Tasks) # 0
    BY ScheduleAssumption, EmptySeq DEF TaskNames
  <2>3. ScheduleShapes'
    BY <1>t, <2>1, <2>2 DEF ScheduleShapes, ApplySteps
  <2>4. Behind' = 0
    BY <2>1, <2>2 DEF Behind
  <2>5. ApplyIsOnItsWay'
    BY <2>1, <2>2, <2>4 DEF ApplyIsOnItsWay
  <2> QED
    BY <2>1, <2>3, <2>5 DEF ScheduleInv, AppliedIsDesired
<1>3. CASE RefusedCadence
  <2>1. Applying /\ Gone(FALSE) /\ UNCHANGED <<desired, task, launcher, code>>
    BY <1>3 DEF RefusedCadence, Applying
  <2> PICK here \in TaskNames : here = Current
    BY <2>1, CurrentTask
  <2> QED
    BY <1>t, <2>1, GoneOn DEF ScheduleShapes
<1>4. CASE Unchanged_
  <2>1. Applying /\ Gone(TRUE) /\ UNCHANGED <<desired, task, launcher, code>>
    BY <1>4 DEF Unchanged_, Applying
  <2>2. PICK here \in TaskNames : here = Current
    BY <2>1, CurrentTask
  <2>3. ~Drift(here)
    BY <1>t, <1>4, <2>2 DEF Unchanged_, NeedsCreate, NeedsState, Drift, ScheduleShapes
  <2>4. ~Drift(here)'
    BY <2>1, <2>3 DEF Drift, CadenceChanged, LauncherProblems
  <2> QED
    BY <1>t, <2>1, <2>2, <2>4, GoneOn DEF ScheduleShapes
<1>5. ASSUME Applying, apply' = NoApply, settled' = settled, ScheduleShapes'
      PROVE  ScheduleInv'
  BY <1>t, <1>5 DEF ScheduleInv, ApplyIsOnItsWay, AppliedIsDesired, Applying, NoApply
<1>6. CASE InstallLauncher
  <2>1. Applying /\ UNCHANGED <<desired, task, code>> /\ settled' = settled
    BY <1>6 DEF InstallLauncher, Applying
  <2>2. CASE apply' = NoApply /\ launcher' = launcher
    BY <1>t, <1>5, <2>1, <2>2 DEF ScheduleShapes, NoApply, ApplySteps
  <2>3. CASE /\ WriteLauncher(TaskCommand[Current], desired[Current].scope)
             /\ apply' = [apply EXCEPT !.step = "create"]
    <3>0. /\ Current \in TaskNames /\ Behind \in Nat /\ Behind + 1 \in 1..Len(Tasks)
          /\ \A i \in 1..Behind : Tasks[i] \in TaskNames /\ Tasks[i] # Current
      BY <2>1, CurrentTask
    <3>1. /\ apply'.step = "create" /\ apply'.todo = apply.todo /\ apply'.ok = apply.ok
          /\ apply' \in [step : ApplySteps, todo : Seq(TaskNames), ok : BOOLEAN, force : BOOLEAN]
      BY <1>t, <2>3 DEF ScheduleShapes, ApplySteps
    <3>2. /\ launcher' = [launcher EXCEPT ![TaskCommand[Current]] =
                             [version |-> code, scope |-> desired[Current].scope]]
          /\ \A t \in TaskNames : TaskCommand[t] \in Commands
      BY <2>3 DEF WriteLauncher, Commands
    <3>3. ScheduleShapes'
      BY <1>t, <2>1, <3>1, <3>2 DEF ScheduleShapes
    <3>4. launcher'[TaskCommand[Current]] = [version |-> code, scope |-> desired[Current].scope]
          /\ \A t \in TaskNames : t # Current => launcher'[TaskCommand[t]] = launcher[TaskCommand[t]]
      BY <1>t, <3>0, <3>2 DEF ScheduleShapes, OwnCommands
    <3>5. Behind' = Behind /\ Current' = Current /\ Applying'
      BY <3>1 DEF Behind, Current, Applying
    <3>6. ~LauncherProblems(Current)'
      BY <2>1, <3>4, <3>5 DEF LauncherProblems
    <3>7. \A t \in TaskNames : t # Current => Drift(t)' = Drift(t)
      BY <2>1, <3>4 DEF Drift, CadenceChanged, LauncherProblems
    <3>8. apply.ok => \A i \in 1..Behind : ~Drift(Tasks[i])'
      BY <1>t, <2>1, <3>0, <3>7 DEF ApplyIsOnItsWay
    <3>9. ApplyIsOnItsWay'
      BY <1>t, <2>1, <3>1, <3>5, <3>6, <3>8 DEF ApplyIsOnItsWay
    <3> QED
      BY <1>t, <2>1, <3>3, <3>9 DEF ScheduleInv, ApplyIsOnItsWay, AppliedIsDesired
  <2> QED
    BY <1>6, <2>2, <2>3 DEF InstallLauncher
<1>7. CASE CreateTask
  <2>1. Applying /\ apply.step = "create" /\ UNCHANGED <<desired, launcher, code>>
    BY <1>7 DEF CreateTask, Applying
  <2>0. /\ Current \in TaskNames /\ Behind \in Nat /\ Behind + 1 \in 1..Len(Tasks)
        /\ \A i \in 1..Behind : Tasks[i] \in TaskNames /\ Tasks[i] # Current
    BY <2>1, CurrentTask
  <2>2. CASE Gone(FALSE) /\ task' = task
    <3> PICK here \in TaskNames : here = Current
      BY <2>0
    <3> QED
      BY <1>t, <2>1, <2>2, GoneOn DEF ScheduleShapes
  <2>3. CASE /\ Registered(Current, desired[Current].cadence)
             /\ apply' = [apply EXCEPT !.step = "state"] /\ settled' = settled
    <3> DEFINE row == [installed |-> TRUE, enabled |-> TRUE, cadence |-> desired[Current].cadence]
    <3>1. /\ apply'.step = "state" /\ apply'.todo = apply.todo /\ apply'.ok = apply.ok
          /\ apply' \in [step : ApplySteps, todo : Seq(TaskNames), ok : BOOLEAN, force : BOOLEAN]
      BY <1>t, <2>3 DEF ScheduleShapes, ApplySteps
    <3>2. task' = [task EXCEPT ![Current] = row] /\ row \in TaskRow
      BY <1>t, <2>0, <2>3 DEF Registered, TaskRow, ScheduleShapes, Specs
    <3>3. task'[Current] = row /\ \A t \in TaskNames : t # Current => task'[t] = task[t]
      BY <1>t, <2>0, <3>2 DEF ScheduleShapes
    <3>4. ScheduleShapes'
      BY <1>t, <2>1, <2>3, <3>1, <3>2 DEF ScheduleShapes
    <3>5. Behind' = Behind /\ Current' = Current /\ Applying'
      BY <3>1 DEF Behind, Current, Applying
    <3>6. ~LauncherProblems(Current)' /\ task'[Current'].installed /\ ~CadenceChanged(Current)'
      BY <1>t, <2>1, <3>3, <3>5 DEF LauncherProblems, CadenceChanged, ApplyIsOnItsWay
    <3>7. \A t \in TaskNames : t # Current => Drift(t)' = Drift(t)
      BY <2>1, <3>3 DEF Drift, CadenceChanged, LauncherProblems
    <3>8. apply.ok => \A i \in 1..Behind : ~Drift(Tasks[i])'
      BY <1>t, <2>1, <2>0, <3>7 DEF ApplyIsOnItsWay
    <3>9. ApplyIsOnItsWay'
      BY <1>t, <2>1, <2>3, <3>1, <3>5, <3>6, <3>8 DEF ApplyIsOnItsWay
    <3> QED
      BY <1>t, <2>1, <2>3, <3>4, <3>9 DEF ScheduleInv, ApplyIsOnItsWay, AppliedIsDesired
  <2> QED
    BY <1>7, <2>2, <2>3 DEF CreateTask
<1>8. CASE StateOnly
  <2>1. /\ Applying /\ ~NeedsCreate(Current) /\ apply' = [apply EXCEPT !.step = "state"]
        /\ UNCHANGED <<desired, task, launcher, code, settled>>
    BY <1>8 DEF StateOnly, Applying
  <2>2. /\ apply'.step = "state" /\ apply'.todo = apply.todo /\ apply'.ok = apply.ok
        /\ apply' \in [step : ApplySteps, todo : Seq(TaskNames), ok : BOOLEAN, force : BOOLEAN]
    BY <1>t, <2>1 DEF ScheduleShapes, ApplySteps
  <2>3. ScheduleShapes'
    BY <1>t, <2>1, <2>2 DEF ScheduleShapes
  <2>4. Behind' = Behind /\ Current' = Current /\ Applying'
    BY <2>2 DEF Behind, Current, Applying
  <2>5. ~LauncherProblems(Current)' /\ task'[Current'].installed /\ ~CadenceChanged(Current)'
    BY <2>1, <2>4 DEF NeedsCreate, LauncherProblems, CadenceChanged
  <2>6. \A i \in 1..Behind : Drift(Tasks[i])' = Drift(Tasks[i])
    BY <2>1 DEF Drift, CadenceChanged, LauncherProblems
  <2>7. ApplyIsOnItsWay'
    BY <1>t, <2>1, <2>2, <2>4, <2>5, <2>6 DEF ApplyIsOnItsWay
  <2> QED
    BY <1>t, <2>1, <2>3, <2>7 DEF ScheduleInv, ApplyIsOnItsWay, AppliedIsDesired
<1>9. CASE SetState
  <2>1. Applying /\ apply.step = "state" /\ UNCHANGED <<desired, launcher, code>>
    BY <1>9 DEF SetState, Applying
  <2>2. PICK here \in TaskNames : here = Current
    BY <2>1, CurrentTask
  <2>3. CASE Gone(FALSE) /\ task' = task
    BY <1>t, <2>1, <2>2, <2>3, GoneOn DEF ScheduleShapes
  <2>4. CASE task' = [task EXCEPT ![Current].enabled = desired[Current].enabled] /\ Gone(TRUE)
    <3> DEFINE is == desired[here].enabled
               row == [task[here] EXCEPT !.enabled = is]
    <3>1. here \in TaskNames /\ is \in BOOLEAN /\ task[here] \in TaskRow /\ row \in TaskRow
          /\ row.installed = task[here].installed /\ row.enabled = is /\ row.cadence = task[here].cadence
      BY <1>t, <2>2 DEF ScheduleShapes, Specs, TaskRow
    <3>2. task' = [task EXCEPT ![here] = row]
      BY <1>t, <2>2, <2>4 DEF ScheduleShapes
    <3>3. task' \in [TaskNames -> TaskRow] /\ task'[here] = row
          /\ \A t \in TaskNames : t # here => task'[t] = task[t]
      <4> HIDE DEF row
      <4> QED
        BY <1>t, <3>1, <3>2 DEF ScheduleShapes
    <3>4. ~LauncherProblems(here) /\ task[here].installed /\ ~CadenceChanged(here)
      BY <1>t, <2>1, <2>2 DEF ApplyIsOnItsWay
    <3>5. ~(~task'[here].installed) /\ task'[here].enabled = desired'[here].enabled
          /\ task'[here].cadence = desired'[here].cadence
      BY <2>1, <3>1, <3>3, <3>4 DEF CadenceChanged
    <3>6. /\ launcher'[TaskCommand[here]].version = code'
          /\ launcher'[TaskCommand[here]].scope = desired'[here].scope
      BY <2>1, <3>4 DEF LauncherProblems
    <3>7. ~Drift(here)'
      BY <3>5, <3>6 DEF Drift, CadenceChanged, LauncherProblems
    <3> QED
      BY <2>1, <2>2, <2>4, <3>3, <3>7, GoneOn
  <2> QED
    BY <1>9, <2>3, <2>4 DEF SetState
<1>10. CASE ApplyKilled
  <2>1. Applying /\ apply' = NoApply /\ UNCHANGED <<desired, task, launcher, code, settled>>
    BY <1>10 DEF ApplyKilled
  <2> QED
    BY <1>t, <1>5, <2>1 DEF ScheduleShapes, NoApply, ApplySteps
<1>11. ASSUME ~Applying, settled' = FALSE, UNCHANGED apply, ScheduleShapes'
       PROVE  ScheduleInv'
  BY <1>11 DEF ScheduleInv, ApplyIsOnItsWay, AppliedIsDesired, Applying
<1>12. ASSUME NEW t \in TaskNames, NEW c \in Cadences, NEW s \in Scopes, NEW registers \in BOOLEAN,
              InstallByHand(t, c, s, registers)
       PROVE  ScheduleInv'
  <2>1. /\ ~Applying /\ settled' = FALSE /\ UNCHANGED apply /\ UNCHANGED desired
        /\ launcher' = [launcher EXCEPT ![TaskCommand[t]] = [version |-> code, scope |-> s]]
        /\ (task' = task \/ task' = [task EXCEPT ![t] = [installed |-> TRUE, enabled |-> TRUE, cadence |-> c]])
    BY <1>12 DEF InstallByHand, ScheduleOp, WriteLauncher, Registered
  <2>2. task' \in [TaskNames -> TaskRow]
    <3> DEFINE row == [installed |-> TRUE, enabled |-> TRUE, cadence |-> c]
    <3>1. row \in TaskRow
      BY DEF TaskRow
    <3> HIDE DEF row
    <3>2. task' = task \/ task' = [task EXCEPT ![t] = row]
      BY <2>1 DEF row
    <3> QED
      BY <1>t, <3>1, <3>2 DEF ScheduleShapes
  <2>3. launcher' = [k \in Commands |-> launcher'[k]]
    BY <1>t, <2>1 DEF ScheduleShapes
  <2>4. ScheduleShapes'
    BY <1>t, <2>1, <2>2, <2>3 DEF ScheduleShapes
  <2> QED
    BY <1>11, <2>1, <2>4
<1>13. ASSUME NEW t \in TaskNames, RemoveByHand(t)
       PROVE  ScheduleInv'
  <2>1. /\ ~Applying /\ settled' = FALSE /\ UNCHANGED <<apply, desired, launcher>>
        /\ task' = [task EXCEPT ![t].installed = FALSE, ![t].enabled = TRUE]
    BY <1>13 DEF RemoveByHand, ScheduleOp
  <2>2. task' \in [TaskNames -> TaskRow]
    BY <1>t, <2>1 DEF ScheduleShapes, TaskRow
  <2>3. ScheduleShapes'
    BY <1>t, <2>1, <2>2 DEF ScheduleShapes
  <2> QED
    BY <1>11, <2>1, <2>3
<1>14. ASSUME NEW t \in TaskNames, NEW flag \in BOOLEAN, SetEnabled(t, flag)
       PROVE  ScheduleInv'
  <2>1. /\ ~Applying /\ settled' = FALSE /\ UNCHANGED <<apply, desired, launcher>>
        /\ task' = [task EXCEPT ![t].enabled = flag]
    BY <1>14 DEF SetEnabled, ScheduleOp
  <2>2. task' \in [TaskNames -> TaskRow]
    BY <1>t, <2>1 DEF ScheduleShapes, TaskRow
  <2>3. ScheduleShapes'
    BY <1>t, <2>1, <2>2 DEF ScheduleShapes
  <2> QED
    BY <1>11, <2>1, <2>3
<1>15. CASE RefreshLaunchers
  <2>1. ~Applying /\ settled' = FALSE /\ UNCHANGED <<apply, desired, task>>
    BY <1>15 DEF RefreshLaunchers, ScheduleOp
  <2>2. launcher' = [c \in Commands |-> launcher'[c]]
    BY <1>15 DEF RefreshLaunchers
  <2>3. ScheduleShapes'
    BY <1>t, <2>1, <2>2 DEF ScheduleShapes
  <2> QED
    BY <1>11, <2>1, <2>3
<1>16. ASSUME NEW t \in TaskNames, NEW spec \in Specs, EditSchedule(t, spec)
       PROVE  ScheduleInv'
  <2>1. /\ ~Applying /\ settled' = FALSE /\ UNCHANGED <<apply, task, launcher>>
        /\ desired' = [desired EXCEPT ![t] = spec]
    BY <1>16 DEF EditSchedule, ScheduleOp
  <2>2. ScheduleShapes'
    BY <1>t, <2>1 DEF ScheduleShapes
  <2> QED
    BY <1>11, <2>1, <2>2
<1>17. CASE UpgradeCode
  <2>1. ~Applying /\ settled' = FALSE /\ UNCHANGED <<apply, task, launcher, desired>>
    BY <1>17 DEF UpgradeCode, ScheduleOp
  <2>2. ScheduleShapes'
    BY <1>t, <2>1 DEF ScheduleShapes
  <2> QED
    BY <1>11, <2>1, <2>2
<1> QED
  BY <1>1, <1>2, <1>3, <1>4, <1>6, <1>7, <1>8, <1>9, <1>10, <1>12, <1>13, <1>14, <1>15, <1>16, <1>17
     DEF ScheduleNext

(***************************************************************************)
(* Whatever an operator did to the tasks before, and wherever an apply     *)
(* failed: one that says the schedule matches leaves no drift, if no two   *)
(* tasks run the same command, as in the file that is shipped (apply).     *)
(***************************************************************************)
THEOREM AppliedStays == OwnCommands => (ScheduleSpec => []AppliedIsDesired)
<1> SUFFICES ASSUME OwnCommands PROVE ScheduleSpec => []AppliedIsDesired
  OBVIOUS
<1>1. ScheduleInit => ScheduleInv
  <2> SUFFICES ASSUME ScheduleInit PROVE ScheduleInv
    OBVIOUS
  <2>1. (CHOOSE c \in Cadences : TRUE) \in Cadences
    BY ScheduleAssumption
  <2>2. ScheduleShapes
    <3>1. task \in [TaskNames -> TaskRow]
      BY <2>1 DEF ScheduleInit, TaskRow
    <3>2. NoApply \in [step : ApplySteps, todo : Seq(TaskNames), ok : BOOLEAN, force : BOOLEAN]
      BY DEF NoApply, ApplySteps
    <3>3. launcher = [c \in Commands |-> launcher[c]]
      BY DEF ScheduleInit
    <3> QED
      BY <3>1, <3>2, <3>3 DEF ScheduleInit, ScheduleShapes
  <2> QED
    BY <2>2 DEF ScheduleInit, ScheduleInv, ApplyIsOnItsWay, Applying, NoApply, AppliedIsDesired
<1>2. ScheduleInv /\ [ScheduleNext]_scheduleVars => ScheduleInv'
  BY ApplyStep
<1>3. ScheduleInv => AppliedIsDesired
  BY DEF ScheduleInv
<1> QED
  BY <1>1, <1>2, <1>3, PTL DEF ScheduleSpec

-----------------------------------------------------------------------------
(* The edits of the source list and of the thresholds                      *)

Distinct(entries) == \A d, e \in entries : d.name = e.name => d = e
Thresholds == [min : Nat, max : Nat, model : ModelNames]

\* What a request is about to write is as good as what it read.
EditIsSound(r) ==
    LET e == edit[r] IN
    /\ e = [kind |-> e.kind, step |-> e.step, change |-> e.change, paths |-> e.paths, read |-> e.read]
    /\ e.kind \in {"none", "sources", "min", "max", "model"}
    /\ e.kind = "sources" => Distinct(e.read) /\ e.paths \subseteq Profiles /\ e.step = "write"
    /\ e.step \in {"check", "edit", "replace"} =>
          e.kind \in {"min", "max", "model"} /\ e.paths \subseteq Profiles /\ e.paths # {}
    /\ e.kind \in {"min", "max"} => e.change \in Nat
    /\ e.kind = "model" => /\ e.change \in ModelNames /\ e.step # "check"
                           /\ \E f \in Profiles : e.paths = {f} /\ e.change \in chosen[f]
    /\ e.step = "replace" => e.read \in Thresholds /\ e.read.model \in chosen[NextPath(e.paths)]

SettingsInv ==
    /\ listed = [f \in Profiles |-> listed[f]]
    /\ thresholds \in [Profiles -> Thresholds]
    /\ chosen = [f \in Profiles |-> chosen[f]]
    /\ edit = [r \in Editors |-> edit[r]]
    /\ \A r \in Editors : EditIsSound(r)
    /\ ProfilesKeepTheirOwn

LEMMA NextPathIsOne ==
    ASSUME NEW paths \in SUBSET Profiles, paths # {}
    PROVE  NextPath(paths) \in paths /\ NextPath(paths) \in Profiles
BY DEF NextPath

LEMMA SamePath == ASSUME NEW one, NEW other, one = other PROVE NextPath(one) = NextPath(other)
OBVIOUS

Request(kind, step, change, paths) ==
    [NoEdit EXCEPT !.kind = kind, !.step = step, !.change = change, !.paths = paths]

LEMMA RequestRecord ==
    ASSUME NEW kind, NEW step, NEW change, NEW paths
    PROVE  Request(kind, step, change, paths)
           = [kind |-> kind, step |-> step, change |-> change, paths |-> paths, read |-> 0]
<1> DEFINE one == [NoEdit EXCEPT !.kind = kind]
           two == [one EXCEPT !.step = step]
           three == [two EXCEPT !.change = change]
<1>1. one = [kind |-> kind, step |-> "idle", change |-> 0, paths |-> {}, read |-> 0]
  BY DEF NoEdit
<1> HIDE DEF one
<1>2. two = [kind |-> kind, step |-> step, change |-> 0, paths |-> {}, read |-> 0]
  BY <1>1
<1> HIDE DEF two
<1>3. three = [kind |-> kind, step |-> step, change |-> change, paths |-> {}, read |-> 0]
  BY <1>2
<1> HIDE DEF three
<1>4. [three EXCEPT !.paths = paths]
      = [kind |-> kind, step |-> step, change |-> change, paths |-> paths, read |-> 0]
  BY <1>3
<1> QED
  BY <1>4 DEF three, two, one, Request

\* A name that is given is nobody else's.
LEMMA NewNameIsFree ==
    ASSUME NEW entries, NEW stem, NEW skip, NEW new \in UniqueName(entries, stem, skip)
    PROVE  \A e \in entries : e.name = skip \/ e.name # new
<1> DEFINE names == {e.name : e \in entries} \ {skip}
           free == {i \in 1..SuffixBound : <<stem, i>> \notin names}
<1>1. PICK i \in free : new = <<stem, i>>
  BY DEF UniqueName
<1>2. new \notin names
  BY <1>1
<1> QED
  BY <1>2

LEMMA AddedAreDistinct ==
    ASSUME NEW entries, Distinct(entries), NEW u, NEW stem, NEW after \in Added(entries, u, stem)
    PROVE  Distinct(after)
<1>1. PICK new \in UniqueName(entries, stem, <<>>) : after = entries \cup {[name |-> new, url |-> u]}
  BY DEF Added
<1>2. new # <<>>
  BY DEF UniqueName
<1>3. \A e \in entries : e.name # new
  BY <1>2, NewNameIsFree
<1> QED
  BY <1>1, <1>3 DEF Distinct

LEMMA UpdatedAreDistinct ==
    ASSUME NEW entries, Distinct(entries), NEW name, NEW u, NEW stem, NEW after \in Updated(entries, name, u, stem)
    PROVE  Distinct(after)
<1>1. PICK new \in {name} \cup UniqueName(entries, stem, name) :
         after = (entries \ {Named(entries, name)}) \cup {[name |-> new, url |-> u]}
  BY DEF Updated
<1>2. \E e \in entries : e.name = name
  BY DEF Updated
<1>3. Named(entries, name) \in entries /\ Named(entries, name).name = name
  BY <1>2 DEF Named
<1>4. \A e \in entries \ {Named(entries, name)} : e.name # name
  BY <1>3 DEF Distinct
<1>5. \A e \in entries \ {Named(entries, name)} : e.name # new
  BY <1>4, NewNameIsFree
<1> QED
  BY <1>1, <1>5 DEF Distinct

LEMMA SourceEditIsSound ==
    ASSUME SettingsInv, NEW r \in Editors, NEW result, SourceEdit(r, result),
           \A after \in result : Distinct(after)
    PROVE  SettingsInv'
<1>1. PICK after \in result :
         Goes(r, [NoEdit EXCEPT !.kind = "sources", !.step = "write", !.paths = MirrorPaths, !.read = after])
  BY DEF SourceEdit
<1> DEFINE new == [kind |-> "sources", step |-> "write", change |-> 0, paths |-> Profiles, read |-> after]
<1>2. edit' = [edit EXCEPT ![r] = new] /\ UNCHANGED <<listed, thresholds, chosen>>
  BY <1>1 DEF SourceEdit, Goes, NoEdit, MirrorPaths
<1>3. edit'[r] = new /\ \A q \in Editors \ {r} : edit'[q] = edit[q]
  BY <1>2 DEF SettingsInv
<1>4. EditIsSound(r)'
  BY <1>2, <1>3 DEF EditIsSound
<1>5. \A q \in Editors \ {r} : EditIsSound(q)'
  BY <1>2, <1>3 DEF EditIsSound, SettingsInv, NextPath
<1> QED
  BY <1>2, <1>4, <1>5 DEF SettingsInv, ProfilesKeepTheirOwn

\* What one request does to its own record, and to one file, leaves the rest.
LEMMA OneEditGoesOn ==
    ASSUME SettingsInv, NEW r \in Editors, edit' = [edit EXCEPT ![r] = edit'[r]], EditIsSound(r)',
           \A f \in Profiles : chosen[f] \subseteq chosen'[f],
           listed' = [f \in Profiles |-> listed'[f]], thresholds' \in [Profiles -> Thresholds],
           chosen' = [f \in Profiles |-> chosen'[f]], ProfilesKeepTheirOwn'
    PROVE  SettingsInv'
<1>1. edit' = [q \in Editors |-> edit'[q]] /\ \A q \in Editors \ {r} : edit'[q] = edit[q]
  BY DEF SettingsInv
<1>2. ASSUME NEW q \in Editors \ {r}
      PROVE  EditIsSound(q)'
  <2>1. EditIsSound(q) /\ edit'[q] = edit[q]
    BY <1>1 DEF SettingsInv
  <2>2. edit[q].step = "replace" => NextPath(edit[q].paths) \in Profiles
    BY <2>1, NextPathIsOne DEF EditIsSound
  <2> QED
    BY <2>1, <2>2 DEF EditIsSound, NextPath
<1> QED
  BY <1>1, <1>2 DEF SettingsInv

LEMMA NoEditIsSound == ASSUME NEW r \in Editors, edit'[r] = NoEdit PROVE EditIsSound(r)'
BY DEF EditIsSound, NoEdit

LEMMA SettingsStep ==
    ASSUME SettingsInv, [SettingsNext]_settingsVars
    PROVE  SettingsInv'
<1>t. /\ listed = [f \in Profiles |-> listed[f]] /\ thresholds \in [Profiles -> Thresholds]
      /\ chosen = [f \in Profiles |-> chosen[f]] /\ edit = [r \in Editors |-> edit[r]]
      /\ \A r \in Editors : EditIsSound(r)
  BY DEF SettingsInv
<1>k. \A f \in Profiles : Distinct(listed[f]) /\ thresholds[f].model \in chosen[f]
  BY DEF SettingsInv, ProfilesKeepTheirOwn, Distinct
<1>p. Primary \in Profiles /\ Chars \subseteq Nat
  BY SettingsAssumption
<1>1. CASE UNCHANGED settingsVars
  BY <1>1 DEF settingsVars, SettingsInv, EditIsSound, NextPath, ProfilesKeepTheirOwn
<1>2. ASSUME NEW r \in Editors, NEW u \in Urls, NEW stem \in Stems, AddSource(r, u, stem)
      PROVE  SettingsInv'
  BY <1>2, <1>k, <1>p, AddedAreDistinct, SourceEditIsSound DEF AddSource
<1>3. ASSUME NEW r \in Editors, NEW u \in Urls, NEW stem \in Stems, NEW name \in Names,
             UpdateSource(r, name, u, stem)
      PROVE  SettingsInv'
  BY <1>3, <1>k, <1>p, UpdatedAreDistinct, SourceEditIsSound DEF UpdateSource
<1>4. ASSUME NEW r \in Editors, NEW name \in Names, DeleteSource(r, name)
      PROVE  SettingsInv'
  <2>1. \A after \in Deleted(listed[Primary], name) : Distinct(after)
    BY <1>k, <1>p DEF Deleted, Distinct
  <2> QED
    BY <1>4, <2>1, SourceEditIsSound DEF DeleteSource
<1>u. ASSUME UNCHANGED <<listed, thresholds, chosen>>
      PROVE  /\ \A f \in Profiles : chosen[f] \subseteq chosen'[f]
             /\ listed' = [f \in Profiles |-> listed'[f]] /\ thresholds' \in [Profiles -> Thresholds]
             /\ chosen' = [f \in Profiles |-> chosen'[f]] /\ ProfilesKeepTheirOwn'
  BY <1>t, <1>u DEF SettingsInv, ProfilesKeepTheirOwn
<1>5. ASSUME NEW r \in Editors, SaveSources(r)
      PROVE  SettingsInv'
  <2> DEFINE e == edit[r]
             f == NextPath(e.paths)
             rest == e.paths \ {f}
  <2>1. /\ e.kind = "sources" /\ e.paths # {} /\ listed' = [listed EXCEPT ![f] = e.read]
        /\ UNCHANGED <<thresholds, chosen>>
    BY <1>5 DEF SaveSources
  <2>2. /\ Distinct(e.read) /\ e.paths \subseteq Profiles /\ e.step = "write"
        /\ e = [kind |-> e.kind, step |-> e.step, change |-> e.change, paths |-> e.paths, read |-> e.read]
    BY <1>t, <2>1 DEF EditIsSound
  <2>3. f \in Profiles
    BY <2>1, <2>2, NextPathIsOne
  <2> HIDE DEF f
  <2>4. listed' = [g \in Profiles |-> listed'[g]] /\ \A g \in Profiles : Distinct(listed'[g])
    BY <1>t, <1>k, <2>1, <2>2, <2>3
  <2>5. ProfilesKeepTheirOwn'
    BY <1>k, <2>1, <2>4 DEF ProfilesKeepTheirOwn, Distinct
  <2>6. edit' = [edit EXCEPT ![r] = edit'[r]] /\ EditIsSound(r)'
    <3>1. CASE Settled(r)
      <4>1. edit' = [edit EXCEPT ![r] = NoEdit]
        BY <3>1 DEF Settled
      <4>2. edit'[r] = NoEdit
        BY <1>t, <4>1
      <4> QED
        BY <4>1, <4>2, NoEditIsSound
    <3>2. CASE edit' = [edit EXCEPT ![r].paths = rest]
      <4>1. edit'[r] = [e EXCEPT !.paths = rest] /\ edit' = [edit EXCEPT ![r] = edit'[r]]
        BY <1>t, <3>2
      <4>2. edit'[r] = [kind |-> e.kind, step |-> e.step, change |-> e.change, paths |-> rest, read |-> e.read]
        BY <2>2, <4>1
      <4> QED
        BY <2>1, <2>2, <4>1, <4>2 DEF EditIsSound
    <3> QED
      BY <1>5, <3>1, <3>2 DEF SaveSources, f
  <2> QED
    BY <1>t, <2>1, <2>4, <2>5, <2>6, OneEditGoesOn
<1>6. ASSUME NEW r \in Editors, NEW knob \in {"min", "max"}, NEW value \in Chars, NEW paths \in SUBSET Profiles,
             UpdateThresholds(r, knob, value, paths)
      PROVE  SettingsInv'
  <2> DEFINE new == [kind |-> knob, step |-> "check", change |-> value, paths |-> paths, read |-> 0]
  <2>1. /\ edit' = [edit EXCEPT ![r] = new] /\ UNCHANGED <<listed, thresholds, chosen>>
    <3>1. edit' = [edit EXCEPT ![r] = Request(knob, "check", value, paths)]
          /\ UNCHANGED <<listed, thresholds, chosen>>
      BY <1>6 DEF UpdateThresholds, Goes, Request
    <3>2. Request(knob, "check", value, paths) = new
      BY RequestRecord
    <3> HIDE DEF new
    <3> QED
      BY <3>1, <3>2
  <2>p. paths # {}
    <3>1. paths = Profiles \/ \E f \in Profiles : paths = {f}
      BY <1>6 DEF UpdateThresholds, MirrorPaths
    <3> QED
      BY <3>1, <1>p
  <2>2. edit'[r] = new
    BY <1>t, <2>1
  <2>3. EditIsSound(r)'
    BY <1>p, <2>p, <2>2 DEF EditIsSound
  <2> QED
    BY <1>u, <2>1, <2>2, <2>3, OneEditGoesOn
<1>7. ASSUME NEW r \in Editors, NEW m \in ModelNames, NEW target \in Profiles, UpdateModels(r, m, target)
      PROVE  SettingsInv'
  <2> DEFINE new == [kind |-> "model", step |-> "edit", change |-> m, paths |-> {target}, read |-> 0]
  <2>1. /\ edit' = [edit EXCEPT ![r] = new] /\ UNCHANGED <<listed, thresholds>>
        /\ chosen' = [chosen EXCEPT ![target] = chosen[target] \cup {m}]
    <3>1. edit' = [edit EXCEPT ![r] = Request("model", "edit", m, {target})]
          /\ UNCHANGED <<listed, thresholds>> /\ chosen' = [chosen EXCEPT ![target] = chosen[target] \cup {m}]
      BY <1>7 DEF UpdateModels, Goes, Request
    <3>2. Request("model", "edit", m, {target}) = new
      BY RequestRecord
    <3> HIDE DEF new
    <3> QED
      BY <3>1, <3>2
  <2>2. edit'[r] = new /\ m \in chosen'[target] /\ (\A g \in Profiles : chosen[g] \subseteq chosen'[g])
        /\ chosen' = [g \in Profiles |-> chosen'[g]]
    BY <1>t, <2>1
  <2>3. EditIsSound(r)'
    BY <2>2 DEF EditIsSound
  <2>4. ProfilesKeepTheirOwn'
    BY <1>k, <2>1, <2>2 DEF ProfilesKeepTheirOwn, Distinct
  <2> QED
    BY <1>t, <2>1, <2>2, <2>3, <2>4, OneEditGoesOn
<1>8. ASSUME NEW r \in Editors, CheckPatch(r)
      PROVE  SettingsInv'
  <2>1. edit[r].step = "check" /\ UNCHANGED <<listed, thresholds, chosen>>
        /\ (edit' = [edit EXCEPT ![r].step = "edit"] \/ Settled(r))
    BY <1>8 DEF CheckPatch
  <2>2. CASE Settled(r)
    <3>1. edit' = [edit EXCEPT ![r] = NoEdit]
      BY <2>2 DEF Settled
    <3>2. edit'[r] = NoEdit
      BY <1>t, <3>1
    <3> QED
      BY <1>u, <2>1, <3>1, <3>2, NoEditIsSound, OneEditGoesOn
  <2>3. CASE edit' = [edit EXCEPT ![r].step = "edit"]
    <3> DEFINE e == edit[r]
    <3>1. EditIsSound(r)
      BY <1>t
    <3>2. edit'[r] = [e EXCEPT !.step = "edit"] /\ edit' = [edit EXCEPT ![r] = edit'[r]]
      BY <1>t, <2>3
    <3>3. edit'[r] = [kind |-> e.kind, step |-> "edit", change |-> e.change, paths |-> e.paths, read |-> e.read]
      BY <3>1, <3>2 DEF EditIsSound
    <3>4. EditIsSound(r)'
      BY <2>1, <3>1, <3>3 DEF EditIsSound
    <3> QED
      BY <1>u, <2>1, <3>2, <3>4, OneEditGoesOn
  <2> QED
    BY <2>1, <2>2, <2>3
<1>9. ASSUME NEW r \in Editors, EditLines(r)
      PROVE  SettingsInv'
  <2> DEFINE e == edit[r]
             f == NextPath(e.paths)
             lines == Edited(thresholds[f], e.kind, e.change)
  <2>1. e.step = "edit" /\ UNCHANGED <<listed, thresholds, chosen>>
        /\ edit' = [edit EXCEPT ![r].step = "replace", ![r].read = lines]
    BY <1>9 DEF EditLines
  <2>2. EditIsSound(r) /\ e.paths \subseteq Profiles /\ e.paths # {} /\ e.kind \in {"min", "max", "model"}
    BY <1>t, <2>1 DEF EditIsSound
  <2>3. f \in Profiles
    BY <2>2, NextPathIsOne
  <2>4. thresholds[f] \in Thresholds /\ thresholds[f].model \in chosen[f]
    BY <1>t, <1>k, <2>3
  <2>5. lines \in Thresholds /\ lines.model \in chosen[f]
    <3>1. CASE e.kind = "min"
      <4>1. lines = [thresholds[f] EXCEPT !.min = e.change] /\ e.change \in Nat
        BY <2>2, <3>1 DEF Edited, EditIsSound
      <4> HIDE DEF lines, f, e
      <4> QED
        BY <2>4, <4>1 DEF Thresholds
    <3>2. CASE e.kind = "max"
      <4>1. lines = [thresholds[f] EXCEPT !.max = e.change] /\ e.change \in Nat
        BY <2>2, <3>2 DEF Edited, EditIsSound
      <4> HIDE DEF lines, f, e
      <4> QED
        BY <2>4, <4>1 DEF Thresholds
    <3>3. CASE e.kind = "model"
      <4>1. lines = [thresholds[f] EXCEPT !.model = e.change] /\ e.change \in ModelNames
        BY <2>2, <3>3 DEF Edited, EditIsSound
      <4>2. PICK g \in Profiles : e.paths = {g} /\ e.change \in chosen[g]
        BY <2>2, <3>3 DEF EditIsSound
      <4>3. f = g
        BY <2>2, <4>2, NextPathIsOne
      <4> HIDE DEF lines, f, e
      <4> QED
        BY <2>4, <4>1, <4>2, <4>3 DEF Thresholds
    <3> QED
      BY <2>2, <3>1, <3>2, <3>3
  <2> HIDE DEF lines
  <2>6. edit'[r] = [e EXCEPT !.step = "replace", !.read = lines] /\ edit' = [edit EXCEPT ![r] = edit'[r]]
    BY <1>t, <2>1
  <2>7. edit'[r] = [kind |-> e.kind, step |-> "replace", change |-> e.change, paths |-> e.paths, read |-> lines]
    BY <2>2, <2>6 DEF EditIsSound
  <2>8. EditIsSound(r)'
    <3>1. e.kind \in {"min", "max"} => e.change \in Nat
      BY <2>2 DEF EditIsSound
    <3>2. e.kind = "model" => /\ e.change \in ModelNames
                              /\ \E g \in Profiles : e.paths = {g} /\ e.change \in chosen[g]
      BY <2>2 DEF EditIsSound
    <3>3. f = NextPath(e.paths)
      OBVIOUS
    <3>4. edit'[r].paths = e.paths
      BY <2>7
    <3>5. NextPath(edit'[r].paths) = f
      BY <3>3, <3>4, SamePath
    <3>6. (edit[r].step = "replace" => edit[r].read.model \in chosen[NextPath(edit[r].paths)])'
      <4>1. edit'[r].read.model \in chosen'[NextPath(edit'[r].paths)]
        BY <2>1, <2>5, <2>7, <3>5
      <4> QED
        BY <4>1 DEF NextPath
    <3>7. e.paths \subseteq Profiles /\ e.paths # {} /\ e.kind \in {"min", "max", "model"}
      BY <2>2
    <3> DEFINE after == edit'[r]
    <3>8. after = [kind |-> e.kind, step |-> "replace", change |-> e.change, paths |-> e.paths, read |-> lines]
      BY <2>7
    <3>9. /\ after = [kind |-> after.kind, step |-> after.step, change |-> after.change, paths |-> after.paths,
                      read |-> after.read]
          /\ after.kind = e.kind /\ after.step = "replace" /\ after.paths = e.paths /\ after.change = e.change
          /\ after.read = lines
      <4> HIDE DEF e, f, after
      <4> QED
        BY <3>8
    <3>10. chosen' = chosen
      BY <2>1
    <3> HIDE DEF e, f
    <3> QED
      BY <2>5, <3>1, <3>2, <3>6, <3>7, <3>9, <3>10 DEF EditIsSound, NextPath
  <2> QED
    BY <1>u, <2>1, <2>6, <2>8, OneEditGoesOn
<1>10. ASSUME NEW r \in Editors, RolesRefused(r)
       PROVE  SettingsInv'
  <2>1. edit' = [edit EXCEPT ![r] = NoEdit] /\ UNCHANGED <<listed, thresholds, chosen>>
    BY <1>10 DEF RolesRefused, Settled
  <2>2. edit'[r] = NoEdit
    BY <1>t, <2>1
  <2> QED
    BY <1>u, <2>1, <2>2, NoEditIsSound, OneEditGoesOn
<1>11. ASSUME NEW r \in Editors, AtomicWrite(r)
       PROVE  SettingsInv'
  <2> DEFINE e == edit[r]
             f == NextPath(e.paths)
             rest == e.paths \ {f}
  <2>1. /\ e.step = "replace" /\ thresholds' = [thresholds EXCEPT ![f] = e.read]
        /\ UNCHANGED <<listed, chosen>>
        /\ \/ Settled(r)
           \/ e.paths # {f} /\ edit' = [edit EXCEPT ![r].paths = rest, ![r].step = "check"]
    BY <1>11 DEF AtomicWrite
  <2>2. EditIsSound(r) /\ e.paths \subseteq Profiles /\ e.paths # {} /\ e.kind \in {"min", "max", "model"}
        /\ e.read \in Thresholds /\ e.read.model \in chosen[f]
    BY <1>t, <2>1 DEF EditIsSound
  <2>3. f \in Profiles /\ f \in e.paths
    BY <2>2, NextPathIsOne
  <2> HIDE DEF f
  <2>4. thresholds' \in [Profiles -> Thresholds] /\ \A g \in Profiles : thresholds'[g].model \in chosen[g]
    BY <1>t, <1>k, <2>1, <2>2, <2>3
  <2>5. ProfilesKeepTheirOwn'
    BY <1>k, <2>1, <2>4 DEF ProfilesKeepTheirOwn, Distinct
  <2>6. edit' = [edit EXCEPT ![r] = edit'[r]] /\ EditIsSound(r)'
    <3>1. CASE Settled(r)
      <4>1. edit' = [edit EXCEPT ![r] = NoEdit]
        BY <3>1 DEF Settled
      <4>2. edit'[r] = NoEdit
        BY <1>t, <4>1
      <4> QED
        BY <4>1, <4>2, NoEditIsSound
    <3>2. CASE e.paths # {f} /\ edit' = [edit EXCEPT ![r].paths = rest, ![r].step = "check"]
      <4>1. edit'[r] = [e EXCEPT !.paths = rest, !.step = "check"] /\ edit' = [edit EXCEPT ![r] = edit'[r]]
        BY <1>t, <3>2
      <4>2. edit'[r] = [kind |-> e.kind, step |-> "check", change |-> e.change, paths |-> rest, read |-> e.read]
        BY <2>2, <4>1 DEF EditIsSound
      <4>3. rest \subseteq Profiles /\ rest # {}
        BY <2>2, <2>3, <3>2
      <4>4. e.kind # "model"
        <5>1. SUFFICES ASSUME e.kind = "model" PROVE FALSE
          OBVIOUS
        <5>2. PICK g \in Profiles : e.paths = {g}
          BY <2>2, <5>1 DEF EditIsSound
        <5> QED
          BY <2>3, <3>2, <5>2
      <4>5. e.kind \in {"min", "max"} => e.change \in Nat
        BY <2>2 DEF EditIsSound
      <4> HIDE DEF rest
      <4> QED
        BY <2>2, <4>1, <4>2, <4>3, <4>4, <4>5 DEF EditIsSound
    <3> QED
      BY <2>1, <3>1, <3>2
  <2> QED
    BY <1>t, <2>1, <2>4, <2>5, <2>6, OneEditGoesOn
<1>12. CASE ConsoleKilled
  <2>1. edit' = [r \in Editors |-> NoEdit] /\ UNCHANGED <<listed, thresholds, chosen>>
    BY <1>12 DEF ConsoleKilled
  <2>2. \A r \in Editors : EditIsSound(r)'
    BY <2>1, NoEditIsSound
  <2> QED
    BY <1>u, <2>1, <2>2 DEF SettingsInv
<1> QED
  BY <1>1, <1>2, <1>3, <1>4, <1>5, <1>6, <1>7, <1>8, <1>9, <1>10, <1>11, <1>12 DEF SettingsNext

(***************************************************************************)
(* However many requests interleave and wherever the console dies: no two  *)
(* entries of a list share a name, and a profile's models were chosen for  *)
(* it (unique_name, save_thresholds, save_roles).                          *)
(***************************************************************************)
THEOREM ProfilesStayApart == SettingsSpec => []ProfilesKeepTheirOwn
<1>1. SettingsInit => SettingsInv
  <2> SUFFICES ASSUME SettingsInit PROVE SettingsInv
    OBVIOUS
  <2>1. PICK u \in Urls, n \in Stems : listed = [f \in Profiles |-> {[name |-> <<n, 1>>, url |-> u]}]
    BY DEF SettingsInit
  <2>2. PICK m \in [Profiles -> ModelNames], c \in Chars, d \in Chars :
           /\ thresholds = [f \in Profiles |-> [min |-> c, max |-> d, model |-> m[f]]]
           /\ chosen = [f \in Profiles |-> {m[f]}]
    BY DEF SettingsInit
  <2>3. thresholds \in [Profiles -> Thresholds]
    BY <2>2, SettingsAssumption DEF Thresholds
  <2>4. ProfilesKeepTheirOwn
    BY <2>1, <2>2 DEF ProfilesKeepTheirOwn
  <2>5. edit = [r \in Editors |-> NoEdit]
    BY DEF SettingsInit
  <2>6. \A r \in Editors : EditIsSound(r)
    BY <2>5 DEF EditIsSound, NoEdit
  <2> QED
    BY <2>1, <2>2, <2>3, <2>4, <2>5, <2>6 DEF SettingsInv
<1>2. SettingsInv /\ [SettingsNext]_settingsVars => SettingsInv'
  BY SettingsStep
<1>3. SettingsInv => ProfilesKeepTheirOwn
  BY DEF SettingsInv
<1> QED
  BY <1>1, <1>2, <1>3, PTL DEF SettingsSpec

-----------------------------------------------------------------------------
(* The opening of the archive: no row is lost                              *)

\* The builds that need a table in the shape of Break(t) or later; on either
\* side of it a later build makes do with what an earlier one created.
MakesDo(t, k) ==
    \A b, c \in 1..Builds :
        b <= c /\ (k <= b \/ c < k) => Declares[c][t] \subseteq Declares[b][t] \cup AddColumns[c][t]
BreaksOnce == \A t \in Tables \ DerivedTables : \E k \in 1..Builds + 1 : MakesDo(t, k)
Break(t) == CHOOSE k \in 1..Builds + 1 : MakesDo(t, k)

IsOpen(o) == opener[o].step # "closed"
Table(k, t) ==
    LET s == storage[k][t]
    IN  s = [there |-> s.there, columns |-> s.columns, rows |-> s.rows] /\ (s.there \/ s.rows = {})
\* What an opening has found of the table it is at is still so.
Opening(o) ==
    LET e == opener[o] IN
    /\ e = [step |-> e.step, build |-> e.build, left |-> e.left, table |-> e.table]
    /\ e.left \subseteq Tables
    /\ e.step # "closed" => e.build \in 1..deployed
    /\ e.step \in {"count", "drop", "clear", "rename"} => e.table \in Tables
    /\ \A t \in Tables : e.table = t =>
          /\ e.step \in {"count", "drop", "clear", "rename"} => Live(t).there /\ ~(Declares[e.build][t] \subseteq Live(t).columns \cup AddColumns[e.build][t])
          /\ e.step = "drop" => t \in DerivedTables \/ Live(t).rows = {}
          /\ e.step \in {"clear", "rename"} => t \notin DerivedTables
          /\ e.step = "rename" => Legacy(t).rows = {}
\* A table has the shape of a build no later than the one at work; and once
\* rows of it are set aside, of one after the break.
Built(t) ==
    /\ Live(t).there =>
          \E b \in 1..deployed :
              /\ Declares[b][t] \subseteq Live(t).columns
              /\ \A o \in Openers : IsOpen(o) => b <= opener[o].build
              /\ Legacy(t).rows # {} => Break(t) <= b
    /\ Legacy(t).rows # {} =>
          Break(t) <= deployed /\ \A o \in Openers : IsOpen(o) => Break(t) <= opener[o].build
RowIsThere(w) == w[1] \in Tables /\ (w[1] \in DerivedTables \/ w[2] \in Live(w[1]).rows \cup Legacy(w[1]).rows)

SchemaShapes ==
    /\ deployed \in 1..Builds
    /\ storage = [k \in Stores |-> [t \in Tables |-> storage[k][t]]]
    /\ \A k \in Stores, t \in Tables : Table(k, t)
    /\ opener = [o \in Openers |-> opener[o]]
    /\ \A o, p \in Openers : IsOpen(o) /\ IsOpen(p) => o = p
SchemaInv ==
    /\ SchemaShapes
    /\ \A o \in Openers : Opening(o)
    /\ \A t \in Tables \ DerivedTables : Built(t)
    /\ \A w \in written : RowIsThere(w)

LEMMA BreakFits ==
    ASSUME BreaksOnce, NEW t \in Tables \ DerivedTables
    PROVE  Break(t) \in Nat /\ MakesDo(t, Break(t))
BY SchemaAssumption DEF BreaksOnce, Break

\* A build that cannot use a table is after the break, and the table before it.
LEMMA MissingIsAcrossTheBreak ==
    ASSUME BreaksOnce, NEW t \in Tables \ DerivedTables, NEW b \in 1..Builds, NEW c \in 1..Builds, b <= c,
           NEW have, Declares[b][t] \subseteq have, ~(Declares[c][t] \subseteq have \cup AddColumns[c][t])
    PROVE  b < Break(t) /\ Break(t) <= c
<1>1. Break(t) \in Nat /\ MakesDo(t, Break(t))
  BY BreakFits
<1>2. ~(Declares[c][t] \subseteq Declares[b][t] \cup AddColumns[c][t])
  OBVIOUS
<1>3. ~(Break(t) <= b \/ c < Break(t))
  BY <1>1, <1>2 DEF MakesDo
<1> QED
  BY <1>1, <1>3, SchemaAssumption

LEMMA OneTableBecomes ==
    ASSUME SchemaShapes, NEW k \in Stores, NEW t \in Tables, NEW table, Becomes(k, t, table)
    PROVE  /\ storage' = [j \in Stores |-> [u \in Tables |-> storage'[j][u]]]
           /\ storage'[k][t] = table
           /\ \A j \in Stores, u \in Tables : j # k \/ u # t => storage'[j][u] = storage[j][u]
BY DEF SchemaShapes, Becomes

\* What is to be shown of an opening that has found nothing out, and of one
\* that has.
LEMMA NothingFound ==
    ASSUME NEW o \in Openers,
           opener'[o] = [step |-> opener'[o].step, build |-> opener'[o].build, left |-> opener'[o].left,
                         table |-> opener'[o].table],
           opener'[o].step \notin {"count", "drop", "clear", "rename"}, opener'[o].left \subseteq Tables,
           opener'[o].step # "closed" => opener'[o].build \in 1..deployed'
    PROVE  Opening(o)'
BY DEF Opening

LEMMA TableFound ==
    ASSUME NEW o \in Openers, NEW t \in Tables,
           opener'[o] = [step |-> opener'[o].step, build |-> opener'[o].build, left |-> opener'[o].left,
                         table |-> t],
           opener'[o].left \subseteq Tables, opener'[o].build \in 1..deployed', Live(t)'.there,
           ~(Declares[opener'[o].build][t] \subseteq Live(t)'.columns \cup AddColumns[opener'[o].build][t]),
           opener'[o].step = "drop" => t \in DerivedTables \/ Live(t)'.rows = {},
           opener'[o].step \in {"clear", "rename"} => t \notin DerivedTables,
           opener'[o].step = "rename" => Legacy(t)'.rows = {}
    PROVE  Opening(o)'
<1>1. PICK e : e = opener'[o]
  OBVIOUS
<1>2. e = [step |-> e.step, build |-> e.build, left |-> e.left, table |-> t]
  BY <1>1
<1>3. e.table = t
  BY <1>2
<1> QED
  BY <1>1, <1>2, <1>3 DEF Opening

LEMMA TableGains ==
    ASSUME NEW r, r = [there |-> r.there, columns |-> r.columns, rows |-> r.rows], NEW c
    PROVE  /\ [r EXCEPT !.columns = c] = [there |-> r.there, columns |-> c, rows |-> r.rows]
           /\ [r EXCEPT !.rows = c] = [there |-> r.there, columns |-> r.columns, rows |-> c]
OBVIOUS

LEMMA OpeningMoves ==
    ASSUME NEW e, e = [step |-> e.step, build |-> e.build, left |-> e.left, table |-> e.table],
           NEW step, NEW left, NEW table, NEW r, r = [e EXCEPT !.left = left, !.table = table, !.step = step]
    PROVE  r = [step |-> step, build |-> e.build, left |-> left, table |-> table]
OBVIOUS

LEMMA OpeningBegins ==
    ASSUME NEW e, e = [step |-> e.step, build |-> e.build, left |-> e.left, table |-> e.table],
           NEW step, NEW left, NEW r, r = [e EXCEPT !.step = step, !.left = left]
    PROVE  r = [step |-> step, build |-> e.build, left |-> left, table |-> e.table]
OBVIOUS

LEMMA OpeningShortens ==
    ASSUME NEW e, e = [step |-> e.step, build |-> e.build, left |-> e.left, table |-> e.table], NEW left
    PROVE  [e EXCEPT !.left = left] = [step |-> e.step, build |-> e.build, left |-> left, table |-> e.table]
OBVIOUS

LEMMA NextStep ==
    ASSUME SchemaInv, NEW o \in Openers, NEW step, To(o, step)
    PROVE  /\ opener'[o] = [step |-> step, build |-> opener[o].build, left |-> opener[o].left,
                            table |-> opener[o].table]
           /\ opener' = [opener EXCEPT ![o] = opener'[o]]
<1>1. PICK e : e = opener[o]
  OBVIOUS
<1>2. e = [step |-> e.step, build |-> e.build, left |-> e.left, table |-> e.table]
  BY <1>1 DEF SchemaInv, Opening
<1>3. [e EXCEPT !.step = step] = [step |-> step, build |-> e.build, left |-> e.left, table |-> e.table]
  BY <1>2
<1>4. opener'[o] = [e EXCEPT !.step = step] /\ opener' = [opener EXCEPT ![o] = opener'[o]]
  BY <1>1 DEF To, SchemaInv, SchemaShapes
<1> QED
  BY <1>1, <1>3, <1>4

\* An opening that goes on, in an archive that is as it was.
LEMMA OpeningGoesOn ==
    ASSUME SchemaInv, NEW o \in Openers, NEW new, opener' = [opener EXCEPT ![o] = new],
           UNCHANGED <<storage, deployed, written>>, Opening(o)', IsOpen(o)' => IsOpen(o),
           IsOpen(o)' => opener'[o].build = opener[o].build
    PROVE  SchemaInv'
<1>1. opener' = [p \in Openers |-> opener'[p]] /\ \A p \in Openers \ {o} : opener'[p] = opener[p]
  BY DEF SchemaInv, SchemaShapes
<1>2. SchemaShapes'
  BY <1>1 DEF SchemaInv, SchemaShapes, Table, IsOpen
<1>3. ASSUME NEW p \in Openers
      PROVE  Opening(p)'
  <2>1. CASE p = o
    <3> QED
      BY <2>1
  <2>2. CASE p # o
    <3>1. PICK e : e = opener[p] /\ e = opener'[p]
      BY <1>1, <2>2
    <3>2. \A t \in Tables : Live(t)' = Live(t) /\ Legacy(t)' = Legacy(t)
      BY DEF Live, Legacy
    <3>3. Opening(p)
      BY DEF SchemaInv
    <3> QED
      BY <3>1, <3>2, <3>3 DEF Opening
  <2> QED
    BY <2>1, <2>2
<1>4. \A p \in Openers : IsOpen(p)' => IsOpen(p) /\ opener'[p].build = opener[p].build
  BY <1>1 DEF IsOpen
<1>5. ASSUME NEW t \in Tables \ DerivedTables
      PROVE  Built(t)'
  <2>1. Built(t)
    BY DEF SchemaInv
  <2>2. Live(t)' = Live(t) /\ Legacy(t)' = Legacy(t)
    BY DEF Live, Legacy
  <2> QED
    BY <2>1, <2>2, <1>4 DEF Built
<1>6. \A w \in written' : RowIsThere(w)'
  BY DEF SchemaInv, RowIsThere, Live, Legacy
<1> QED
  BY <1>2, <1>3, <1>5, <1>6 DEF SchemaInv

LEMMA ClosingIsSound ==
    ASSUME SchemaInv, NEW o \in Openers, SchemaError(o), UNCHANGED <<storage, deployed, written>>
    PROVE  SchemaInv'
<1>1. opener'[o] = NoOpening
  BY DEF SchemaError, SchemaInv, SchemaShapes
<1>2. Opening(o)' /\ ~IsOpen(o)'
  BY <1>1, NothingFound DEF IsOpen, NoOpening
<1> QED
  BY <1>2, OpeningGoesOn DEF SchemaError

LEMMA StepIsSound ==
    ASSUME SchemaInv, NEW o \in Openers, NEW step \in {"reconcile", "create", "open", "drop", "clear", "rename"},
           IsOpen(o), To(o, step), UNCHANGED <<storage, deployed, written>>, Opening(o)'
    PROVE  SchemaInv'
<1>1. opener' = [opener EXCEPT ![o] = opener'[o]]
  BY NextStep
<1>2. opener'[o].build = opener[o].build
  <2>1. PICK e : e = opener[o]
    OBVIOUS
  <2>2. opener'[o] = [step |-> step, build |-> e.build, left |-> e.left, table |-> e.table]
    BY <2>1, NextStep
  <2> QED
    BY <2>1, <2>2
<1> QED
  BY <1>1, <1>2, OpeningGoesOn

\* The only one at work changes the tables.
LEMMA TablesAreReshaped ==
    ASSUME BreaksOnce, SchemaInv, NEW o \in Openers, IsOpen(o), UNCHANGED deployed,
           storage' = [k \in Stores |-> [t \in Tables |-> storage'[k][t]]],
           \A k \in Stores, t \in Tables : Table(k, t)',
           opener' = [opener EXCEPT ![o] = opener'[o]],
           IsOpen(o)' => opener'[o].build = opener[o].build, Opening(o)',
           \A t \in Tables \ DerivedTables : Live(t)'.there =>
               \/ \E b \in 1..deployed : /\ Declares[b][t] \subseteq Live(t)'.columns /\ b <= opener[o].build
                                         /\ Legacy(t)'.rows # {} => Break(t) <= b,
           \A t \in Tables \ DerivedTables : Legacy(t)'.rows # {} => Break(t) <= opener[o].build,
           \A w \in written' : RowIsThere(w)'
    PROVE  SchemaInv'
<1>1. opener' = [p \in Openers |-> opener'[p]] /\ \A p \in Openers \ {o} : opener'[p] = opener[p] /\ ~IsOpen(p)
  BY DEF SchemaInv, SchemaShapes
<1>2. \A p \in Openers \ {o} : ~IsOpen(p)'
  BY <1>1 DEF IsOpen
<1>3. SchemaShapes'
  BY <1>1, <1>2 DEF SchemaInv, SchemaShapes
<1>4. ASSUME NEW p \in Openers \ {o}
      PROVE  Opening(p)'
  <2>1. opener'[p] = opener[p] /\ opener[p].step = "closed" /\ Opening(p)
    BY <1>1 DEF IsOpen, SchemaInv
  <2> QED
    BY <2>1 DEF Opening
<1>5. opener[o].build \in 1..deployed /\ deployed \in 1..Builds /\ Builds \in Nat
  BY SchemaAssumption DEF SchemaInv, SchemaShapes, Opening, IsOpen
<1>6. ASSUME NEW t \in Tables \ DerivedTables
      PROVE  Built(t)'
  <2>1. ASSUME Legacy(t)'.rows # {}
        PROVE  Break(t) <= deployed' /\ \A p \in Openers : IsOpen(p)' => Break(t) <= opener'[p].build
    <3>1. Break(t) <= opener[o].build
      BY <2>1
    <3>2. Break(t) \in Nat
      BY BreakFits
    <3> QED
      BY <3>1, <3>2, <1>2, <1>5
  <2> QED
    BY <2>1, <1>2 DEF Built
<1> QED
  BY <1>3, <1>4, <1>6 DEF SchemaInv

LEMMA SchemaStep ==
    ASSUME BreaksOnce, ~Together, SchemaInv, [SchemaNext]_schemaVars
    PROVE  SchemaInv'
<1>t. /\ SchemaShapes /\ \A o \in Openers : Opening(o)
      /\ \A t \in Tables \ DerivedTables : Built(t)
      /\ \A w \in written : RowIsThere(w)
  BY DEF SchemaInv
<1>s. \A o \in Openers : opener[o] = [step |-> opener[o].step, build |-> opener[o].build,
                                    left |-> opener[o].left, table |-> opener[o].table]
  BY <1>t DEF Opening
<1>l. \A k \in Stores, t \in Tables : storage[k][t] = [there |-> storage[k][t].there, columns |-> storage[k][t].columns,
                                                    rows |-> storage[k][t].rows]
  BY <1>t DEF SchemaShapes, Table
<1>b. Builds \in Nat /\ deployed \in 1..Builds /\ \A o \in Openers : IsOpen(o) => opener[o].build \in 1..deployed
  BY <1>t, SchemaAssumption DEF SchemaShapes, Opening, IsOpen
\* What an opening may set aside: only rows of before the break, and once.
<1>a. ASSUME NEW o \in Openers, opener[o].step \in {"count", "clear", "rename"},
             opener[o].table \notin DerivedTables
      PROVE  LET t == opener[o].table
             IN  t \in Tables \ DerivedTables /\ Legacy(t).rows = {} /\ Break(t) <= opener[o].build
  <2> PICK e : e = opener[o]
    OBVIOUS
  <2> DEFINE t == e.table
  <2>1. t \in Tables \ DerivedTables /\ Live(t).there
        /\ ~(Declares[e.build][t] \subseteq Live(t).columns \cup AddColumns[e.build][t])
    BY <1>t, <1>a DEF Opening
  <2>2. IsOpen(o)
    BY <1>a DEF IsOpen
  <2>3. PICK b \in 1..deployed : /\ Declares[b][t] \subseteq Live(t).columns /\ b <= e.build
                                 /\ Legacy(t).rows # {} => Break(t) <= b
    BY <1>t, <2>1, <2>2 DEF Built
  <2>4. b < Break(t) /\ Break(t) <= e.build
    BY <1>b, <2>1, <2>2, <2>3, MissingIsAcrossTheBreak
  <2>5. Break(t) \in Nat
    BY <2>1, BreakFits
  <2> QED
    BY <1>b, <2>1, <2>3, <2>4, <2>5
<1>u. ASSUME NEW o \in Openers, IsOpen(o), NEW u \in Tables \ DerivedTables
      PROVE  /\ Live(u).there =>
                   \E b \in 1..deployed : /\ Declares[b][u] \subseteq Live(u).columns /\ b <= opener[o].build
                                          /\ Legacy(u).rows # {} => Break(u) <= b
             /\ Legacy(u).rows # {} => Break(u) <= opener[o].build
  BY <1>t, <1>u DEF Built
<1>1. CASE UNCHANGED schemaVars
  <2>1. UNCHANGED <<storage, version, opener, deployed, tally, written>>
    BY <1>1 DEF schemaVars
  <2>2. SchemaShapes'
    BY <1>t, <2>1 DEF SchemaShapes, Table, IsOpen
  <2>3. ASSUME NEW o \in Openers
        PROVE  Opening(o)'
    <3>1. Opening(o) /\ opener'[o] = opener[o]
      BY <1>t, <2>1
    <3> QED
      BY <2>1, <3>1 DEF Opening, Live, Legacy
  <2>4. \A t \in Tables \ DerivedTables : Built(t)'
    BY <1>t, <2>1 DEF Built, Live, Legacy, IsOpen
  <2> QED
    BY <1>t, <2>1, <2>2, <2>3, <2>4 DEF SchemaInv, RowIsThere, Live, Legacy
<1>2. CASE Deploy
  <2>1. deployed' = deployed + 1 /\ deployed < Builds /\ UNCHANGED <<storage, version, opener, written>>
    BY <1>2 DEF Deploy
  <2>2. SchemaShapes'
    BY <1>b, <1>t, <2>1 DEF SchemaShapes, Table, IsOpen
  <2>3. ASSUME NEW o \in Openers
        PROVE  Opening(o)'
    <3>1. Opening(o) /\ opener'[o] = opener[o] /\ 1..deployed \subseteq 1..deployed'
      BY <1>b, <1>t, <2>1
    <3> QED
      BY <2>1, <3>1 DEF Opening, Live, Legacy
  <2>4. ASSUME NEW t \in Tables \ DerivedTables
        PROVE  Built(t)'
    <3>1. Built(t) /\ Break(t) \in Nat
      BY <1>t, BreakFits
    <3>2. Live(t)' = Live(t) /\ Legacy(t)' = Legacy(t) /\ \A o \in Openers : IsOpen(o)' <=> IsOpen(o)
      BY <2>1 DEF Live, Legacy, IsOpen
    <3>3. 1..deployed \subseteq 1..deployed' /\ deployed <= deployed'
      BY <1>b, <2>1
    <3>4. Break(t) <= deployed => Break(t) <= deployed'
      BY <1>b, <3>1, <2>1
    <3> QED
      BY <2>1, <3>1, <3>2, <3>3, <3>4 DEF Built
  <2> QED
    BY <1>t, <2>1, <2>2, <2>3, <2>4 DEF SchemaInv, RowIsThere, Live, Legacy
<1>3. ASSUME NEW o \in Openers, NEW migrate \in BOOLEAN, OpenDb(o, migrate)
      PROVE  SchemaInv'
  <2> DEFINE way == IF migrate \/ ~HasSchema THEN "reconcile" ELSE "open"
             new == [step |-> way, build |-> deployed, left |-> Tables, table |-> "none"]
  <2>1. /\ \A p \in Openers : ~IsOpen(p)
        /\ opener' = [opener EXCEPT ![o] = new] /\ UNCHANGED <<storage, version, deployed, written>>
    BY <1>3 DEF OpenDb, At, IsOpen
  <2>w. way \in {"reconcile", "open"}
    OBVIOUS
  <2> HIDE DEF way
  <2>2. /\ opener' = [p \in Openers |-> opener'[p]] /\ opener'[o] = new
        /\ \A p \in Openers \ {o} : opener'[p] = opener[p] /\ ~IsOpen(p)'
    BY <1>t, <2>1 DEF SchemaShapes, IsOpen
  <2>3. SchemaShapes'
    BY <1>t, <2>1, <2>2 DEF SchemaShapes, Table, IsOpen
  <2>4. Opening(o)'
    BY <1>b, <2>1, <2>2, <2>w, NothingFound
  <2>5. ASSUME NEW p \in Openers \ {o}
        PROVE  Opening(p)'
    <3>1. Opening(p) /\ opener'[p] = opener[p] /\ opener[p].step = "closed"
      BY <1>t, <2>1, <2>2 DEF IsOpen
    <3> QED
      BY <3>1 DEF Opening
  <2>6. ASSUME NEW t \in Tables \ DerivedTables
        PROVE  Built(t)'
    <3>1. Built(t) /\ Live(t)' = Live(t) /\ Legacy(t)' = Legacy(t)
      BY <1>t, <2>1 DEF Live, Legacy
    <3>2. opener'[o].build = deployed
      BY <2>2
    <3>3. \A b \in 1..deployed, p \in Openers : IsOpen(p)' => b <= opener'[p].build
      BY <1>b, <2>2, <3>2
    <3>4. \A p \in Openers : IsOpen(p)' => opener'[p].build = deployed
      BY <2>2, <3>2
    <3> QED
      BY <2>1, <3>1, <3>3, <3>4 DEF Built
  <2> QED
    BY <1>t, <2>1, <2>3, <2>4, <2>5, <2>6 DEF SchemaInv, RowIsThere, Live, Legacy
<1>4. ASSUME NEW o \in Openers, NEW t \in Tables, ReadShape(o, t)
      PROVE  SchemaInv'
  <2> PICK e : e = opener[o]
    OBVIOUS
  <2> DEFINE way == IF Live(t).there /\ Missing(e.build, t, Live(t).columns) # {} THEN "count" ELSE "reconcile"
             rest == e.left \ {t}
  <2>1. /\ e.step = "reconcile" /\ opener' = [opener EXCEPT ![o].left = rest, ![o].table = t, ![o].step = way]
        /\ UNCHANGED <<storage, deployed, written>>
    BY <1>4 DEF ReadShape, At, Untouched
  <2>2. \/ way = "reconcile"
        \/ /\ way = "count" /\ Live(t).there
           /\ ~(Declares[e.build][t] \subseteq Live(t).columns \cup AddColumns[e.build][t])
    BY DEF Missing
  <2> HIDE DEF way
  <2>3. opener'[o] = [e EXCEPT !.left = rest, !.table = t, !.step = way] /\ opener' = [opener EXCEPT ![o] = opener'[o]]
    BY <1>t, <2>1 DEF SchemaShapes
  <2>4. opener'[o] = [step |-> way, build |-> e.build, left |-> rest, table |-> t]
    BY <1>s, <2>3, OpeningMoves
  <2>7. opener'[o].step = way /\ opener'[o].build = e.build /\ opener'[o].left = rest /\ opener'[o].table = t
    BY <2>4
  <2>5. e.build \in 1..deployed /\ rest \subseteq Tables
    BY <1>t, <2>1 DEF Opening
  <2>6. Opening(o)' /\ IsOpen(o)
    <3>1. CASE way = "reconcile"
      BY <2>1, <2>4, <2>5, <2>7, <3>1, NothingFound DEF IsOpen
    <3>2. CASE way = "count"
      <4>1. Live(t)' = Live(t)
        BY <2>1 DEF Live
      <4> QED
        BY <2>1, <2>2, <2>4, <2>5, <2>7, <3>2, <4>1, TableFound DEF IsOpen
    <3> QED
      BY <2>2, <3>1, <3>2
  <2> QED
    BY <2>1, <2>3, <2>6, <2>7, OpeningGoesOn
<1>5. ASSUME NEW o \in Openers, CountRows(o)
      PROVE  SchemaInv'
  <2>1. opener[o].step = "count" /\ UNCHANGED <<storage, deployed, written>>
    BY <1>5 DEF CountRows, At, Untouched
  <2>2. CASE SchemaError(o)
    BY <2>1, <2>2, ClosingIsSound
  <2>3. ASSUME NEW way \in {"drop", "clear"}, To(o, way), way = "drop" <=> Expendable(opener[o].table)
        PROVE  SchemaInv'
    <3> PICK e : e = opener[o]
      OBVIOUS
    <3> DEFINE t == e.table
    <3>2. opener'[o] = [step |-> way, build |-> e.build, left |-> e.left, table |-> t]
      BY <2>3, NextStep
    <3>3. /\ e.left \subseteq Tables /\ e.build \in 1..deployed /\ t \in Tables /\ Live(t).there
          /\ ~(Declares[e.build][t] \subseteq Live(t).columns \cup AddColumns[e.build][t])
      BY <1>t, <2>1 DEF Opening
    <3>4. /\ way = "clear" => t \notin DerivedTables
          /\ way = "drop" => t \in DerivedTables \/ Live(t).rows = {}
      BY <2>3 DEF Expendable
    <3>6. Live(t)' = Live(t)
      BY <2>1 DEF Live
    <3>5. Opening(o)'
      BY <2>1, <3>2, <3>3, <3>4, <3>6, TableFound
    <3> QED
      BY <2>1, <2>3, <3>5, StepIsSound DEF IsOpen
  <2> QED
    BY <1>5, <2>2, <2>3 DEF CountRows
<1>6. ASSUME NEW o \in Openers, DropTable(o)
      PROVE  SchemaInv'
  <2> PICK e : e = opener[o]
    OBVIOUS
  <2> DEFINE t == e.table
  <2>1. e.step = "drop" /\ UNCHANGED <<deployed, written>>
    BY <1>6 DEF DropTable, At, Untouched
  <2>2. CASE SchemaError(o) /\ UNCHANGED storage
    BY <2>1, <2>2, ClosingIsSound
  <2>3. CASE Becomes("live", t, NoTable) /\ To(o, "reconcile")
    <3>1. t \in Tables /\ (t \in DerivedTables \/ Live(t).rows = {}) /\ Opening(o)
      BY <1>t, <2>1 DEF Opening
    <3>2. /\ storage' = [j \in Stores |-> [u \in Tables |-> storage'[j][u]]]
          /\ storage'["live"][t] = NoTable
          /\ \A j \in Stores, u \in Tables : j # "live" \/ u # t => storage'[j][u] = storage[j][u]
      BY <1>t, <2>3, <3>1, OneTableBecomes DEF Stores
    <3>3. opener'[o] = [step |-> "reconcile", build |-> e.build, left |-> e.left, table |-> e.table]
          /\ opener' = [opener EXCEPT ![o] = opener'[o]]
      BY <2>3, NextStep
    <3>4. Opening(o)' /\ IsOpen(o)
      <4>1. e.left \subseteq Tables /\ e.build \in 1..deployed
        BY <2>1, <3>1 DEF Opening
      <4> QED
        BY <2>1, <3>3, <4>1, NothingFound DEF IsOpen
    <3>5. \A j \in Stores, u \in Tables : Table(j, u)'
      <4>1. Table("live", t)'
        BY <3>2 DEF Table, NoTable
      <4> QED
        BY <1>t, <3>2, <4>1 DEF SchemaShapes, Table
    <3>6. Live(t)' = NoTable /\ (\A u \in Tables : Legacy(u)' = Legacy(u)) /\ (\A u \in Tables \ {t} : Live(u)' = Live(u))
      BY <3>2 DEF Live, Legacy, Stores
    <3>7. \A w \in written' : RowIsThere(w)'
      BY <1>t, <2>1, <3>1, <3>6 DEF RowIsThere
    <3>8. \A u \in Tables \ DerivedTables : Live(u)'.there =>
               \/ \E b \in 1..deployed : /\ Declares[b][u] \subseteq Live(u)'.columns /\ b <= opener[o].build
                                         /\ Legacy(u)'.rows # {} => Break(u) <= b
      BY <1>u, <3>4, <3>6 DEF NoTable
    <3>9. \A u \in Tables \ DerivedTables : Legacy(u)'.rows # {} => Break(u) <= opener[o].build
      BY <1>u, <3>4, <3>6
    <3> QED
      BY <2>1, <3>2, <3>3, <3>4, <3>5, <3>7, <3>8, <3>9, TablesAreReshaped
  <2> QED
    BY <1>6, <2>2, <2>3 DEF DropTable
<1>7. ASSUME NEW o \in Openers, DropLegacy(o)
      PROVE  SchemaInv'
  <2> PICK e : e = opener[o]
    OBVIOUS
  <2> DEFINE t == e.table
  <2>1. e.step = "clear" /\ UNCHANGED <<deployed, written>> /\ Becomes("legacy", t, NoTable) /\ To(o, "rename")
    BY <1>7 DEF DropLegacy, At, Untouched
  <2>2. /\ t \in Tables \ DerivedTables /\ Live(t).there /\ Opening(o)
        /\ Legacy(t).rows = {}
    BY <1>t, <1>a, <2>1 DEF Opening
  <2>3. /\ storage' = [j \in Stores |-> [u \in Tables |-> storage'[j][u]]]
        /\ storage'["legacy"][t] = NoTable
        /\ \A j \in Stores, u \in Tables : j # "legacy" \/ u # t => storage'[j][u] = storage[j][u]
    BY <1>t, <2>1, <2>2, OneTableBecomes DEF Stores
  <2>4. opener'[o] = [step |-> "rename", build |-> e.build, left |-> e.left, table |-> e.table]
        /\ opener' = [opener EXCEPT ![o] = opener'[o]]
    BY <2>1, NextStep
  <2>5. Legacy(t)' = NoTable /\ (\A u \in Tables : Live(u)' = Live(u)) /\ (\A u \in Tables \ {t} : Legacy(u)' = Legacy(u))
    BY <2>2, <2>3 DEF Live, Legacy, Stores
  <2>6. Opening(o)' /\ IsOpen(o)
    <3>1. e.left \subseteq Tables /\ e.build \in 1..deployed
      BY <2>1, <2>2 DEF Opening
    <3>2. Legacy(t)'.rows = {} /\ Live(t)' = Live(t)
      BY <2>2, <2>5 DEF NoTable
    <3>3. ~(Declares[e.build][t] \subseteq Live(t).columns \cup AddColumns[e.build][t])
      BY <1>t, <2>1, <2>2 DEF Opening
    <3> QED
      BY <2>1, <2>2, <2>4, <3>1, <3>2, <3>3, TableFound DEF IsOpen
  <2>7. \A j \in Stores, u \in Tables : Table(j, u)'
    <3>1. Table("legacy", t)'
      BY <2>3 DEF Table, NoTable
    <3> QED
      BY <1>t, <2>3, <3>1 DEF SchemaShapes, Table
  <2>8. \A w \in written' : RowIsThere(w)'
    BY <1>t, <2>1, <2>2, <2>5 DEF RowIsThere
  <2>9. \A u \in Tables \ DerivedTables : Live(u)'.there =>
             \/ \E b \in 1..deployed : /\ Declares[b][u] \subseteq Live(u)'.columns /\ b <= opener[o].build
                                       /\ Legacy(u)'.rows # {} => Break(u) <= b
    BY <1>u, <2>5, <2>6 DEF NoTable
  <2>10. \A u \in Tables \ DerivedTables : Legacy(u)'.rows # {} => Break(u) <= opener[o].build
    BY <1>u, <2>5, <2>6 DEF NoTable
  <2> QED
    BY <2>1, <2>3, <2>4, <2>6, <2>7, <2>8, <2>9, <2>10, TablesAreReshaped
<1>8. ASSUME NEW o \in Openers, RenameTable(o)
      PROVE  SchemaInv'
  <2> PICK e : e = opener[o]
    OBVIOUS
  <2> DEFINE t == e.table
  <2>1. e.step = "rename" /\ UNCHANGED <<deployed, written>>
    BY <1>8 DEF RenameTable, At, Untouched
  <2>2. CASE SchemaError(o) /\ UNCHANGED storage
    BY <2>1, <2>2, ClosingIsSound
  <2>3. CASE /\ storage' = [storage EXCEPT !["legacy"][t] = Live(t), !["live"][t] = NoTable]
             /\ To(o, "reconcile")
    <3>1. t \in Tables \ DerivedTables /\ Legacy(t).rows = {} /\ Break(t) <= e.build /\ Opening(o)
      BY <1>t, <1>a, <2>1 DEF Opening
    <3>2. /\ storage' = [j \in Stores |-> [u \in Tables |-> storage'[j][u]]]
          /\ storage'["live"][t] = NoTable /\ storage'["legacy"][t] = storage["live"][t]
          /\ \A j \in Stores, u \in Tables : u # t => storage'[j][u] = storage[j][u]
      BY <1>t, <2>3, <3>1 DEF SchemaShapes, Stores, Live
    <3>3. opener'[o] = [step |-> "reconcile", build |-> e.build, left |-> e.left, table |-> e.table]
          /\ opener' = [opener EXCEPT ![o] = opener'[o]]
      BY <2>3, NextStep
    <3>4. Opening(o)' /\ IsOpen(o)
      <4>1. e.left \subseteq Tables /\ e.build \in 1..deployed
        BY <2>1, <3>1 DEF Opening
      <4> QED
        BY <2>1, <3>3, <4>1, NothingFound DEF IsOpen
    <3>5. \A j \in Stores, u \in Tables : Table(j, u)'
      <4>1. Table("live", t)'
        BY <3>2 DEF Table, NoTable
      <4>2. Table("legacy", t)'
        BY <1>t, <3>1, <3>2 DEF SchemaShapes, Table, Stores
      <4> QED
        BY <1>t, <3>2, <4>1, <4>2 DEF SchemaShapes, Table, Stores
    <3>6. /\ Live(t)' = NoTable /\ Legacy(t)' = Live(t)
          /\ \A u \in Tables \ {t} : Live(u)' = Live(u) /\ Legacy(u)' = Legacy(u)
      BY <3>2 DEF Live, Legacy, Stores
    <3>7. \A w \in written' : RowIsThere(w)'
      BY <1>t, <2>1, <3>1, <3>6 DEF RowIsThere
    <3>8. \A u \in Tables \ DerivedTables : Live(u)'.there =>
               \/ \E b \in 1..deployed : /\ Declares[b][u] \subseteq Live(u)'.columns /\ b <= opener[o].build
                                         /\ Legacy(u)'.rows # {} => Break(u) <= b
      BY <1>u, <3>4, <3>6 DEF NoTable
    <3>9. \A u \in Tables \ DerivedTables : Legacy(u)'.rows # {} => Break(u) <= opener[o].build
      BY <1>u, <3>1, <3>4, <3>6
    <3> QED
      BY <2>1, <3>2, <3>3, <3>4, <3>5, <3>7, <3>8, <3>9, TablesAreReshaped
  <2> QED
    BY <1>8, <2>2, <2>3 DEF RenameTable
<1>9. ASSUME NEW o \in Openers, SweepDerived(o)
      PROVE  SchemaInv'
  <2> PICK e : e = opener[o]
    OBVIOUS
  <2>1. e.step = "reconcile" /\ UNCHANGED <<deployed, written>>
        /\ opener' = [opener EXCEPT ![o].step = "create", ![o].left = Tables]
        /\ storage' = [storage EXCEPT !["legacy"] =
                   [t \in Tables |-> IF t \in DerivedTables THEN NoTable ELSE storage["legacy"][t]]]
    BY <1>9 DEF SweepDerived, At, Untouched
  <2>2. opener'[o] = [e EXCEPT !.step = "create", !.left = Tables] /\ opener' = [opener EXCEPT ![o] = opener'[o]]
    BY <1>t, <2>1 DEF SchemaShapes
  <2>3. opener'[o] = [step |-> "create", build |-> e.build, left |-> Tables, table |-> e.table]
    BY <1>s, <2>2, OpeningBegins
  <2>4. Opening(o)' /\ IsOpen(o)
    <3>1. e.build \in 1..deployed'
      BY <1>b, <2>1 DEF IsOpen
    <3>2. /\ opener'[o].step = "create" /\ opener'[o].left = Tables
          /\ opener'[o].build = e.build /\ opener'[o].table = e.table
      BY <2>3
    <3> QED
      BY <2>1, <2>3, <3>1, <3>2, NothingFound DEF IsOpen
  <2>5. /\ storage' = [j \in Stores |-> [u \in Tables |-> storage'[j][u]]]
        /\ \A u \in Tables : storage'["live"][u] = storage["live"][u]
        /\ \A u \in Tables \ DerivedTables : storage'["legacy"][u] = storage["legacy"][u]
        /\ \A u \in Tables \cap DerivedTables : storage'["legacy"][u] = NoTable
    BY <1>t, <2>1 DEF SchemaShapes, Stores
  <2>6. \A j \in Stores, u \in Tables : Table(j, u)'
    <3>1. ASSUME NEW u \in Tables \cap DerivedTables
          PROVE  Table("legacy", u)'
      BY <2>5 DEF Table, NoTable
    <3> QED
      BY <1>t, <2>5, <3>1 DEF SchemaShapes, Table, Stores
  <2>7. \A u \in Tables \ DerivedTables : Live(u)' = Live(u) /\ Legacy(u)' = Legacy(u)
    BY <2>5 DEF Live, Legacy
  <2>8. \A w \in written' : RowIsThere(w)'
    BY <1>t, <2>1, <2>7 DEF RowIsThere
  <2>9. \A u \in Tables \ DerivedTables : Live(u)'.there =>
             \/ \E b \in 1..deployed : /\ Declares[b][u] \subseteq Live(u)'.columns /\ b <= opener[o].build
                                       /\ Legacy(u)'.rows # {} => Break(u) <= b
    BY <1>u, <2>4, <2>7
  <2>10. \A u \in Tables \ DerivedTables : Legacy(u)'.rows # {} => Break(u) <= opener[o].build
    BY <1>u, <2>4, <2>7
  <2>11. opener'[o].build = opener[o].build
    BY <2>3
  <2> QED
    BY <2>1, <2>2, <2>4, <2>5, <2>6, <2>8, <2>9, <2>10, <2>11, TablesAreReshaped
<1>10. ASSUME NEW o \in Openers, NEW t \in Tables, CreateTable(o, t)
       PROVE  SchemaInv'
  <2> PICK e : e = opener[o]
    OBVIOUS
  <2> DEFINE own == e.build
             base == IF Live(t).there THEN Live(t) ELSE [there |-> TRUE, columns |-> Declares[own][t], rows |-> {}]
             made == [base EXCEPT !.columns = base.columns \cup AddColumns[own][t]]
  <2>1. e.step = "create" /\ t \in e.left /\ UNCHANGED <<deployed, written>> /\ Becomes("live", t, made)
        /\ opener' = [opener EXCEPT ![o].left = e.left \ {t}]
    BY <1>10 DEF CreateTable, At, Untouched
  <2>2. /\ base = [there |-> base.there, columns |-> base.columns, rows |-> base.rows]
        /\ base.rows = Live(t).rows /\ base.there
        /\ (Live(t).there => base.columns = Live(t).columns)
        /\ (~Live(t).there => base.columns = Declares[own][t])
    <3>1. Live(t) = [there |-> Live(t).there, columns |-> Live(t).columns, rows |-> Live(t).rows]
          /\ (Live(t).there \/ Live(t).rows = {})
      BY <1>t DEF SchemaShapes, Table, Live, Stores
    <3> HIDE DEF own
    <3>2. CASE Live(t).there
      BY <3>1, <3>2
    <3>3. CASE ~Live(t).there
      BY <3>1, <3>3
    <3> QED
      BY <3>2, <3>3
  <2> HIDE DEF base
  <2>3. /\ made = [there |-> base.there, columns |-> base.columns \cup AddColumns[own][t], rows |-> base.rows]
    BY <2>2, TableGains
  <2>4. made.rows = Live(t).rows /\ made.there /\ base.columns \subseteq made.columns
        /\ made = [there |-> made.there, columns |-> made.columns, rows |-> made.rows]
    BY <2>2, <2>3
  <2> HIDE DEF made
  <2>5. /\ storage' = [j \in Stores |-> [u \in Tables |-> storage'[j][u]]]
        /\ storage'["live"][t] = made
        /\ \A j \in Stores, u \in Tables : j # "live" \/ u # t => storage'[j][u] = storage[j][u]
    BY <1>t, <2>1, OneTableBecomes DEF Stores
  <2>6. opener'[o] = [e EXCEPT !.left = e.left \ {t}] /\ opener' = [opener EXCEPT ![o] = opener'[o]]
    BY <1>t, <2>1 DEF SchemaShapes
  <2>7. opener'[o] = [step |-> "create", build |-> own, left |-> e.left \ {t}, table |-> e.table]
    <3>1. e = [step |-> e.step, build |-> e.build, left |-> e.left, table |-> e.table]
      BY <1>s
    <3> DEFINE rest == e.left \ {t}
    <3>2. opener'[o] = [e EXCEPT !.left = rest]
      BY <2>6
    <3> HIDE DEF rest
    <3>3. opener'[o] = [step |-> e.step, build |-> e.build, left |-> rest, table |-> e.table]
      BY <3>1, <3>2, OpeningShortens
    <3> QED
      BY <2>1, <3>3 DEF rest
  <2>8. Opening(o)' /\ IsOpen(o) /\ own \in 1..deployed
    <3>1. e.left \subseteq Tables /\ own \in 1..deployed
      BY <1>t, <2>1 DEF Opening
    <3> QED
      BY <2>1, <2>7, <3>1, NothingFound DEF IsOpen
  <2>9. \A j \in Stores, u \in Tables : Table(j, u)'
    <3>1. Table("live", t)'
      BY <2>4, <2>5 DEF Table
    <3> QED
      BY <1>t, <2>5, <3>1 DEF SchemaShapes, Table
  <2>10. Live(t)' = made /\ (\A u \in Tables : Legacy(u)' = Legacy(u)) /\ (\A u \in Tables \ {t} : Live(u)' = Live(u))
    BY <2>5 DEF Live, Legacy, Stores
  <2>11. \A w \in written' : RowIsThere(w)'
    BY <1>t, <2>1, <2>4, <2>10 DEF RowIsThere
  <2>12. ASSUME NEW u \in Tables \ DerivedTables, Live(u)'.there
         PROVE  \E b \in 1..deployed : /\ Declares[b][u] \subseteq Live(u)'.columns /\ b <= opener[o].build
                                       /\ Legacy(u)'.rows # {} => Break(u) <= b
    <3>1. CASE u # t
      BY <1>u, <2>8, <2>10, <2>12, <3>1
    <3>2. CASE u = t /\ Live(t).there
      BY <1>u, <2>2, <2>4, <2>8, <2>10, <3>2
    <3>3. CASE u = t /\ ~Live(t).there
      <4>1. Declares[own][u] \subseteq Live(u)'.columns /\ own <= opener[o].build
        BY <1>b, <2>2, <2>4, <2>8, <2>10, <3>3
      <4>2. Legacy(u)'.rows # {} => Break(u) <= own
        BY <1>u, <2>8, <2>10
      <4> QED
        BY <2>8, <4>1, <4>2
    <3> QED
      BY <3>1, <3>2, <3>3
  <2>13. \A u \in Tables \ DerivedTables : Legacy(u)'.rows # {} => Break(u) <= opener[o].build
    BY <1>u, <2>8, <2>10
  <2>14. opener'[o].build = opener[o].build
    BY <2>7
  <2> QED
    BY <2>1, <2>5, <2>6, <2>8, <2>9, <2>11, <2>12, <2>13, <2>14, TablesAreReshaped
<1>11. ASSUME NEW o \in Openers, StampVersion(o)
       PROVE  SchemaInv'
  <2>1. opener[o].step = "create" /\ UNCHANGED <<storage, deployed, written>> /\ (To(o, "open") \/ SchemaError(o))
    BY <1>11 DEF StampVersion, At
  <2>2. CASE SchemaError(o)
    BY <2>1, <2>2, ClosingIsSound
  <2>3. CASE To(o, "open")
    <3> PICK e : e = opener[o]
      OBVIOUS
    <3>1. opener'[o] = [step |-> "open", build |-> e.build, left |-> e.left, table |-> e.table]
      BY <2>3, NextStep
    <3>2. Opening(o)'
      <4>1. e.left \subseteq Tables /\ e.build \in 1..deployed
        BY <1>t, <2>1 DEF Opening
      <4> QED
        BY <2>1, <3>1, <4>1, NothingFound
    <3> QED
      BY <2>1, <2>3, <3>2, StepIsSound DEF IsOpen
  <2> QED
    BY <2>1, <2>2, <2>3
<1>12. ASSUME NEW o \in Openers, NEW t \in Tables, InsertRow(o, t)
       PROVE  SchemaInv'
  <2> PICK n : n = tally'.row
    OBVIOUS
  <2> DEFINE more == [Live(t) EXCEPT !.rows = Live(t).rows \cup {n}]
  <2>1. /\ opener[o].step = "open" /\ UNCHANGED <<deployed, opener>> /\ written' = written \cup {<<t, n>>} /\ Live(t).there
        /\ storage' = [storage EXCEPT !["live"][t].rows = storage["live"][t].rows \cup {n}]
    BY <1>12 DEF InsertRow, At
  <2>2. /\ storage' = [j \in Stores |-> [u \in Tables |-> storage'[j][u]]]
        /\ storage'["live"][t] = more
        /\ \A j \in Stores, u \in Tables : j # "live" \/ u # t => storage'[j][u] = storage[j][u]
    BY <1>t, <2>1 DEF SchemaShapes, Live, Stores
  <2>3. more = [there |-> Live(t).there, columns |-> Live(t).columns, rows |-> Live(t).rows \cup {n}]
    <3>1. Live(t) = [there |-> Live(t).there, columns |-> Live(t).columns, rows |-> Live(t).rows]
      BY <1>l DEF Live, Stores
    <3> QED
      BY <3>1, TableGains
  <2>4. more.rows = Live(t).rows \cup {n} /\ more.columns = Live(t).columns /\ more.there
        /\ more = [there |-> more.there, columns |-> more.columns, rows |-> more.rows]
    BY <2>1, <2>3
  <2> HIDE DEF more
  <2>5. Opening(o)' /\ IsOpen(o)
    <3>1. PICK e : e = opener[o] /\ e = opener'[o]
      BY <2>1
    <3>2. e.left \subseteq Tables /\ e.build \in 1..deployed
      BY <1>t, <2>1, <3>1 DEF Opening
    <3>3. opener'[o] = [step |-> "open", build |-> e.build, left |-> e.left, table |-> e.table]
      BY <1>s, <2>1, <3>1
    <3> QED
      BY <2>1, <3>2, <3>3, NothingFound DEF IsOpen
  <2>6. \A j \in Stores, u \in Tables : Table(j, u)'
    <3>1. Table("live", t)'
      BY <2>2, <2>4 DEF Table
    <3> QED
      BY <1>t, <2>2, <3>1 DEF SchemaShapes, Table
  <2>7. Live(t)' = more /\ (\A u \in Tables : Legacy(u)' = Legacy(u)) /\ (\A u \in Tables \ {t} : Live(u)' = Live(u))
    BY <2>2 DEF Live, Legacy, Stores
  <2>8. \A w \in written' : RowIsThere(w)'
    <3>1. RowIsThere(<<t, n>>)'
      BY <2>4, <2>7 DEF RowIsThere
    <3>2. ASSUME NEW w \in written
          PROVE  RowIsThere(w)'
      BY <1>t, <2>4, <2>7 DEF RowIsThere
    <3> QED
      BY <2>1, <3>1, <3>2
  <2>9. \A u \in Tables \ DerivedTables : Live(u)'.there =>
             \/ \E b \in 1..deployed : /\ Declares[b][u] \subseteq Live(u)'.columns /\ b <= opener[o].build
                                       /\ Legacy(u)'.rows # {} => Break(u) <= b
    BY <1>u, <2>1, <2>4, <2>5, <2>7
  <2>10. \A u \in Tables \ DerivedTables : Legacy(u)'.rows # {} => Break(u) <= opener[o].build
    BY <1>u, <2>5, <2>7
  <2>11. opener' = [opener EXCEPT ![o] = opener'[o]]
    BY <1>t, <2>1 DEF SchemaShapes
  <2> QED
    BY <2>1, <2>2, <2>5, <2>6, <2>8, <2>9, <2>10, <2>11, TablesAreReshaped
<1>13. ASSUME NEW o \in Openers, CloseDb(o) \/ OpenerKilled(o)
       PROVE  SchemaInv'
  BY <1>13, ClosingIsSound DEF CloseDb, OpenerKilled, Untouched
<1> QED
  BY <1>1, <1>2, <1>3, <1>4, <1>5, <1>6, <1>7, <1>8, <1>9, <1>10, <1>11, <1>12, <1>13 DEF SchemaNext

(***************************************************************************)
(* As long as the archive is opened by one process at a time and no table  *)
(* is broken by more than one of the builds, an opening that is killed     *)
(* anywhere loses no row of a table that is not derived (reconcile_schema).*)
(***************************************************************************)
THEOREM NoRowIsLost == BreaksOnce /\ ~Together => (SchemaSpec => []RowsKept)
<1> SUFFICES ASSUME BreaksOnce, ~Together
             PROVE  SchemaSpec => []RowsKept
  OBVIOUS
<1>1. SchemaInit => SchemaInv
  <2> SUFFICES ASSUME SchemaInit PROVE SchemaInv
    OBVIOUS
  <2>1. \A k \in Stores, t \in Tables : storage[k][t] = NoTable
    BY DEF SchemaInit
  <2>2. \A o \in Openers : opener[o] = NoOpening
    BY DEF SchemaInit
  <2>3. SchemaShapes
    BY <2>1, <2>2, SchemaAssumption DEF SchemaInit, SchemaShapes, Table, NoTable, IsOpen, NoOpening
  <2>4. ASSUME NEW o \in Openers
        PROVE  Opening(o)
    <3>1. PICK e : e = opener[o]
      OBVIOUS
    <3>2. e = [step |-> "closed", build |-> 0, left |-> {}, table |-> "none"]
      BY <2>2, <3>1 DEF NoOpening
    <3>3. e = [step |-> e.step, build |-> e.build, left |-> e.left, table |-> e.table]
          /\ e.step = "closed" /\ e.left = {}
      BY <3>2
    <3> QED
      BY <3>1, <3>3 DEF Opening
  <2>5. \A t \in Tables : ~Live(t).there /\ Legacy(t).rows = {}
    BY <2>1 DEF Live, Legacy, NoTable, Stores
  <2> QED
    BY <2>3, <2>4, <2>5 DEF SchemaInit, SchemaInv, Built
<1>2. SchemaInv /\ [SchemaNext]_schemaVars => SchemaInv'
  BY SchemaStep
<1>3. SchemaInv => RowsKept
  BY DEF SchemaInv, RowIsThere, RowsKept, Live, Legacy, Stores
<1> QED
  BY <1>1, <1>2, <1>3, PTL DEF SchemaSpec

-----------------------------------------------------------------------------
(* The backup sets of the archive                                          *)

Slots == {"plain", "gz", "companion", "manifest"}
BackupSteps == {"snapshot", "compress", "gzip", "unlink", "companion", "manifest", "verify", "prune"}
Rotten(v) == [is |-> "whole", of |-> v, damaged |-> TRUE]
\* A file that holds version v when it holds any; an undamaged one.
Good(x, v) == x \in {Absent, Partial} \/ (v # 0 /\ x = Whole(v))
Of(x, v) == Good(x, v) \/ (v # 0 /\ x = Rotten(v))

BackupShapes ==
    /\ live \in Nat \ {0} /\ taken \in 0..SetBound
    /\ sets = [s \in Stamps |-> sets[s]]
    /\ \A s \in Stamps : sets[s] = [f \in Slots |-> sets[s][f]]
    /\ snapped = [s \in Stamps |-> snapped[s]] /\ \A s \in Stamps : snapped[s] \in Nat
    /\ taking = [step |-> taking.step, stamp |-> taking.stamp]
    /\ restoring = [step |-> restoring.step, stamp |-> restoring.stamp, matches |-> restoring.matches]
SetIs(s) ==
    /\ Of(sets[s].plain, snapped[s]) /\ Of(sets[s].gz, snapped[s]) /\ Of(sets[s].manifest, snapped[s])
    /\ s > taken => snapped[s] = 0 /\ \A f \in Slots : sets[s][f] = Absent
\* The files of the set under way, step by step.
Stage(t) ==
    LET r == sets[t]
        v == snapped[t]
        step == taking.step IN
    /\ Good(r.plain, v) /\ Good(r.gz, v) /\ Good(r.manifest, v)
    /\ step = "snapshot" => r.plain = Partial /\ r.gz = Absent /\ v = 0
    /\ step \in {"compress", "gzip", "unlink"} => r.plain = Whole(v)
    /\ step = "compress" => r.gz = Absent
    /\ step = "unlink" => r.gz = Whole(v)
    /\ step \in {"companion", "manifest", "verify", "prune"} =>
           r.plain = Whole(v) \/ (r.plain = Absent /\ r.gz = Whole(v))
    /\ step \notin {"verify", "prune"} => r.manifest = Absent
TakingInv ==
    /\ \/ taking.step = "idle" /\ taking.stamp = 0
       \/ taking.step \in BackupSteps /\ taking.stamp = taken /\ taken \in Stamps
    /\ \A t \in Stamps : taking.stamp = t => Stage(t)
\* What a restore has of the set it reads: files that have a hash when it
\* copies, and the version of that hash, or too little, afterwards.
Restores(s) ==
    /\ s <= taken
    /\ restoring.step = "copy" /\ Hashed(s) => Main(s) = Whole(snapped[s])
    /\ restoring.step = "prove" /\ (Hashed(s) \/ taking.stamp = s) =>
           dest = Partial \/ (snapped[s] # 0 /\ dest = Whole(snapped[s]))
    /\ restoring.step = "said" /\ restoring.matches => snapped[s] # 0 /\ dest = Whole(snapped[s])
RestoringInv ==
    /\ restoring.step = "idle" \/ (restoring.step \in {"copy", "prove", "said"} /\ restoring.stamp \in Stamps)
    /\ \A s \in Stamps : restoring.step # "idle" /\ restoring.stamp = s => Restores(s)
BackupInv ==
    /\ BackupShapes
    /\ \A s \in Stamps : SetIs(s)
    /\ TakingInv /\ RestoringInv
    /\ OneGoodSet

LEMMA SlotsAre == DOMAIN NoSet = Slots /\ NoSet = [f \in Slots |-> Absent]
BY DEF NoSet, Slots

LEMMA FilesDiffer ==
    ASSUME NEW v
    PROVE  /\ Absent.is = "absent" /\ Partial.is = "partial" /\ Whole(v).is = "whole" /\ Rotten(v).is = "whole"
           /\ Whole(v).of = v /\ Rotten(v).of = v /\ Partial.of = 0 /\ ~Whole(v).damaged /\ Rotten(v).damaged
           /\ Absent # Partial /\ Absent # Whole(v) /\ Partial # Whole(v) /\ Whole(v) # Rotten(v)
BY DEF Absent, Partial, Whole, Rotten

\* A hash is only written of a set that is one file, and that file is whole.
LEMMA HashedIsWhole ==
    ASSUME NEW t \in Stamps, Stage(t), Hashed(t), taking.step \in BackupSteps
    PROVE  Main(t) = Whole(snapped[t]) /\ snapped[t] # 0
<1>1. sets[t].manifest.is = "whole" /\ (sets[t].gz = Absent \/ sets[t].plain = Absent)
  BY DEF Hashed
<1>2. taking.step \in {"verify", "prune"}
  BY <1>1, FilesDiffer DEF Stage
<1>3. sets[t].plain = Whole(snapped[t]) \/ (sets[t].plain = Absent /\ sets[t].gz = Whole(snapped[t]))
  BY <1>2 DEF Stage
<1>4. snapped[t] # 0
  BY <1>3, FilesDiffer DEF Stage, Good
<1> QED
  BY <1>1, <1>3, <1>4, FilesDiffer DEF Main

LEMMA DamageShows ==
    ASSUME NEW v, NEW x, x = Whole(v) \/ x = Rotten(v), NEW y, y = [x EXCEPT !.damaged = TRUE]
    PROVE  y = Rotten(v)
<1>1. CASE x = Whole(v)
  BY <1>1 DEF Whole, Rotten
<1>2. CASE x = Rotten(v)
  BY <1>2 DEF Rotten
<1> QED
  BY <1>1, <1>2

LEMMA RottenHashed ==
    ASSUME NEW v, NEW x, x = Whole(v) \/ x = Rotten(v), NEW y, y = [x EXCEPT !.damaged = FALSE]
    PROVE  y = Whole(v)
<1>1. CASE x = Whole(v)
  BY <1>1 DEF Whole
<1>2. CASE x = Rotten(v)
  BY <1>2 DEF Rotten, Whole
<1> QED
  BY <1>1, <1>2

LEMMA FileIsPut ==
    ASSUME BackupShapes, NEW t \in Stamps, taking.stamp = t, NEW f \in Slots, NEW what, Put(f, what)
    PROVE  /\ sets' = [s \in Stamps |-> sets'[s]] /\ \A s \in Stamps : sets'[s] = [g \in Slots |-> sets'[s][g]]
           /\ sets'[t][f] = what /\ \A g \in Slots \ {f} : sets'[t][g] = sets[t][g]
           /\ \A s \in Stamps \ {t} : sets'[s] = sets[s]
<1>1. sets' = [sets EXCEPT ![t][f] = what]
  BY DEF Put
<1>2. /\ sets = [s \in Stamps |-> sets[s]]
      /\ \A s \in Stamps : sets[s] = [g \in Slots |-> sets[s][g]]
  BY DEF BackupShapes
<1> QED
  BY <1>1, <1>2

\* The backup under way goes a step further.
LEMMA TakingMoves ==
    ASSUME BackupInv, NEW t \in Stamps, taking.stamp = t, UNCHANGED <<live, taken, dest, restoring>>,
           sets' = [s \in Stamps |-> sets'[s]], \A s \in Stamps : sets'[s] = [f \in Slots |-> sets'[s][f]],
           \A s \in Stamps \ {t} : sets'[s] = sets[s] /\ snapped'[s] = snapped[s],
           snapped' = [s \in Stamps |-> snapped'[s]], snapped'[t] \in Nat, snapped'[t] = snapped[t] \/ snapped[t] = 0,
           taking' = [step |-> taking'.step, stamp |-> t], taking'.step \in BackupSteps,
           Stage(t)', OneGoodSet'
    PROVE  BackupInv'
<1>1. BackupShapes /\ TakingInv /\ RestoringInv /\ \A s \in Stamps : SetIs(s)
  BY DEF BackupInv
<1>2. t = taken /\ taking.step \in BackupSteps /\ Stage(t) /\ taken \in Nat /\ t \in Nat
  BY <1>1, BackupAssumption DEF TakingInv, BackupShapes, Stamps
<1>p. taking'.stamp = t
  <2>1. PICK k : k = taking'
    OBVIOUS
  <2>2. k = [step |-> k.step, stamp |-> t]
    BY <2>1
  <2>3. k.stamp = t
    BY <2>2
  <2> QED
    BY <2>1, <2>3
<1>3. BackupShapes'
  BY <1>1, <1>p DEF BackupShapes
<1>4. ASSUME NEW s \in Stamps
      PROVE  SetIs(s)'
  <2>1. CASE s = t
    BY <1>2, <2>1 DEF SetIs, Stage, Of
  <2>2. CASE s # t
    BY <1>1, <2>2 DEF SetIs, Of, Good
  <2> QED
    BY <2>1, <2>2
<1>5. TakingInv'
  BY <1>2, <1>p DEF TakingInv
<1>6. ASSUME NEW s \in Stamps, restoring'.step # "idle", restoring'.stamp = s
      PROVE  Restores(s)'
  <2>1. Restores(s)
    BY <1>1, <1>6 DEF RestoringInv
  <2>2. CASE s # t
    <3>1. (Hashed(s)' <=> Hashed(s)) /\ Main(s)' = Main(s) /\ snapped'[s] = snapped[s]
      BY <2>2 DEF Hashed, Main
    <3> QED
      BY <1>p, <2>1, <2>2, <3>1 DEF Restores
  <2>3. CASE s = t
    <3>1. Hashed(t)' => Main(t)' = Whole(snapped'[t])
      <4>1. (Stage(t) /\ Hashed(t) /\ taking.step \in BackupSteps => Main(t) = Whole(snapped[t]))'
        BY HashedIsWhole, PTL
      <4> QED
        BY <4>1
    <3>2. restoring.step = "prove" => dest = Partial \/ (snapped[t] # 0 /\ dest = Whole(snapped[t]))
      BY <2>1, <2>3 DEF Restores
    <3>3. restoring.step = "said" /\ restoring.matches => snapped[t] # 0 /\ dest = Whole(snapped[t])
      BY <2>1, <2>3 DEF Restores
    <3> QED
      BY <1>2, <2>3, <3>1, <3>2, <3>3 DEF Restores
  <2> QED
    BY <2>2, <2>3
<1>7. RestoringInv'
  BY <1>1, <1>6 DEF RestoringInv
<1> QED
  BY <1>3, <1>4, <1>5, <1>7 DEF BackupInv

\* The restore under way goes a step further.
LEMMA RestoringMoves ==
    ASSUME BackupInv, UNCHANGED <<live, sets, taking, taken, snapped, finished>>,
           restoring' = [step |-> restoring'.step, stamp |-> restoring'.stamp, matches |-> restoring'.matches],
           restoring'.step = "idle" \/ (restoring'.step \in {"copy", "prove", "said"} /\ restoring'.stamp \in Stamps),
           \A s \in Stamps : restoring'.step # "idle" /\ restoring'.stamp = s => Restores(s)'
    PROVE  BackupInv'
<1>1. BackupShapes /\ TakingInv /\ RestoringInv /\ (\A s \in Stamps : SetIs(s)) /\ OneGoodSet
  BY DEF BackupInv
<1>2. BackupShapes'
  BY <1>1 DEF BackupShapes
<1>3. \A s \in Stamps : SetIs(s)'
  BY <1>1 DEF SetIs, Of, Good
<1>4. TakingInv'
  <2>1. ASSUME NEW t \in Stamps, taking'.stamp = t
        PROVE  Stage(t)'
    BY <1>1, <2>1 DEF TakingInv, Stage, Good
  <2> QED
    BY <1>1, <2>1 DEF TakingInv
<1>5. RestoringInv' /\ OneGoodSet'
  BY <1>1 DEF RestoringInv, OneGoodSet
<1> QED
  BY <1>2, <1>3, <1>4, <1>5 DEF BackupInv

LEMMA BackupStep ==
    ASSUME BackupInv, [BackupNext]_backupVars
    PROVE  BackupInv'
<1>t. BackupShapes /\ TakingInv /\ RestoringInv /\ (\A s \in Stamps : SetIs(s)) /\ OneGoodSet
  BY DEF BackupInv
<1>n. SetBound \in Nat /\ taken \in Nat /\ Keep \in Nat \ {0} /\ Stamps = 1..SetBound
  BY <1>t, BackupAssumption DEF BackupShapes, Stamps
\* The record of the backup under way, and where it stands.
<1>k. ASSUME NEW from, NEW to, Step(from, to), from \in BackupSteps
      PROVE  /\ taking.stamp \in Stamps /\ taking.stamp = taken /\ taking.step = from /\ Stage(taken)
             /\ taking' = [step |-> to, stamp |-> taken]
  <2>1. PICK k : k = taking
    OBVIOUS
  <2>2. k = [step |-> k.step, stamp |-> k.stamp]
    BY <1>t, <2>1 DEF BackupShapes
  <2>3. k.step = from /\ taking' = [k EXCEPT !.step = to]
    BY <1>k, <2>1 DEF Step
  <2>4. taking' = [step |-> to, stamp |-> k.stamp]
    BY <2>2, <2>3
  <2>5. k.stamp = taken /\ taken \in Stamps /\ Stage(taken)
    BY <1>t, <1>k, <2>1, <2>3 DEF TakingInv, BackupSteps
  <2> QED
    BY <2>1, <2>3, <2>4, <2>5
\* A step that writes one file of the set under way, and nothing else.
<1>f. ASSUME NEW from \in BackupSteps, NEW to \in BackupSteps, Step(from, to), NEW f \in Slots, NEW what, Put(f, what),
             UNCHANGED <<live, taken, dest, restoring, snapped, finished>>,
             LET r == [sets[taken] EXCEPT ![f] = what]
                 v == snapped[taken] IN
             /\ Good(r.plain, v) /\ Good(r.gz, v) /\ Good(r.manifest, v) /\ to # "snapshot"
             /\ to \in {"compress", "gzip", "unlink"} => r.plain = Whole(v)
             /\ to = "compress" => r.gz = Absent
             /\ to = "unlink" => r.gz = Whole(v)
             /\ to \in {"companion", "manifest", "verify", "prune"} =>
                    r.plain = Whole(v) \/ (r.plain = Absent /\ r.gz = Whole(v))
             /\ to \notin {"verify", "prune"} => r.manifest = Absent
      PROVE  BackupInv'
  <2>1. /\ taking.stamp \in Stamps /\ taking.stamp = taken /\ taking.step = from /\ Stage(taken)
        /\ taking' = [step |-> to, stamp |-> taken]
    BY <1>f, <1>k
  <2>2. PICK t \in Stamps : t = taken
    BY <2>1
  <2>3. /\ sets' = [s \in Stamps |-> sets'[s]] /\ (\A s \in Stamps : sets'[s] = [g \in Slots |-> sets'[s][g]])
        /\ sets'[t][f] = what /\ (\A g \in Slots \ {f} : sets'[t][g] = sets[t][g])
        /\ \A s \in Stamps \ {t} : sets'[s] = sets[s]
    BY <1>f, <1>t, <2>1, <2>2, FileIsPut
  <2>4. PICK r : r = sets'[t]
    OBVIOUS
  <2>5. r = [sets[t] EXCEPT ![f] = what]
    <3>1. sets' = [sets EXCEPT ![t][f] = what]
      BY <1>f, <2>1, <2>2 DEF Put
    <3>2. sets = [s \in Stamps |-> sets[s]]
      BY <1>t DEF BackupShapes
    <3> QED
      BY <2>4, <3>1, <3>2
  <2>6. taking'.step = to
    BY <2>1
  <2>7. Stage(t)'
    BY <1>f, <2>2, <2>4, <2>5, <2>6 DEF Stage, Good
  <2>8. OneGoodSet'
    <3>1. CASE to \in {"compress", "gzip", "unlink", "companion", "manifest", "verify", "prune"}
      <4>1. sets'[t].plain = Whole(snapped[t]) \/ sets'[t].gz = Whole(snapped[t])
        BY <1>f, <2>2, <2>4, <2>5, <3>1
      <4> QED
        BY <4>1, FilesDiffer DEF OneGoodSet
    <3> QED
      BY <1>f, <3>1 DEF BackupSteps
  <2>9. snapped' = [s \in Stamps |-> snapped'[s]] /\ snapped'[t] \in Nat
    BY <1>f, <1>t DEF BackupShapes
  <2>10. taking' = [step |-> taking'.step, stamp |-> t]
    BY <2>1, <2>2, <2>6
  <2> QED
    BY <1>f, <2>1, <2>2, <2>3, <2>6, <2>7, <2>8, <2>9, <2>10, TakingMoves
<1>1. CASE UNCHANGED backupVars \/ WriteArchive
  <2>1. UNCHANGED <<sets, taking, taken, dest, restoring, snapped, finished>> /\ live' \in Nat \ {0}
    BY <1>1, <1>t DEF backupVars, WriteArchive, BackupShapes
  <2>2. BackupShapes'
    BY <1>t, <2>1 DEF BackupShapes
  <2>3. \A s \in Stamps : SetIs(s)'
    BY <1>t, <2>1 DEF SetIs, Of, Good
  <2>4. TakingInv'
    <3>1. ASSUME NEW t \in Stamps, taking'.stamp = t
          PROVE  Stage(t)'
      BY <1>t, <2>1, <3>1 DEF TakingInv, Stage, Good
    <3> QED
      BY <1>t, <2>1, <3>1 DEF TakingInv
  <2>5. RestoringInv'
    <3>1. ASSUME NEW s \in Stamps, restoring'.step # "idle" /\ restoring'.stamp = s
          PROVE  Restores(s)'
      BY <1>t, <2>1, <3>1 DEF RestoringInv, Restores, Hashed, Main
    <3> QED
      BY <1>t, <2>1, <3>1 DEF RestoringInv
  <2>6. OneGoodSet'
    BY <1>t, <2>1 DEF OneGoodSet
  <2> QED
    BY <2>2, <2>3, <2>4, <2>5, <2>6 DEF BackupInv
<1>2. ASSUME NEW r \in Stamps, NEW f \in DOMAIN NoSet, Rot(r, f)
      PROVE  BackupInv'
  <2>1. /\ sets' = [sets EXCEPT ![r][f].damaged = TRUE] /\ sets[r][f].is = "whole"
        /\ taking.stamp # r /\ restoring.stamp # r /\ f \in Slots
        /\ UNCHANGED <<live, taking, taken, dest, restoring, snapped, finished>>
    BY <1>2, SlotsAre DEF Rot
  <2> PICK x : x = sets[r][f]
    OBVIOUS
  <2> DEFINE y == [x EXCEPT !.damaged = TRUE]
  <2>2. /\ sets' = [s \in Stamps |-> sets'[s]] /\ (\A s \in Stamps : sets'[s] = [g \in Slots |-> sets'[s][g]])
        /\ sets'[r][f] = y /\ (\A g \in Slots \ {f} : sets'[r][g] = sets[r][g])
        /\ \A s \in Stamps \ {r} : sets'[s] = sets[s]
    BY <1>t, <2>1 DEF BackupShapes
  <2>3. ASSUME NEW v, Of(x, v)
        PROVE  Of(y, v)
    <3>1. v # 0 /\ (x = Whole(v) \/ x = Rotten(v))
      BY <2>1, <2>3, FilesDiffer DEF Of, Good
    <3>2. y = Rotten(v)
      BY <3>1, DamageShows
    <3> QED
      BY <3>1, <3>2 DEF Of
  <2>4. x # Absent /\ y # Absent /\ y.is = "whole"
    <3>1. SetIs(r) /\ x.is = "whole"
      BY <1>t, <2>1
    <3>2. DOMAIN x = DOMAIN y
      OBVIOUS
    <3>3. y.is = x.is
      OBVIOUS
    <3> QED
      BY <3>1, <3>3, FilesDiffer
  <2> HIDE DEF y
  <2>5. BackupShapes'
    BY <1>t, <2>1, <2>2 DEF BackupShapes
  <2>6. ASSUME NEW s \in Stamps
        PROVE  SetIs(s)'
    <3>1. CASE s # r
      BY <1>t, <2>1, <2>2, <3>1 DEF SetIs, Of, Good
    <3>2. CASE s = r
      <4>1. SetIs(r)
        BY <1>t
      <4>2. ~(r > taken)
        BY <2>1, <2>4, <4>1 DEF SetIs
      <4>3. ASSUME NEW g \in {"plain", "gz", "manifest"}
            PROVE  Of(sets'[r][g], snapped[r])
        <5>1. CASE g = f
          BY <2>2, <2>3, <4>1, <5>1 DEF SetIs
        <5>2. CASE g # f
          <6>1. sets'[r][g] = sets[r][g]
            BY <2>2, <5>2 DEF Slots
          <6>2. Of(sets[r][g], snapped[r])
            BY <4>1 DEF SetIs
          <6> QED
            BY <6>1, <6>2
        <5> QED
          BY <5>1, <5>2
      <4> QED
        BY <2>1, <3>2, <4>2, <4>3 DEF SetIs, Of, Good
    <3> QED
      BY <3>1, <3>2
  <2>7. TakingInv'
    <3>1. ASSUME NEW t \in Stamps, taking'.stamp = t
          PROVE  Stage(t)'
      BY <1>t, <2>1, <2>2, <3>1 DEF TakingInv, Stage, Good
    <3> QED
      BY <1>t, <2>1, <3>1 DEF TakingInv
  <2>8. RestoringInv'
    <3>1. ASSUME NEW s \in Stamps, restoring'.step # "idle" /\ restoring'.stamp = s
          PROVE  Restores(s)'
      BY <1>t, <2>1, <2>2, <3>1 DEF RestoringInv, Restores, Hashed, Main
    <3> QED
      BY <1>t, <2>1, <3>1 DEF RestoringInv
  <2>9. OneGoodSet'
    <3> SUFFICES ASSUME finished
                 PROVE  \E s \in Stamps : sets'[s].gz.is = "whole" \/ sets'[s].plain.is = "whole"
      BY <2>1 DEF OneGoodSet
    <3>1. PICK s \in Stamps : sets[s].gz.is = "whole" \/ sets[s].plain.is = "whole"
      BY <1>t DEF OneGoodSet
    <3>2. CASE s # r
      BY <2>2, <3>1, <3>2
    <3>3. CASE s = r
      BY <2>2, <2>4, <3>1, <3>3 DEF Slots
    <3> QED
      BY <3>2, <3>3
  <2> QED
    BY <2>5, <2>6, <2>7, <2>8, <2>9 DEF BackupInv
<1>3. ASSUME StartBackup
      PROVE  BackupInv'
  <2>1. /\ taking.step = "idle" /\ taken < SetBound /\ taken' = taken + 1
        /\ taking' = [step |-> "snapshot", stamp |-> taken + 1]
        /\ sets' = [sets EXCEPT ![taken + 1].plain = Partial]
        /\ UNCHANGED <<live, dest, restoring, snapped, finished>>
    BY <1>3 DEF StartBackup, backupBounds
  <2>2. PICK t \in Stamps : t = taken + 1
    BY <1>n, <2>1
  <2>3. /\ sets' = [s \in Stamps |-> sets'[s]] /\ (\A s \in Stamps : sets'[s] = [g \in Slots |-> sets'[s][g]])
        /\ sets'[t].plain = Partial /\ (\A g \in Slots \ {"plain"} : sets'[t][g] = sets[t][g])
        /\ \A s \in Stamps \ {t} : sets'[s] = sets[s]
    BY <1>t, <2>1, <2>2 DEF BackupShapes, Slots
  <2>4. snapped[t] = 0 /\ \A g \in Slots : sets[t][g] = Absent
    BY <1>n, <1>t, <2>2 DEF SetIs
  <2>5. sets'[t].plain = Partial /\ sets'[t].gz = Absent /\ sets'[t].manifest = Absent
    BY <2>3, <2>4 DEF Slots
  <2>6. taking'.step = "snapshot" /\ taking'.stamp = t /\ taking' = [step |-> taking'.step, stamp |-> taking'.stamp]
    BY <2>1, <2>2
  <2>7. BackupShapes'
    <3>1. taken' \in 0..SetBound
      BY <1>n, <2>1
    <3> QED
      BY <1>t, <2>1, <2>3, <2>6, <3>1 DEF BackupShapes
  <2>8. ASSUME NEW s \in Stamps
        PROVE  SetIs(s)'
    <3>1. CASE s # t
      <4>1. s > taken' => s > taken
        BY <1>n, <2>1
      <4> QED
        BY <1>t, <2>1, <2>3, <3>1, <4>1 DEF SetIs, Of, Good
    <3>2. CASE s = t
      <4>1. ~(s > taken')
        BY <1>n, <2>1, <2>2, <3>2
      <4> QED
        BY <2>1, <2>5, <3>2, <4>1 DEF SetIs, Of, Good
    <3> QED
      BY <3>1, <3>2
  <2>9. TakingInv'
    <3>1. Stage(t)'
      BY <2>1, <2>4, <2>5, <2>6 DEF Stage, Good
    <3> QED
      BY <2>1, <2>2, <2>6, <3>1 DEF TakingInv, BackupSteps
  <2>10. RestoringInv'
    <3>1. ASSUME NEW s \in Stamps, restoring'.step # "idle" /\ restoring'.stamp = s
          PROVE  Restores(s)'
      <4>1. Restores(s) /\ s <= taken
        BY <1>t, <2>1, <3>1 DEF RestoringInv, Restores
      <4>2. s # t /\ s <= taken'
        BY <1>n, <2>1, <2>2, <4>1
      <4> QED
        BY <2>1, <2>3, <2>6, <4>1, <4>2 DEF Restores, Hashed, Main
    <3> QED
      BY <1>t, <2>1, <3>1 DEF RestoringInv
  <2>11. OneGoodSet'
    <3> SUFFICES ASSUME finished
                 PROVE  \E s \in Stamps : sets'[s].gz.is = "whole" \/ sets'[s].plain.is = "whole"
      BY <2>1 DEF OneGoodSet
    <3>1. PICK s \in Stamps : sets[s].gz.is = "whole" \/ sets[s].plain.is = "whole"
      BY <1>t DEF OneGoodSet
    <3>2. s # t
      BY <2>4, <3>1, FilesDiffer DEF Slots
    <3> QED
      BY <2>3, <3>1, <3>2
  <2> QED
    BY <2>7, <2>8, <2>9, <2>10, <2>11 DEF BackupInv
<1>4. ASSUME Snapshot
      PROVE  BackupInv'
  <2>1. /\ Step("snapshot", "compress") /\ Put("plain", Whole(live))
        /\ snapped' = [snapped EXCEPT ![taking.stamp] = live]
        /\ UNCHANGED <<live, taken, dest, restoring, finished>>
    BY <1>4 DEF Snapshot
  <2>2. /\ taking.stamp \in Stamps /\ taking.stamp = taken /\ taking.step = "snapshot" /\ Stage(taken)
        /\ taking' = [step |-> "compress", stamp |-> taken]
    BY <2>1, <1>k DEF BackupSteps
  <2>3. PICK t \in Stamps : t = taken
    BY <2>2
  <2>4. /\ sets' = [s \in Stamps |-> sets'[s]] /\ (\A s \in Stamps : sets'[s] = [g \in Slots |-> sets'[s][g]])
        /\ sets'[t]["plain"] = Whole(live) /\ (\A g \in Slots \ {"plain"} : sets'[t][g] = sets[t][g])
        /\ \A s \in Stamps \ {t} : sets'[s] = sets[s]
    BY <1>t, <2>1, <2>2, <2>3, FileIsPut DEF Slots
  <2>5. /\ snapped' = [s \in Stamps |-> snapped'[s]] /\ snapped'[t] = live /\ live \in Nat \ {0}
        /\ \A s \in Stamps \ {t} : snapped'[s] = snapped[s]
    BY <1>t, <2>1, <2>2, <2>3 DEF BackupShapes
  <2>6. snapped[t] = 0 /\ sets[t].gz = Absent /\ sets[t].manifest = Absent
    BY <2>2, <2>3 DEF Stage
  <2>7. sets'[t].plain = Whole(live) /\ sets'[t].gz = Absent /\ sets'[t].manifest = Absent
    BY <2>4, <2>6 DEF Slots
  <2>8. taking'.step = "compress" /\ taking' = [step |-> taking'.step, stamp |-> t]
    BY <2>2, <2>3
  <2>9. Stage(t)'
    BY <2>5, <2>7, <2>8 DEF Stage, Good
  <2>10. OneGoodSet'
    BY <2>7, FilesDiffer DEF OneGoodSet
  <2> QED
    BY <2>1, <2>2, <2>3, <2>4, <2>5, <2>6, <2>8, <2>9, <2>10, TakingMoves DEF BackupSteps
\* The files of the set under way, for the steps below.
<1>g. ASSUME taking.stamp = taken, taken \in Stamps
      PROVE  /\ sets[taken] = [g \in Slots |-> sets[taken][g]] /\ snapped[taken] \in Nat
             /\ Returned = IF sets[taken].plain # Absent THEN sets[taken].plain ELSE sets[taken].gz
  BY <1>t, <1>g DEF BackupShapes, Returned
<1>5. ASSUME KeepPlain \/ CompressFails
      PROVE  BackupInv'
  <2>1. PICK from \in {"compress", "gzip"} : Step(from, "companion")
    BY <1>5 DEF KeepPlain, CompressFails
  <2>2. UNCHANGED <<live, sets, taken, dest, restoring, snapped, finished>>
    BY <1>5 DEF KeepPlain, CompressFails, TakingOnly
  <2>3. /\ taking.stamp \in Stamps /\ taking.stamp = taken /\ taking.step = from /\ Stage(taken)
        /\ taking' = [step |-> "companion", stamp |-> taken]
    BY <2>1, <1>k DEF BackupSteps
  <2>4. PICK t \in Stamps : t = taken
    BY <2>3
  <2>5. taking'.step = "companion" /\ taking' = [step |-> taking'.step, stamp |-> t]
    BY <2>3, <2>4
  <2>6. Stage(t)'
    BY <2>1, <2>2, <2>3, <2>4, <2>5 DEF Stage, Good
  <2> QED
    BY <1>t, <2>2, <2>3, <2>4, <2>5, <2>6, TakingMoves DEF BackupSteps, BackupShapes, OneGoodSet
<1>6. ASSUME BeginCompress
      PROVE  BackupInv'
  <2>1. Step("compress", "gzip") /\ Put("gz", Partial) /\ UNCHANGED <<live, taken, dest, restoring, snapped, finished>>
    BY <1>6 DEF BeginCompress, TakingOnly
  <2>2. taking.stamp = taken /\ taken \in Stamps /\ taking.step = "compress" /\ Stage(taken)
    BY <2>1, <1>k DEF BackupSteps
  <2> PICK t \in Stamps : t = taken
    BY <2>2
  <2> DEFINE r == [sets[t] EXCEPT !["gz"] = Partial]
  <2>3. r.plain = sets[t].plain /\ r.gz = Partial /\ r.manifest = sets[t].manifest
    BY <1>g, <2>2 DEF Slots
  <2>4. Stage(t)
    BY <2>2
  <2> QED
    BY <1>f, <2>1, <2>2, <2>3, <2>4 DEF Stage, Good, Slots, BackupSteps
<1>7. ASSUME Compress
      PROVE  BackupInv'
  <2>1. /\ Step("gzip", "unlink") /\ Put("gz", sets[taking.stamp].plain)
        /\ UNCHANGED <<live, taken, dest, restoring, snapped, finished>>
    BY <1>7 DEF Compress, TakingOnly
  <2>2. taking.stamp = taken /\ taken \in Stamps /\ taking.step = "gzip" /\ Stage(taken)
    BY <2>1, <1>k DEF BackupSteps
  <2> PICK t \in Stamps : t = taken
    BY <2>2
  <2> PICK x : x = sets[t].plain
    OBVIOUS
  <2> DEFINE r == [sets[t] EXCEPT !["gz"] = x]
  <2>3. r.plain = x /\ r.gz = x /\ r.manifest = sets[t].manifest
    BY <1>g, <2>2 DEF Slots
  <2>4. Stage(t) /\ Put("gz", x)
    BY <2>1, <2>2
  <2> QED
    BY <1>f, <2>1, <2>2, <2>3, <2>4 DEF Stage, Good, Slots, BackupSteps
<1>8. ASSUME UnlinkPlain
      PROVE  BackupInv'
  <2>1. /\ Step("unlink", "companion") /\ Put("plain", Absent)
        /\ UNCHANGED <<live, taken, dest, restoring, snapped, finished>>
    BY <1>8 DEF UnlinkPlain, TakingOnly
  <2>2. taking.stamp = taken /\ taken \in Stamps /\ taking.step = "unlink" /\ Stage(taken)
    BY <2>1, <1>k DEF BackupSteps
  <2> PICK t \in Stamps : t = taken
    BY <2>2
  <2> DEFINE r == [sets[t] EXCEPT !["plain"] = Absent]
  <2>3. r.plain = Absent /\ r.gz = sets[t].gz /\ r.manifest = sets[t].manifest
    BY <1>g, <2>2 DEF Slots
  <2>4. Stage(t)
    BY <2>2
  <2> QED
    BY <1>f, <2>1, <2>2, <2>3, <2>4 DEF Stage, Good, Slots, BackupSteps
<1>9. ASSUME CopyCompanion
      PROVE  BackupInv'
  <2>1. Step("companion", "manifest") /\ UNCHANGED <<live, taken, dest, restoring, snapped, finished>>
    BY <1>9 DEF CopyCompanion, TakingOnly
  <2>2. /\ taking.stamp = taken /\ taken \in Stamps /\ taking.step = "companion" /\ Stage(taken)
        /\ taking' = [step |-> "manifest", stamp |-> taken]
    BY <2>1, <1>k DEF BackupSteps
  <2> PICK t \in Stamps : t = taken
    BY <2>2
  <2>3. CASE UNCHANGED sets
    <3>1. taking'.step = "manifest" /\ taking' = [step |-> taking'.step, stamp |-> t]
      BY <2>2
    <3>2. Stage(t)'
      BY <2>1, <2>2, <2>3, <3>1 DEF Stage, Good
    <3> QED
      BY <1>t, <2>1, <2>2, <2>3, <3>1, <3>2, TakingMoves DEF BackupSteps, BackupShapes, OneGoodSet
  <2>4. CASE Put("companion", Whole(live))
    <3> DEFINE r == [sets[t] EXCEPT !["companion"] = Whole(live)]
    <3>1. r.plain = sets[t].plain /\ r.gz = sets[t].gz /\ r.manifest = sets[t].manifest
      BY <1>g, <2>2 DEF Slots
    <3>2. Stage(t)
      BY <2>2
    <3>3. PICK w : w = Whole(live)
      OBVIOUS
    <3> QED
      BY <1>f, <2>1, <2>2, <2>4, <3>1, <3>2, <3>3 DEF Stage, Good, Slots, BackupSteps
  <2> QED
    BY <1>9, <2>3, <2>4 DEF CopyCompanion
<1>10. ASSUME WriteManifest
       PROVE  BackupInv'
  <2>1. /\ Step("manifest", "verify") /\ Put("manifest", Returned)
        /\ UNCHANGED <<live, taken, dest, restoring, snapped, finished>>
    BY <1>10 DEF WriteManifest, TakingOnly
  <2>2. taking.stamp = taken /\ taken \in Stamps /\ taking.step = "manifest" /\ Stage(taken)
    BY <2>1, <1>k DEF BackupSteps
  <2> PICK t \in Stamps : t = taken
    BY <2>2
  <2> PICK x : x = Returned
    OBVIOUS
  <2> DEFINE r == [sets[t] EXCEPT !["manifest"] = x]
  <2>3. r.plain = sets[t].plain /\ r.gz = sets[t].gz /\ r.manifest = x
    BY <1>g, <2>2 DEF Slots
  <2>4. Stage(t) /\ (x = sets[t].plain \/ x = sets[t].gz) /\ Put("manifest", x)
    BY <1>g, <2>1, <2>2
  <2> PICK v : v = snapped[t]
    OBVIOUS
  <2>5. /\ Good(sets[t].plain, v) /\ Good(sets[t].gz, v)
        /\ sets[t].plain = Whole(v) \/ (sets[t].plain = Absent /\ sets[t].gz = Whole(v))
    BY <2>2, <2>4 DEF Stage
  <2>6. Good(r.plain, v) /\ Good(r.gz, v) /\ Good(r.manifest, v)
    BY <2>3, <2>4, <2>5
  <2>7. r.plain = Whole(v) \/ (r.plain = Absent /\ r.gz = Whole(v))
    BY <2>3, <2>5
  <2> HIDE DEF r
  <2>8. r = [sets[t] EXCEPT !["manifest"] = x]
    BY DEF r
  <2> QED
    BY <1>f, <2>1, <2>2, <2>4, <2>6, <2>7, <2>8 DEF Slots, BackupSteps
\* The backup under way ends, its files as they are.
<1>e. ASSUME taking' = NoTaking, UNCHANGED <<live, sets, taken, dest, restoring, snapped>>, OneGoodSet'
      PROVE  BackupInv'
  <2>1. taking'.step = "idle" /\ taking'.stamp = 0 /\ taking' = [step |-> taking'.step, stamp |-> taking'.stamp]
    BY <1>e DEF NoTaking
  <2>2. BackupShapes'
    BY <1>e, <1>t, <2>1 DEF BackupShapes
  <2>3. \A s \in Stamps : SetIs(s)'
    BY <1>e, <1>t DEF SetIs, Of, Good
  <2>4. TakingInv'
    BY <1>n, <2>1 DEF TakingInv
  <2>5. ASSUME NEW s \in Stamps, restoring'.step # "idle" /\ restoring'.stamp = s
        PROVE  Restores(s)'
    BY <1>e, <1>n, <1>t, <2>1, <2>5 DEF RestoringInv, Restores, Hashed, Main
  <2>6. RestoringInv'
    BY <1>e, <1>t, <2>5 DEF RestoringInv
  <2> QED
    BY <1>e, <2>2, <2>3, <2>4, <2>6 DEF BackupInv
<1>11. ASSUME VerifyBackup
       PROVE  BackupInv'
  <2>1. taking.step = "verify" /\ UNCHANGED <<live, sets, taken, dest, restoring, snapped>>
    BY <1>11 DEF VerifyBackup
  <2>2. taking.stamp = taken /\ taken \in Stamps /\ Stage(taken)
    BY <1>t, <2>1 DEF TakingInv
  <2> PICK t \in Stamps : t = taken
    BY <2>2
  <2>3. CASE Returned.is = "whole" /\ taking' = [taking EXCEPT !.step = "prune"] /\ finished' = TRUE
    <3>1. Step("verify", "prune")
      BY <2>1, <2>3 DEF Step
    <3>2. taking' = [step |-> "prune", stamp |-> t]
      BY <1>k, <3>1 DEF BackupSteps
    <3>3. taking'.step = "prune" /\ taking' = [step |-> taking'.step, stamp |-> t]
      BY <3>2
    <3>4. Stage(t)'
      BY <2>1, <2>2, <3>3 DEF Stage, Good
    <3>5. OneGoodSet'
      BY <1>g, <2>1, <2>2, <2>3 DEF OneGoodSet
    <3> QED
      BY <1>t, <2>1, <2>2, <3>3, <3>4, <3>5, TakingMoves DEF BackupSteps, BackupShapes
  <2>4. CASE taking' = NoTaking /\ UNCHANGED finished
    BY <1>e, <1>t, <2>1, <2>4 DEF OneGoodSet
  <2> QED
    BY <1>11, <2>3, <2>4 DEF VerifyBackup
<1>12. ASSUME BackupKilled
       PROVE  BackupInv'
  BY <1>12, <1>e, <1>t DEF BackupKilled, OneGoodSet
<1>13. ASSUME SnapshotFails
       PROVE  BackupInv'
  <2>1. /\ taking.step = "snapshot" /\ taking' = NoTaking /\ Put("plain", Absent)
        /\ UNCHANGED <<live, taken, dest, restoring, snapped, finished>>
    BY <1>13 DEF SnapshotFails, TakingOnly
  <2>2. taking.stamp = taken /\ taken \in Stamps /\ Stage(taken)
    BY <1>t, <2>1 DEF TakingInv
  <2> PICK t \in Stamps : t = taken
    BY <2>2
  <2>3. /\ sets' = [s \in Stamps |-> sets'[s]] /\ (\A s \in Stamps : sets'[s] = [g \in Slots |-> sets'[s][g]])
        /\ sets'[t]["plain"] = Absent /\ (\A g \in Slots \ {"plain"} : sets'[t][g] = sets[t][g])
        /\ \A s \in Stamps \ {t} : sets'[s] = sets[s]
    BY <1>t, <2>1, <2>2, FileIsPut DEF Slots
  <2>4. taking'.step = "idle" /\ taking'.stamp = 0 /\ taking' = [step |-> taking'.step, stamp |-> taking'.stamp]
    BY <2>1 DEF NoTaking
  <2>5. /\ sets'[t].plain = Absent /\ sets'[t].gz = Absent /\ sets'[t].manifest = Absent
        /\ sets[t].plain = Partial /\ sets[t].gz = Absent
    BY <2>1, <2>2, <2>3 DEF Stage, Slots
  <2>6. BackupShapes'
    BY <1>t, <2>1, <2>3, <2>4 DEF BackupShapes
  <2>7. ASSUME NEW s \in Stamps
        PROVE  SetIs(s)'
    <3>1. CASE s # t
      BY <1>t, <2>1, <2>3, <3>1 DEF SetIs, Of, Good
    <3>2. CASE s = t
      BY <1>n, <2>1, <2>5, <3>2 DEF SetIs, Of, Good
    <3> QED
      BY <3>1, <3>2
  <2>8. TakingInv'
    BY <1>n, <2>4 DEF TakingInv
  <2>9. ASSUME NEW s \in Stamps, restoring'.step # "idle" /\ restoring'.stamp = s
        PROVE  Restores(s)'
    <3>1. Restores(s) /\ taking'.stamp # s
      BY <1>n, <1>t, <2>1, <2>4, <2>9 DEF RestoringInv
    <3>2. CASE s # t
      BY <2>1, <2>3, <3>1, <3>2 DEF Restores, Hashed, Main
    <3>3. CASE s = t
      <4>1. ~Hashed(s)'
        BY <2>5, <3>3, FilesDiffer DEF Hashed
      <4> QED
        BY <2>1, <3>1, <4>1 DEF Restores
    <3> QED
      BY <3>2, <3>3
  <2>10. RestoringInv'
    BY <1>t, <2>1, <2>9 DEF RestoringInv
  <2>11. OneGoodSet'
    <3> SUFFICES ASSUME finished
                 PROVE  \E s \in Stamps : sets'[s].gz.is = "whole" \/ sets'[s].plain.is = "whole"
      BY <2>1 DEF OneGoodSet
    <3>1. PICK s \in Stamps : sets[s].gz.is = "whole" \/ sets[s].plain.is = "whole"
      BY <1>t DEF OneGoodSet
    <3>2. s # t
      BY <2>5, <3>1, FilesDiffer
    <3> QED
      BY <2>3, <3>1, <3>2
  <2> QED
    BY <2>6, <2>7, <2>8, <2>10, <2>11 DEF BackupInv
<1>14. ASSUME Prune
       PROVE  BackupInv'
  <2> DEFINE kept == {s \in OnDisk : Cardinality({u \in OnDisk : u > s}) < Keep}
  <2>1. /\ taking.step = "prune" /\ taking' = NoTaking
        /\ sets' = [s \in Stamps |-> IF s \in kept THEN sets[s] ELSE NoSet]
        /\ UNCHANGED <<live, taken, dest, restoring, snapped, finished>>
    BY <1>14 DEF Prune, TakingOnly
  <2>2. taking.stamp = taken /\ taken \in Stamps /\ Stage(taken)
    BY <1>t, <2>1 DEF TakingInv
  <2> PICK t \in Stamps : t = taken
    BY <2>2
  <2>3. sets[t].plain.is = "whole" \/ sets[t].gz.is = "whole"
    BY <2>1, <2>2, FilesDiffer DEF Stage
  <2>4. t \in kept
    <3>1. t \in OnDisk
      <4>1. sets[t].plain # Absent \/ sets[t].gz # Absent
        BY <2>3, FilesDiffer
      <4> QED
        BY <4>1, SlotsAre DEF OnDisk, Files, Slots
    <3>2. {u \in OnDisk : u > t} = {}
      <4>1. ASSUME NEW u \in OnDisk, u > t
            PROVE  FALSE
        <5>1. SetIs(u) /\ u \in Stamps
          BY <1>t DEF OnDisk
        <5> QED
          BY <4>1, <5>1, SlotsAre DEF SetIs, OnDisk, Files
      <4> QED
        BY <4>1
    <3>3. Cardinality({u \in OnDisk : u > t}) = 0
      BY <3>2, FS_EmptySet
    <3> QED
      BY <1>n, <3>1, <3>3
  <2> HIDE DEF kept
  <2>5. ASSUME NEW s \in Stamps
        PROVE  sets'[s] = sets[s] \/ (sets'[s] = NoSet /\ \A g \in Slots : sets'[s][g] = Absent)
    <3>1. sets'[s] = sets[s] \/ sets'[s] = NoSet
      BY <2>1
    <3> QED
      BY <3>1, SlotsAre
  <2>6. sets'[t] = sets[t]
    BY <2>1, <2>4
  <2>7. taking'.step = "idle" /\ taking'.stamp = 0 /\ taking' = [step |-> taking'.step, stamp |-> taking'.stamp]
    BY <2>1 DEF NoTaking
  <2>8. BackupShapes'
    BY <1>t, <2>1, <2>5, <2>7, SlotsAre DEF BackupShapes
  <2>9. ASSUME NEW s \in Stamps
        PROVE  SetIs(s)'
    BY <1>t, <2>1, <2>5 DEF SetIs, Of, Good, Slots
  <2>10. TakingInv'
    BY <1>n, <2>7 DEF TakingInv
  <2>11. ASSUME NEW s \in Stamps, restoring'.step # "idle" /\ restoring'.stamp = s
         PROVE  Restores(s)'
    <3>1. Restores(s) /\ taking'.stamp # s
      BY <1>n, <1>t, <2>1, <2>7, <2>11 DEF RestoringInv
    <3>2. CASE sets'[s] = sets[s]
      BY <2>1, <3>1, <3>2 DEF Restores, Hashed, Main
    <3>3. CASE sets'[s].manifest = Absent
      <4>1. ~Hashed(s)'
        BY <3>3, FilesDiffer DEF Hashed
      <4> QED
        BY <2>1, <3>1, <4>1 DEF Restores
    <3> QED
      BY <2>5, <3>2, <3>3 DEF Slots
  <2>12. RestoringInv'
    BY <1>t, <2>1, <2>11 DEF RestoringInv
  <2>13. OneGoodSet'
    BY <2>3, <2>6 DEF OneGoodSet
  <2> QED
    BY <2>8, <2>9, <2>10, <2>12, <2>13 DEF BackupInv
<1>15. ASSUME NEW s \in Stamps, StartRestore(s)
       PROVE  BackupInv'
  <2>1. /\ Main(s) # Absent /\ SameBytes(s) /\ restoring' = [NoRestore EXCEPT !.step = "copy", !.stamp = s]
        /\ UNCHANGED <<live, sets, taking, taken, snapped, finished>>
    BY <1>15 DEF StartRestore, RestoreOnly
  <2>2. restoring' = [step |-> "copy", stamp |-> s, matches |-> FALSE]
    BY <2>1 DEF NoRestore
  <2>3. restoring'.step = "copy" /\ restoring'.stamp = s
        /\ restoring' = [step |-> restoring'.step, stamp |-> restoring'.stamp, matches |-> restoring'.matches]
    BY <2>2
  <2>4. SetIs(s)
    BY <1>t
  <2>5. s <= taken
    <3>1. ~(s > taken)
      BY <2>1, <2>4 DEF SetIs, Main, Slots
    <3> QED
      BY <1>n, <3>1
  <2>6. ASSUME Hashed(s)
        PROVE  Main(s) = Whole(snapped[s])
    <3>1. PICK m : m = sets[s].manifest
      OBVIOUS
    <3>2. m = Whole(snapped[s]) \/ m = Rotten(snapped[s])
      BY <2>4, <2>6, <3>1, FilesDiffer DEF SetIs, Of, Good, Hashed
    <3>3. [m EXCEPT !.damaged = FALSE] = Whole(snapped[s])
      BY <3>2, RottenHashed
    <3> QED
      BY <2>1, <2>6, <3>1, <3>3 DEF SameBytes
  <2>7. Restores(s)'
    <3>1. (Hashed(s)' <=> Hashed(s)) /\ Main(s)' = Main(s)
      BY <2>1 DEF Hashed, Main
    <3> QED
      BY <2>1, <2>3, <2>5, <2>6, <3>1 DEF Restores
  <2> QED
    BY <2>1, <2>3, <2>7, RestoringMoves
\* A restore ends, and with it what is known of its set.
<1>r. ASSUME restoring' = NoRestore, UNCHANGED <<live, sets, taking, taken, snapped, finished>>
      PROVE  BackupInv'
  <2>1. restoring' = [step |-> "idle", stamp |-> 0, matches |-> FALSE]
    BY <1>r DEF NoRestore
  <2>2. restoring'.step = "idle"
        /\ restoring' = [step |-> restoring'.step, stamp |-> restoring'.stamp, matches |-> restoring'.matches]
    BY <2>1
  <2> QED
    BY <1>r, <2>2, RestoringMoves
<1>16. ASSUME MovedAway \/ RestoreKilled
       PROVE  BackupInv'
  BY <1>16, <1>r DEF MovedAway, RestoreKilled, RestoreOnly
\* A restore has copied the set it reads.
<1>m. ASSUME NEW matches, restoring.step # "idle",
             UNCHANGED <<live, sets, taking, taken, snapped, finished>>,
             restoring' = [step |-> "prove", stamp |-> restoring.stamp, matches |-> matches],
             \A s \in Stamps : restoring.stamp = s /\ (Hashed(s) \/ taking.stamp = s) =>
                 dest' = Partial \/ (snapped[s] # 0 /\ dest' = Whole(snapped[s]))
      PROVE  BackupInv'
  <2>1. PICK s \in Stamps : s = restoring.stamp
    BY <1>m, <1>t DEF RestoringInv
  <2>2. restoring'.step = "prove" /\ restoring'.stamp = s
        /\ restoring' = [step |-> restoring'.step, stamp |-> restoring'.stamp, matches |-> restoring'.matches]
    BY <1>m, <2>1
  <2>3. Restores(s)'
    <3>1. (Hashed(s)' <=> Hashed(s)) /\ s <= taken
      BY <1>m, <1>t, <2>1 DEF Hashed, RestoringInv, Restores
    <3> QED
      BY <1>m, <2>1, <2>2, <3>1 DEF Restores
  <2> QED
    BY <1>m, <2>2, <2>3, RestoringMoves
<1>17. ASSUME CopyOut
       PROVE  BackupInv'
  <2>1. restoring.step = "copy" /\ UNCHANGED <<live, sets, taking, taken, snapped, finished>>
    BY <1>17 DEF CopyOut, RestoreOnly
  <2> PICK s \in Stamps : s = restoring.stamp
    BY <1>t, <2>1 DEF RestoringInv
  <2> PICK from : from = Main(s)
    OBVIOUS
  <2>2. CASE restoring' = NoRestore
    BY <1>r, <2>1, <2>2
  <2>3. CASE /\ from.is = "whole" \/ from = Partial
             /\ dest' = from /\ restoring' = [restoring EXCEPT !.step = "prove"]
    <3>1. PICK k : k = restoring
      OBVIOUS
    <3>2. k = [step |-> k.step, stamp |-> k.stamp, matches |-> k.matches]
      BY <1>t, <3>1 DEF BackupShapes
    <3>3. restoring' = [step |-> "prove", stamp |-> k.stamp, matches |-> k.matches]
      BY <2>3, <3>1, <3>2
    <3>4. Restores(s)
      BY <1>t, <2>1 DEF RestoringInv
    <3>5. ASSUME Hashed(s) \/ taking.stamp = s
          PROVE  from = Partial \/ (snapped[s] # 0 /\ from = Whole(snapped[s]))
      <4>1. SetIs(s) /\ (from = sets[s].gz \/ from = sets[s].plain)
        BY <1>t DEF Main
      <4>2. CASE Hashed(s)
        <5>1. from = Whole(snapped[s])
          BY <2>1, <3>4, <4>2 DEF Restores
        <5> QED
          BY <4>1, <5>1, FilesDiffer DEF SetIs, Of, Good, Whole, Rotten
      <4>3. CASE taking.stamp = s
        <5>1. Stage(s)
          BY <1>t, <4>3 DEF TakingInv
        <5> QED
          BY <2>3, <4>1, <5>1, FilesDiffer DEF Stage, Good
      <4> QED
        BY <3>5, <4>2, <4>3
    <3> QED
      BY <1>m, <2>1, <2>3, <3>1, <3>3, <3>5
  <2> QED
    BY <1>17, <2>2, <2>3 DEF CopyOut
<1>18. ASSUME NEW sound \in BOOLEAN, Prove(sound)
       PROVE  BackupInv'
  <2>1. restoring.step = "prove" /\ UNCHANGED <<live, sets, taking, taken, snapped, finished>>
    BY <1>18 DEF Prove, RestoreOnly
  <2> PICK s \in Stamps : s = restoring.stamp
    BY <1>t, <2>1 DEF RestoringInv
  <2>2. CASE restoring' = NoRestore
    BY <1>r, <2>1, <2>2
  <2>3. CASE /\ Hashed(s) => dest.of = sets[s].manifest.of
             /\ restoring' = [restoring EXCEPT !.step = "said", !.matches = Hashed(s)]
             /\ UNCHANGED dest
    <3>1. PICK k : k = restoring
      OBVIOUS
    <3>2. k = [step |-> k.step, stamp |-> k.stamp, matches |-> k.matches]
      BY <1>t, <3>1 DEF BackupShapes
    <3> PICK h : h = Hashed(s)
      OBVIOUS
    <3>3. restoring' = [step |-> "said", stamp |-> k.stamp, matches |-> h]
      BY <2>3, <3>1, <3>2
    <3>4. ASSUME h
          PROVE  snapped[s] # 0 /\ dest = Whole(snapped[s])
      <4>1. Restores(s) /\ SetIs(s) /\ Hashed(s)
        BY <1>t, <2>1, <3>4 DEF RestoringInv
      <4>2. dest = Partial \/ (snapped[s] # 0 /\ dest = Whole(snapped[s]))
        BY <2>1, <4>1 DEF Restores
      <4>3. sets[s].manifest.of # 0
        BY <4>1, FilesDiffer DEF SetIs, Of, Good, Hashed
      <4> QED
        BY <2>3, <4>1, <4>2, <4>3, FilesDiffer
    <3>5. restoring'.step = "said" /\ restoring'.stamp = s /\ restoring'.matches = h
          /\ restoring' = [step |-> restoring'.step, stamp |-> restoring'.stamp, matches |-> restoring'.matches]
      BY <3>1, <3>3
    <3>6. restoring'.matches => snapped[s] # 0 /\ dest = Whole(snapped[s])
      BY <3>4, <3>5
    <3>7. Restores(s)'
      <4>1. s <= taken
        BY <1>t, <2>1 DEF RestoringInv, Restores
      <4> QED
        BY <2>1, <2>3, <3>5, <3>6, <4>1 DEF Restores
    <3> QED
      BY <2>1, <3>5, <3>7, RestoringMoves
  <2> QED
    BY <1>18, <2>2, <2>3 DEF Prove
<1> QED
  BY <1>1, <1>2, <1>3, <1>4, <1>5, <1>6, <1>7, <1>8, <1>9, <1>10, <1>11, <1>12, <1>13, <1>14, <1>15, <1>16,
     <1>17, <1>18 DEF BackupNext

(***************************************************************************)
(* Any number of sets, writers, kills and flipped bits: a restore that     *)
(* says it matches the manifest has produced the archive of the moment of  *)
(* the snapshot, and once a backup was verified a whole archive stays on   *)
(* disk (write_manifest, restore, prune_backup_sets).                      *)
(***************************************************************************)
THEOREM BackupsHold == BackupSpec => []BackupsAreGood
<1>1. BackupInit => BackupInv
  <2> SUFFICES ASSUME BackupInit
               PROVE  BackupInv
    OBVIOUS
  <2>1. taking = [step |-> "idle", stamp |-> 0] /\ restoring = [step |-> "idle", stamp |-> 0, matches |-> FALSE]
    BY DEF BackupInit, NoTaking, NoRestore
  <2>2. /\ taking.step = "idle" /\ taking.stamp = 0 /\ restoring.step = "idle"
        /\ taking = [step |-> taking.step, stamp |-> taking.stamp]
        /\ restoring = [step |-> restoring.step, stamp |-> restoring.stamp, matches |-> restoring.matches]
    BY <2>1
  <2>3. \A s \in Stamps : sets[s] = NoSet /\ snapped[s] = 0 /\ (\A f \in Slots : sets[s][f] = Absent)
    BY SlotsAre DEF BackupInit
  <2>4. BackupShapes
    BY <2>2, <2>3, SlotsAre, BackupAssumption DEF BackupInit, BackupShapes
  <2>5. \A s \in Stamps : SetIs(s)
    BY <2>3 DEF SetIs, Of, Good, Slots
  <2>6. TakingInv
    BY <2>2, BackupAssumption DEF TakingInv, Stamps
  <2> QED
    BY <2>2, <2>4, <2>5, <2>6 DEF BackupInit, BackupInv, RestoringInv, OneGoodSet
<1>2. BackupInv /\ [BackupNext]_backupVars => BackupInv'
  BY BackupStep
<1>3. BackupInv => BackupsAreGood
  <2> SUFFICES ASSUME BackupInv, restoring.step = "said", restoring.matches
               PROVE  dest = Whole(snapped[restoring.stamp])
    BY DEF BackupInv, BackupsAreGood, RestoredIsSnapshot
  <2>1. PICK s \in Stamps : s = restoring.stamp
    BY DEF BackupInv, RestoringInv
  <2> QED
    BY <2>1 DEF BackupInv, RestoringInv, Restores
<1> QED
  BY <1>1, <1>2, <1>3, PTL DEF BackupSpec

-----------------------------------------------------------------------------
(* The themes of the archive and the drafts placed in them                 *)

Filled(keys) == IsFiniteSet(keys) /\ keys # {}
GroupsAreWide(G) == \A g \in G : g \subseteq Chunks /\ Filled(NuggetsOf(g))
ThemesShapes ==
    /\ themes = [i \in DOMAIN themes |-> themes[i]]
    /\ cards = [d \in DOMAIN cards |-> cards[d]]
    /\ grouping = [p \in Groupers |-> grouping[p]]
    /\ drafting = [t \in Drafters |-> drafting[t]]
    /\ \A d \in DOMAIN cards :
          cards[d] = [home |-> cards[d].home, keys |-> cards[d].keys, saved |-> cards[d].saved]
    /\ \A p \in Groupers :
          grouping[p] = [step |-> grouping[p].step, groups |-> grouping[p].groups, read |-> grouping[p].read]
\* A draft under way is of a theme that was numbered, and of what that theme
\* holds for as long as it is there.
DraftOf(t) ==
    drafting[t].step = "model" =>
        /\ drafting[t].theme \in Nat /\ drafting[t].theme < nextTheme
        /\ Filled(drafting[t].keys)
        /\ drafting[t].theme \in DOMAIN themes => themes[drafting[t].theme] = drafting[t].keys
ThemesInv ==
    /\ ThemesShapes
    /\ nextTheme \in Nat \ {0}
    /\ \A i \in DOMAIN themes : i \in Nat \ {0} /\ i < nextTheme /\ Filled(themes[i])
    /\ \A d \in DOMAIN cards : IsFiniteSet(cards[d].keys)
    /\ \A p \in Groupers : GroupsAreWide(grouping[p].groups)
    /\ \A t \in Drafters : DraftOf(t)

(* From a chunk something is reached: the least set that holds it and that
   no link leaves.                                                          *)
LEMMA ReachedIsAGroup ==
    ASSUME NEW tops, NEW i \in Chunks
    PROVE  Reached(tops, i) \in SUBSET Chunks
<1> DEFINE S == {c \in Chunks : \A R \in SUBSET Chunks : i \in R /\ Apart(tops, R) => c \in R}
<1>1. S \in SUBSET Chunks /\ i \in S
  OBVIOUS
<1>2. Apart(tops, S)
  <2> SUFFICES ASSUME NEW x \in S, NEW y \in Chunks \ S
               PROVE  ~(y \in tops[x] /\ x \in tops[y])
    BY DEF Apart
  <2>1. PICK R \in SUBSET Chunks : i \in R /\ Apart(tops, R) /\ y \notin R
    OBVIOUS
  <2>2. x \in R
    BY <2>1
  <2> QED
    BY <2>1, <2>2 DEF Apart
<1>3. \A R \in SUBSET S : i \in R /\ Apart(tops, R) => R = S
  OBVIOUS
<1> HIDE DEF S
<1> QED
  BY <1>1, <1>2, <1>3 DEF Reached

LEMMA LinkedAreChunks ==
    ASSUME NEW tops, NEW g \in Linked(tops)
    PROVE  g \subseteq Chunks
BY ReachedIsAGroup DEF Linked

\* What a pass puts together are sets of chunks of enough nuggets.
LEMMA ClustersAreWide ==
    ASSUME NEW tops, NEW G \in Clusters(tops)
    PROVE  GroupsAreWide(G)
<1> SUFFICES ASSUME NEW g \in G
             PROVE  g \subseteq Chunks /\ Filled(NuggetsOf(g))
  BY DEF GroupsAreWide
<1> DEFINE L == Linked(tops)
           All == UNION {Pieces(tops, h) : h \in L}
<1>1. PICK pick \in [L -> All] :
          /\ \A h \in L : pick[h] \in Pieces(tops, h)
          /\ G = {h \in UNION Range(pick) : Cardinality(NuggetsOf(h)) >= MinNuggets}
  BY DEF Clusters
<1>2. PICK h \in L : g \in pick[h]
  BY <1>1 DEF Range
<1>3. \A part \in Pieces(tops, h) : \A k \in part : k = h \/ k \in Linked(Tighter[tops])
  BY DEF Pieces
<1>4. g = h \/ g \in Linked(Tighter[tops])
  BY <1>1, <1>2, <1>3
<1>5. g \subseteq Chunks
  BY <1>4, LinkedAreChunks
<1>6. IsFiniteSet(g)
  BY <1>5, ThemesAssumption, FS_Subset
<1>7. [c \in g |-> NuggetOf[c]] \in Surjection(g, NuggetsOf(g))
  BY DEF Surjection, NuggetsOf
<1>8. IsFiniteSet(NuggetsOf(g))
  BY <1>6, <1>7, FS_Surjection
<1>9. Cardinality(NuggetsOf(g)) >= MinNuggets
  BY <1>1
<1>10. NuggetsOf(g) # {}
  <2>1. Cardinality({}) = 0
    BY FS_EmptySet
  <2>2. MinNuggets \in Nat \ {0}
    BY ThemesAssumption
  <2>3. ASSUME NuggetsOf(g) = {} PROVE FALSE
    <3>1. Cardinality(NuggetsOf(g)) = 0
      BY <2>1, <2>3
    <3>2. 0 >= MinNuggets
      BY <3>1, <1>9
    <3> QED
      BY <2>2, <3>2
  <2> QED
    BY <2>3
<1> QED
  BY <1>5, <1>8, <1>10 DEF Filled

\* Some of finitely bounded counts is the largest.
LEMMA LargestCount ==
    ASSUME NEW I, I # {}, NEW f, NEW n \in Nat, \A i \in I : f[i] \in 0..n
    PROVE  \E i \in I : \A j \in I : f[j] <= f[i]
<1> DEFINE R == {n - f[i] : i \in I}
<1>0. \A i \in I : n - f[i] \in Nat
  OBVIOUS
<1>1. R \subseteq Nat /\ R # {}
  BY <1>0
<1>2. \E m \in R : \A k \in R : ~(<<k, m>> \in OpToRel(<, Nat))
  BY <1>1, WFMin, NatLessThanWellFounded
<1>3. PICK i \in I : \A k \in R : ~(<<k, n - f[i]>> \in OpToRel(<, Nat))
  BY <1>2
<1>4. \A j \in I : n - f[j] \in R /\ n - f[j] \in Nat /\ n - f[i] \in Nat
  BY <1>1
<1>5. \A j \in I : ~(n - f[j] < n - f[i])
  BY <1>3, <1>4 DEF OpToRel
<1>6. \A j \in I : f[j] <= f[i]
  BY <1>5
<1> QED
  BY <1>6

\* A set of numbers has a least one.
LEMMA LeastTheme ==
    ASSUME NEW T \in SUBSET Nat, T # {}
    PROVE  Min(T) \in T
<1>1. \E m \in T : \A n \in T : ~(<<n, m>> \in OpToRel(<, Nat))
  BY WFMin, NatLessThanWellFounded
<1>2. \A m, n \in Nat : ~(<<n, m>> \in OpToRel(<, Nat)) => m <= n
  BY DEF OpToRel
<1>3. \E m \in T : \A n \in T : m <= n
  BY <1>1, <1>2
<1> QED
  BY <1>3 DEF Min

(* Where a draft goes: nowhere only when no theme shares a nugget with it. *)
Placed(pool, keys, home) ==
    IF home = Detached THEN \A i \in DOMAIN pool : pool[i] \cap keys = {}
    ELSE home \in DOMAIN pool /\ pool[home] \cap keys # {}
LEMMA BestHome ==
    ASSUME NEW pool, DOMAIN pool \subseteq Nat \ {0}, NEW keys, IsFiniteSet(keys)
    PROVE  Placed(pool, keys, BestOverlapHome(pool, keys))
<1> DEFINE Shared(i) == Cardinality(pool[i] \cap keys)
           Sharing == {i \in DOMAIN pool : Shared(i) > 0 /\ \A j \in DOMAIN pool : Shared(j) <= Shared(i)}
           f == [i \in DOMAIN pool |-> Shared(i)]
<1>1. BestOverlapHome(pool, keys) = IF Sharing = {} THEN Detached ELSE Min(Sharing)
  BY DEF BestOverlapHome
<1>2. Cardinality(keys) \in Nat
  BY FS_CardinalityType
<1>3. ASSUME NEW i \in DOMAIN pool
      PROVE  Shared(i) \in 0..Cardinality(keys) /\ (pool[i] \cap keys = {} <=> Shared(i) = 0)
  <2>1. IsFiniteSet(pool[i] \cap keys) /\ Shared(i) <= Cardinality(keys)
    BY FS_Subset
  <2>2. Shared(i) \in Nat
    BY <2>1, FS_CardinalityType
  <2> QED
    BY <1>2, <2>1, <2>2, FS_EmptySet
<1>4. CASE Sharing = {}
  <2> SUFFICES ASSUME NEW i \in DOMAIN pool, pool[i] \cap keys # {}
               PROVE  FALSE
    BY <1>1, <1>4 DEF Placed
  <2>1. \A j \in DOMAIN pool : f[j] \in 0..Cardinality(keys) /\ f[j] = Shared(j)
    BY <1>3
  <2>2. PICK k \in DOMAIN pool : \A j \in DOMAIN pool : f[j] <= f[k]
    <3> HIDE DEF f
    <3> QED
      BY <2>1, <1>2, LargestCount
  <2>3. Shared(i) > 0 /\ Shared(i) <= Shared(k)
    BY <1>3, <2>1, <2>2
  <2>4. k \in Sharing
    BY <1>2, <1>3, <2>1, <2>2, <2>3
  <2> QED
    BY <2>4, <1>4
<1>5. CASE Sharing # {}
  <2>1. Min(Sharing) \in Sharing
    <3>1. Sharing \in SUBSET Nat
      OBVIOUS
    <3> QED
      BY <3>1, <1>5, LeastTheme
  <2>2. PICK m \in DOMAIN pool : m = Min(Sharing) /\ Shared(m) > 0
    BY <2>1
  <2>3. pool[m] \cap keys # {} /\ m # Detached
    <3> HIDE DEF Sharing
    <3>1. Shared(m) > 0 /\ Shared(m) # 0
      BY <2>2
    <3>2. pool[m] \cap keys # {}
      BY <1>3, <3>1
    <3>3. m # Detached
      BY DEF Detached
    <3> QED
      BY <3>2, <3>3
  <2>4. BestOverlapHome(pool, keys) = m
    BY <1>1, <1>5, <2>2
  <2> QED
    BY <2>3, <2>4 DEF Placed
<1> QED
  BY <1>4, <1>5

-----------------------------------------------------------------------------
LEMMA ThemesStart == ThemesInit => ThemesInv
BY DEF ThemesInit, ThemesInv, ThemesShapes, NoCards, NoGrouping, NoDrafting, GroupsAreWide, DraftOf

\* A step of a pass that leaves the archive alone.
LEMMA GrouperMoves ==
    ASSUME ThemesInv, NEW p \in Groupers, NEW step, NEW groups, NEW read, GroupsAreWide(groups),
           grouping' = [grouping EXCEPT ![p] = [step |-> step, groups |-> groups, read |-> read]],
           UNCHANGED <<themes, nextTheme, cards, drafting>>
    PROVE  ThemesInv'
<1>1. \A q \in Groupers : grouping'[q] = IF q = p THEN [step |-> step, groups |-> groups, read |-> read] ELSE grouping[q]
  BY DEF ThemesInv, ThemesShapes
<1>2. ThemesShapes'
  BY <1>1 DEF ThemesInv, ThemesShapes
<1>3. \A q \in Groupers : GroupsAreWide(grouping'[q].groups)
  BY <1>1 DEF ThemesInv
<1>4. \A t \in Drafters : DraftOf(t)'
  BY DEF ThemesInv, DraftOf
<1> QED
  BY <1>2, <1>3, <1>4 DEF ThemesInv, GroupsAreWide

\* A step of a drafter: the archive may gain a draft.
LEMMA DrafterMoves ==
    ASSUME ThemesInv, NEW t \in Drafters, NEW step, NEW i, NEW keys,
           drafting' = [drafting EXCEPT ![t] = [step |-> step, theme |-> i, keys |-> keys]],
           step = "model" => i \in DOMAIN themes /\ keys = themes[i],
           UNCHANGED <<themes, nextTheme, cards, grouping>>
    PROVE  ThemesInv'
<1>1. \A u \in Drafters : drafting'[u] = IF u = t THEN [step |-> step, theme |-> i, keys |-> keys] ELSE drafting[u]
  BY DEF ThemesInv, ThemesShapes
<1>2. ThemesShapes'
  BY <1>1 DEF ThemesInv, ThemesShapes
<1>3. ASSUME NEW u \in Drafters
      PROVE  DraftOf(u)'
  <2>1. DraftOf(u)
    BY DEF ThemesInv
  <2> QED
    BY <1>1, <2>1 DEF ThemesInv, DraftOf
<1> QED
  BY <1>2, <1>3 DEF ThemesInv, GroupsAreWide

\* Only drafts change, and their nuggets do not.
LEMMA CardsMove ==
    ASSUME ThemesInv, UNCHANGED <<themes, nextTheme, drafting, grouping>>,
           cards' = [d \in DOMAIN cards' |-> cards'[d]],
           \A d \in DOMAIN cards' :
              /\ cards'[d] = [home |-> cards'[d].home, keys |-> cards'[d].keys, saved |-> cards'[d].saved]
              /\ IsFiniteSet(cards'[d].keys)
    PROVE  ThemesInv'
BY DEF ThemesInv, ThemesShapes, GroupsAreWide, DraftOf

\* What a step of a pass makes of its record.
LEMMA PassRecords ==
    ASSUME NEW r, r = [step |-> r.step, groups |-> r.groups, read |-> r.read], NEW s, NEW x
    PROVE  /\ [r EXCEPT !.step = s] = [step |-> s, groups |-> r.groups, read |-> r.read]
           /\ [r EXCEPT !.step = s, !.groups = x] = [step |-> s, groups |-> x, read |-> r.read]
           /\ [r EXCEPT !.step = s, !.read = x] = [step |-> s, groups |-> r.groups, read |-> x]
<1>1. [r EXCEPT !.step = s] = [step |-> s, groups |-> r.groups, read |-> r.read]
  OBVIOUS
<1> DEFINE t == [step |-> s, groups |-> r.groups, read |-> r.read]
<1>2. [r EXCEPT !.step = s, !.groups = x] = [t EXCEPT !.groups = x]
  BY <1>1
<1>3. [r EXCEPT !.step = s, !.read = x] = [t EXCEPT !.read = x]
  BY <1>1
<1>4. [t EXCEPT !.groups = x] = [step |-> s, groups |-> x, read |-> r.read]
  OBVIOUS
<1>5. [t EXCEPT !.read = x] = [step |-> s, groups |-> r.groups, read |-> x]
  OBVIOUS
<1> QED
  BY <1>1, <1>2, <1>3, <1>4, <1>5

LEMMA PassStep ==
    ASSUME ThemesInv, NEW p \in Groupers,
           \/ StartGrouping(p) \/ IndexChunks(p) \/ FindGroups(p) \/ GroupingFails(p) \/ ReadCards(p)
    PROVE  ThemesInv' /\ UNCHANGED cards
<1> DEFINE g == grouping[p]
<1>0. /\ grouping = [q \in Groupers |-> grouping[q]] /\ GroupsAreWide(g.groups)
      /\ g = [step |-> g.step, groups |-> g.groups, read |-> g.read]
  BY DEF ThemesInv, ThemesShapes
<1>1. CASE StartGrouping(p) \/ IndexChunks(p)
  <2>1. PICK s \in {"embedded", "indexed"} : grouping' = [grouping EXCEPT ![p].step = s]
    BY <1>1 DEF StartGrouping, IndexChunks, Grouping
  <2>2. grouping' = [grouping EXCEPT ![p] = [step |-> s, groups |-> g.groups, read |-> g.read]]
    BY <1>0, <2>1, PassRecords
  <2>3. UNCHANGED <<themes, nextTheme, cards, drafting>>
    BY <1>1 DEF StartGrouping, IndexChunks
  <2> QED
    BY <1>0, <2>2, <2>3, GrouperMoves
<1>2. CASE FindGroups(p)
  <2>0. PICK tops \in Answers(p) : \E groups \in Clusters(tops) :
           grouping' = [grouping EXCEPT ![p].step = "grouped", ![p].groups = groups]
    BY <1>2 DEF FindGroups
  <2>1. PICK groups \in Clusters(tops) :
           grouping' = [grouping EXCEPT ![p].step = "grouped", ![p].groups = groups]
    BY <2>0
  <2>2. grouping' = [grouping EXCEPT ![p] = [step |-> "grouped", groups |-> groups, read |-> g.read]]
    BY <1>0, <2>1, PassRecords
  <2>3. UNCHANGED <<themes, nextTheme, cards, drafting>>
    BY <1>2 DEF FindGroups
  <2> QED
    BY <2>2, <2>3, ClustersAreWide, GrouperMoves
<1>3. CASE GroupingFails(p)
  <2>1. grouping' = [grouping EXCEPT ![p] = [step |-> "idle", groups |-> {}, read |-> {}]]
    BY <1>3 DEF GroupingFails, NoGrouping
  <2>2. UNCHANGED <<themes, nextTheme, cards, drafting>> /\ GroupsAreWide({})
    BY <1>3 DEF GroupingFails, GroupsAreWide
  <2> QED
    BY <2>1, <2>2, GrouperMoves
<1>4. CASE ReadCards(p)
  <2>0. PICK R : R = DOMAIN cards
    OBVIOUS
  <2>1. grouping' = [grouping EXCEPT ![p].step = "replacing", ![p].read = R]
    BY <1>4, <2>0 DEF ReadCards
  <2>2. grouping' = [grouping EXCEPT ![p] = [step |-> "replacing", groups |-> g.groups, read |-> R]]
    <3>1. grouping' = [grouping EXCEPT ![p] = [g EXCEPT !.step = "replacing", !.read = R]]
      BY <2>1
    <3>2. [g EXCEPT !.step = "replacing", !.read = R] = [step |-> "replacing", groups |-> g.groups, read |-> R]
      <4> DEFINE t == [step |-> "replacing", groups |-> g.groups, read |-> g.read]
      <4>1. [g EXCEPT !.step = "replacing"] = t
        BY <1>0, PassRecords
      <4>2. [g EXCEPT !.step = "replacing", !.read = R] = [t EXCEPT !.read = R]
        BY <4>1
      <4> QED
        BY <4>2
    <3> QED
      BY <3>1, <3>2
  <2>3. UNCHANGED <<themes, nextTheme, cards, drafting>>
    BY <1>4 DEF ReadCards
  <2> QED
    BY <1>0, <2>2, <2>3, GrouperMoves
<1> QED
  BY <1>1, <1>2, <1>3, <1>4

\* What a replacement numbers is new, and each theme holds some nugget.
LEMMA ReplaceStep ==
    ASSUME ThemesInv, NEW p \in Groupers, ReplaceClusters(p)
    PROVE  /\ ThemesInv'
           /\ \A d \in DOMAIN cards' :
                 /\ d \in DOMAIN cards
                 /\ cards'[d].home # cards[d].home => Placed(themes', cards'[d].keys, cards'[d].home)
<1> DEFINE G == grouping[p].groups
           ids == nextTheme..(nextTheme + Cardinality(G) - 1)
<1>1. PICK f \in Bijection(ids, G) :
             /\ themes' = [i \in ids |-> NuggetsOf(f[i])]
             /\ nextTheme' = nextTheme + Cardinality(G)
             /\ cards' = [d \in DOMAIN cards |->
                    IF d \in grouping[p].read
                    THEN [cards[d] EXCEPT !.home = BestOverlapHome(themes', cards[d].keys)]
                    ELSE cards[d]]
  BY DEF ReplaceClusters
<1>2. /\ grouping' = [grouping EXCEPT ![p] = [step |-> "idle", groups |-> {}, read |-> {}]]
      /\ UNCHANGED drafting
  BY DEF ReplaceClusters, NoGrouping
<1>3. GroupsAreWide(G) /\ nextTheme \in Nat \ {0}
  BY DEF ThemesInv
<1>4. Cardinality(G) \in Nat
  <2>1. G \in SUBSET (SUBSET Chunks)
    BY <1>3 DEF GroupsAreWide
  <2>2. IsFiniteSet(SUBSET Chunks)
    BY ThemesAssumption, FS_SUBSET
  <2>3. IsFiniteSet(G)
    BY <2>1, <2>2, FS_Subset
  <2> QED
    BY <2>3, FS_CardinalityType
<1>5. \A i \in ids : f[i] \in G
  BY DEF Bijection, Injection
<1>6. \A i \in DOMAIN themes' : i \in Nat \ {0} /\ i < nextTheme' /\ i >= nextTheme /\ Filled(themes'[i])
  BY <1>1, <1>3, <1>4, <1>5 DEF GroupsAreWide
<1>7. DOMAIN themes' \subseteq Nat \ {0}
  BY <1>6
<1>8. ASSUME NEW d \in DOMAIN cards
      PROVE  /\ cards'[d].keys = cards[d].keys /\ IsFiniteSet(cards'[d].keys)
             /\ cards'[d] = [home |-> cards'[d].home, keys |-> cards'[d].keys, saved |-> cards'[d].saved]
             /\ cards'[d].home # cards[d].home => Placed(themes', cards'[d].keys, cards'[d].home)
  <2>1. cards[d] = [home |-> cards[d].home, keys |-> cards[d].keys, saved |-> cards[d].saved]
        /\ IsFiniteSet(cards[d].keys)
    BY DEF ThemesInv, ThemesShapes
  <2>2. CASE d \in grouping[p].read
    <3>1. cards'[d] = [cards[d] EXCEPT !.home = BestOverlapHome(themes', cards[d].keys)]
      BY <1>1, <2>2
    <3>2. /\ cards'[d].home = BestOverlapHome(themes', cards[d].keys) /\ cards'[d].keys = cards[d].keys
          /\ cards'[d] = [home |-> cards'[d].home, keys |-> cards'[d].keys, saved |-> cards'[d].saved]
      BY <2>1, <3>1
    <3>3. Placed(themes', cards[d].keys, BestOverlapHome(themes', cards[d].keys))
      BY <1>7, <2>1, BestHome
    <3> QED
      BY <2>1, <3>2, <3>3
  <2>3. CASE d \notin grouping[p].read
    <3>1. cards'[d] = cards[d]
      BY <1>1, <2>3
    <3> QED
      BY <2>1, <3>1
  <2> QED
    BY <2>2, <2>3
<1>9. ThemesShapes'
  <2>1. \A q \in Groupers : grouping'[q] = IF q = p THEN [step |-> "idle", groups |-> {}, read |-> {}] ELSE grouping[q]
    BY <1>2 DEF ThemesInv, ThemesShapes
  <2>2. DOMAIN cards' = DOMAIN cards /\ cards' = [d \in DOMAIN cards' |-> cards'[d]] /\ themes' = [i \in DOMAIN themes' |-> themes'[i]]
    BY <1>1
  <2> QED
    BY <1>2, <1>8, <2>1, <2>2 DEF ThemesInv, ThemesShapes
<1>10. \A q \in Groupers : GroupsAreWide(grouping'[q].groups)
  BY <1>2 DEF ThemesInv, ThemesShapes, GroupsAreWide
<1>11. ASSUME NEW t \in Drafters
       PROVE  DraftOf(t)'
  <2>1. DraftOf(t)
    BY DEF ThemesInv
  <2> QED
    BY <1>1, <1>2, <1>3, <1>4, <1>6, <2>1 DEF DraftOf
<1>12. nextTheme' \in Nat \ {0} /\ DOMAIN cards' = DOMAIN cards
  BY <1>1, <1>3, <1>4
<1> QED
  BY <1>6, <1>8, <1>9, <1>10, <1>11, <1>12 DEF ThemesInv, GroupsAreWide

LEMMA DraftStep ==
    ASSUME ThemesInv, NEW t \in Drafters, (\E i \in DOMAIN themes : StartDraft(t, i)) \/ NotDrafted(t)
    PROVE  ThemesInv' /\ UNCHANGED cards
<1>1. CASE \E i \in DOMAIN themes : StartDraft(t, i)
  BY <1>1, DrafterMoves DEF StartDraft
<1>2. CASE NotDrafted(t)
  <2>1. /\ drafting' = [drafting EXCEPT ![t] = [step |-> "idle", theme |-> 0, keys |-> {}]]
        /\ UNCHANGED <<themes, nextTheme, cards, grouping>>
    BY <1>2 DEF NotDrafted, NoDrafting
  <2>2. "idle" # "model"
    OBVIOUS
  <2> QED
    BY <2>1, <2>2, DrafterMoves
<1> QED
  BY <1>1, <1>2

\* A draft is placed where it was made from, or where it shares most.
LEMMA InsertStep ==
    ASSUME ThemesInv, NEW t \in Drafters, InsertForTheme(t)
    PROVE  /\ ThemesInv'
           /\ \A d \in DOMAIN cards' :
                 d \notin DOMAIN cards \/ cards'[d].home # cards[d].home =>
                    Placed(themes', cards'[d].keys, cards'[d].home)
<1> DEFINE d == drafting[t]
           card == [home |-> HomeOf(d.theme, d.keys), keys |-> d.keys, saved |-> FALSE]
<1>1. /\ d.step = "model"
      /\ cards' = [c \in DOMAIN cards \cup {nextCard} |-> IF c = nextCard THEN card ELSE cards[c]]
      /\ drafting' = [drafting EXCEPT ![t] = [step |-> "idle", theme |-> 0, keys |-> {}]]
      /\ UNCHANGED <<themes, nextTheme, grouping>>
  BY DEF InsertForTheme, NoDrafting
<1>2. /\ Filled(d.keys) /\ (d.theme \in DOMAIN themes => themes[d.theme] = d.keys)
      /\ DOMAIN themes \subseteq Nat \ {0}
  BY <1>1 DEF ThemesInv, DraftOf
<1>3. Placed(themes, d.keys, HomeOf(d.theme, d.keys))
  <2>1. CASE d.theme \in DOMAIN themes
    BY <1>2, <2>1 DEF HomeOf, Placed, Filled, Detached
  <2>2. CASE d.theme \notin DOMAIN themes
    <3>1. Placed(themes, d.keys, BestOverlapHome(themes, d.keys))
      BY <1>2, BestHome DEF Filled
    <3> QED
      BY <2>2, <3>1 DEF HomeOf
  <2> QED
    BY <2>1, <2>2
<1>4. \A c \in DOMAIN cards' : cards'[c] = card \/ (c \in DOMAIN cards /\ cards'[c] = cards[c])
  BY <1>1
<1>5. \A c \in DOMAIN cards' : cards'[c] = card =>
         /\ Placed(themes', cards'[c].keys, cards'[c].home) /\ IsFiniteSet(cards'[c].keys)
         /\ cards'[c] = [home |-> cards'[c].home, keys |-> cards'[c].keys, saved |-> cards'[c].saved]
  <2>1. /\ Placed(themes', card.keys, card.home) /\ IsFiniteSet(card.keys)
        /\ card = [home |-> card.home, keys |-> card.keys, saved |-> card.saved]
    BY <1>1, <1>2, <1>3 DEF Filled
  <2> HIDE DEF card
  <2> QED
    BY <2>1
<1>6. \A c \in DOMAIN cards : IsFiniteSet(cards[c].keys) /\
         cards[c] = [home |-> cards[c].home, keys |-> cards[c].keys, saved |-> cards[c].saved]
  BY DEF ThemesInv, ThemesShapes
<1>7. /\ cards' = [c \in DOMAIN cards' |-> cards'[c]]
      /\ \A c \in DOMAIN cards' :
            /\ cards'[c] = [home |-> cards'[c].home, keys |-> cards'[c].keys, saved |-> cards'[c].saved]
            /\ IsFiniteSet(cards'[c].keys)
  BY <1>1, <1>4, <1>5, <1>6
<1>8. \A u \in Drafters : drafting'[u] = IF u = t THEN [step |-> "idle", theme |-> 0, keys |-> {}] ELSE drafting[u]
  BY <1>1 DEF ThemesInv, ThemesShapes
<1>9. ThemesInv'
  <2>1. ThemesShapes'
    BY <1>1, <1>7, <1>8 DEF ThemesInv, ThemesShapes
  <2>2. ASSUME NEW u \in Drafters
        PROVE  DraftOf(u)'
    BY <1>1, <1>8 DEF ThemesInv, DraftOf
  <2> QED
    BY <1>1, <1>7, <2>1, <2>2 DEF ThemesInv, GroupsAreWide
<1>10. \A c \in DOMAIN cards' : c \notin DOMAIN cards \/ cards'[c].home # cards[c].home => cards'[c] = card
  BY <1>4
<1> HIDE DEF card
<1> QED
  BY <1>5, <1>9, <1>10

LEMMA SaveStep ==
    ASSUME ThemesInv,
           \/ \E s \in Savers : (\E d \in DOMAIN cards : ReadCard(s, d)) \/ PromoteClusterIdea(s)
           \/ \E d \in DOMAIN cards : DiscardCard(d)
    PROVE  /\ ThemesInv'
           /\ DOMAIN cards' \subseteq DOMAIN cards
           /\ \A d \in DOMAIN cards' : cards'[d].home = cards[d].home
<1>0. /\ cards = [d \in DOMAIN cards |-> cards[d]]
      /\ \A d \in DOMAIN cards :
            /\ cards[d] = [home |-> cards[d].home, keys |-> cards[d].keys, saved |-> cards[d].saved]
            /\ IsFiniteSet(cards[d].keys)
  BY DEF ThemesInv, ThemesShapes
<1>1. ASSUME NEW s \in Savers, NEW d \in DOMAIN cards, ReadCard(s, d)
      PROVE  UNCHANGED <<themes, nextTheme, drafting, grouping, cards>>
  BY <1>1 DEF ReadCard
<1>2. ASSUME NEW s \in Savers, PromoteClusterIdea(s)
      PROVE  /\ UNCHANGED <<themes, nextTheme, drafting, grouping>>
             /\ cards' = cards \/ (saving[s] \in DOMAIN cards /\ cards' = [cards EXCEPT ![saving[s]].saved = TRUE])
  BY <1>2 DEF PromoteClusterIdea
<1>3. ASSUME NEW d \in DOMAIN cards, DiscardCard(d)
      PROVE  /\ UNCHANGED <<themes, nextTheme, drafting, grouping>>
             /\ cards' = [c \in DOMAIN cards \ {d} |-> cards[c]]
  BY <1>3 DEF DiscardCard, Restrict
<1>4. /\ UNCHANGED <<themes, nextTheme, drafting, grouping>>
      /\ DOMAIN cards' \subseteq DOMAIN cards
      /\ cards' = [d \in DOMAIN cards' |-> cards'[d]]
      /\ \A d \in DOMAIN cards' :
            /\ cards'[d] = cards[d] \/ cards'[d] = [cards[d] EXCEPT !.saved = TRUE]
            /\ d \in DOMAIN cards
  <2>0. UNCHANGED <<themes, nextTheme, drafting, grouping>>
    BY <1>1, <1>2, <1>3
  <2>1. CASE cards' = cards
    BY <1>0, <2>0, <2>1
  <2>2. ASSUME NEW e \in DOMAIN cards, cards' = [cards EXCEPT ![e].saved = TRUE]
        PROVE  /\ DOMAIN cards' = DOMAIN cards /\ cards' = [d \in DOMAIN cards' |-> cards'[d]]
               /\ \A d \in DOMAIN cards : cards'[d] = cards[d] \/ cards'[d] = [cards[d] EXCEPT !.saved = TRUE]
    BY <1>0, <2>2
  <2>3. ASSUME NEW e \in DOMAIN cards, cards' = [c \in DOMAIN cards \ {e} |-> cards[c]]
        PROVE  /\ DOMAIN cards' \subseteq DOMAIN cards /\ cards' = [d \in DOMAIN cards' |-> cards'[d]]
               /\ \A d \in DOMAIN cards' : cards'[d] = cards[d]
    BY <2>3
  <2> QED
    BY <1>1, <1>2, <1>3, <2>0, <2>1, <2>2, <2>3
<1>5. \A d \in DOMAIN cards' :
         /\ cards'[d].home = cards[d].home
         /\ cards'[d] = [home |-> cards'[d].home, keys |-> cards'[d].keys, saved |-> cards'[d].saved]
         /\ IsFiniteSet(cards'[d].keys)
  BY <1>0, <1>4
<1> QED
  BY <1>4, <1>5, CardsMove

Placing ==
    \A d \in DOMAIN cards' :
       d \notin DOMAIN cards \/ cards'[d].home # cards[d].home =>
          IF cards'[d].home = Detached THEN \A i \in DOMAIN themes' : themes'[i] \cap cards'[d].keys = {}
          ELSE /\ cards'[d].home \in DOMAIN themes'
               /\ themes'[cards'[d].home] \cap cards'[d].keys # {}

LEMMA ThemesStep == ThemesInv /\ [ThemesNext]_themeVars => ThemesInv' /\ Placing
<1> SUFFICES ASSUME ThemesInv, [ThemesNext]_themeVars
             PROVE  ThemesInv' /\ Placing
  OBVIOUS
<1>1. ASSUME NEW p \in Groupers,
             StartGrouping(p) \/ IndexChunks(p) \/ FindGroups(p) \/ GroupingFails(p) \/ ReadCards(p)
      PROVE  ThemesInv' /\ Placing
  BY <1>1, PassStep DEF Placing
<1>2. ASSUME NEW p \in Groupers, ReplaceClusters(p)
      PROVE  ThemesInv' /\ Placing
  BY <1>2, ReplaceStep DEF Placing, Placed
<1>3. ASSUME NEW t \in Drafters, (\E i \in DOMAIN themes : StartDraft(t, i)) \/ NotDrafted(t)
      PROVE  ThemesInv' /\ Placing
  BY <1>3, DraftStep DEF Placing
<1>4. ASSUME NEW t \in Drafters, InsertForTheme(t)
      PROVE  ThemesInv' /\ Placing
  BY <1>4, InsertStep DEF Placing, Placed
<1>5. CASE \/ \E s \in Savers : (\E d \in DOMAIN cards : ReadCard(s, d)) \/ PromoteClusterIdea(s)
           \/ \E d \in DOMAIN cards : DiscardCard(d)
  BY <1>5, SaveStep DEF Placing
<1>6. CASE UNCHANGED themeVars
  BY <1>6 DEF themeVars, ThemesInv, ThemesShapes, GroupsAreWide, DraftOf, Placing
<1> QED
  BY <1>1, <1>2, <1>3, <1>4, <1>5, <1>6 DEF ThemesNext

(* A draft that is placed, when it is written or when a pass replaces the
   themes, goes to a theme that is there and shares a nugget with it, and is
   detached only when none does: insert_for_theme and replace_clusters.     *)
THEOREM DraftsArePlaced == ThemesSpec => PlacedAlive
<1>1. ThemesInv /\ [ThemesNext]_themeVars => [Placing]_themeVars
  BY ThemesStep
<1> QED
  BY ThemesStart, ThemesStep, <1>1, PTL DEF ThemesSpec, PlacedAlive, Placing

-----------------------------------------------------------------------------
(* The edit regime: the log of the settings is true                        *)

Image == UNION {[S -> Value] : S \in SUBSET (Cell \cup Setting)}
Proposal == [before : Image, after : Image, status : Status]
Edit == [before : Image, after : Image, of : Nat, reverts : Nat]
\* Where a thread holds the lock over several steps.
Locked == {"file", "log", "undo", "unfile", "unlog"}
EditStages == {"idle", "reject", "compare", "write", "wait"} \cup Locked

EditTypes ==
    /\ current \in [Cell \cup Setting -> Value]
    /\ proposals \in Seq(Proposal) /\ log \in Seq(Edit)
    /\ lock \in Actor \cup {NoOne} /\ stage \in [Actor -> EditStages] /\ on \in [Actor -> Nat]
    /\ foreign \in Nat /\ deaths \in Nat

\* An edit is of cells of the row or of one setting.
RowImage(m) == DOMAIN m # {} /\ DOMAIN m \subseteq Cell
Paired(x) ==
    \/ RowImage(x.before) /\ RowImage(x.after)
    \/ \E k \in Setting : DOMAIN x.before = {k} /\ DOMAIN x.after = {k}
EditsPaired ==
    /\ \A i \in DOMAIN proposals : Paired(proposals[i])
    /\ \A e \in DOMAIN log : Paired(log[e])

\* What was applied is decided, and a setting's edit is applied once.
EditsDecided ==
    /\ \A e \in DOMAIN log : log[e].of # 0 => log[e].of \in DOMAIN proposals /\ ~Proposed(log[e].of)
    /\ \A e, f \in DOMAIN log :
          log[e].of = log[f].of /\ log[e].of # 0 /\ OfSettings(proposals[log[e].of].after) => e = f
EditsUndone ==
    /\ \A r \in DOMAIN log : log[r].reverts # 0 => log[r].reverts \in DOMAIN log
    /\ RevertedOnce

\* What a thread works on is there, and is untouched while it has the lock.
AtWork(a) ==
    /\ lock = a <=> stage[a] \in Locked
    /\ stage[a] \in {"reject", "compare", "write", "wait", "file", "log"} => on[a] \in DOMAIN proposals
    /\ stage[a] \in {"compare", "write"} => ~OfSettings(proposals[on[a]].after)
    /\ stage[a] \in {"wait", "file", "log"} => OfSettings(proposals[on[a]].after)
    /\ stage[a] \in {"file", "log"} => \A e \in DOMAIN log : log[e].of # on[a]
    /\ stage[a] \in {"undo", "unfile", "unlog"} =>
          on[a] \in DOMAIN log /\ log[on[a]].reverts = 0 /\ ~Reverted(on[a])
    /\ stage[a] = "undo" => ~OfSettings(log[on[a]].after)
    /\ stage[a] \in {"unfile", "unlog"} => OfSettings(log[on[a]].after)

\* The log of one setting: a chain, whose last value is the one that stands,
\* or the one the write under way has found.
Chained(k) ==
    \A i, j \in Touched(k) :
        (i < j /\ \A m \in Touched(k) : m <= i \/ j <= m) => log[i].after[k] = log[j].before[k]
Latest(k, v) == \A i \in Touched(k) : (\A m \in Touched(k) : m <= i) => log[i].after[k] = v
Writing(a, k) ==
    \/ stage[a] = "log" /\ k \in DOMAIN proposals[on[a]].after
    \/ stage[a] = "unlog" /\ k \in DOMAIN log[on[a]].after
Owes(a, k) ==
    /\ stage[a] = "file" /\ k \in DOMAIN proposals[on[a]].after =>
          current[k] = proposals[on[a]].before[k]
    /\ stage[a] = "log" /\ k \in DOMAIN proposals[on[a]].after =>
          current[k] = proposals[on[a]].after[k] /\ Latest(k, proposals[on[a]].before[k])
    /\ stage[a] = "unfile" /\ k \in DOMAIN log[on[a]].after =>
          current[k] = log[on[a]].after[k]
    /\ stage[a] = "unlog" /\ k \in DOMAIN log[on[a]].after =>
          current[k] = log[on[a]].before[k] /\ Latest(k, log[on[a]].after[k])
Standing(k) ==
    /\ Chained(k)
    /\ \A a \in Actor : Owes(a, k)
    /\ (\A a \in Actor : ~Writing(a, k)) => Latest(k, current[k])
Undisturbed == foreign = 0 /\ deaths = 0
EditInv ==
    /\ EditTypes /\ EditsPaired /\ EditsDecided /\ EditsUndone
    /\ \A a \in Actor : AtWork(a)
    /\ Undisturbed => \A k \in Setting : Standing(k)

-----------------------------------------------------------------------------
(* What the steps keep *)

LEMMA ImagesAre ==
    /\ \A S \in SUBSET (Cell \cup Setting) : [S -> Value] \subseteq Image
    /\ \A m \in Image : DOMAIN m \subseteq Cell \cup Setting /\ m \in [DOMAIN m -> Value]
BY DEF Image

LEMMA RestrictedIs ==
    ASSUME EditTypes, NEW S \in SUBSET (Cell \cup Setting)
    PROVE  Restrict(current, S) \in Image /\ DOMAIN Restrict(current, S) = S
BY ImagesAre DEF EditTypes, Restrict

LEMMA OverlaidIs ==
    ASSUME EditTypes, NEW m \in Image
    PROVE  /\ Overlaid(m) \in [Cell \cup Setting -> Value]
           /\ \A x \in Cell \cup Setting :
                 Overlaid(m)[x] = IF x \in DOMAIN m THEN m[x] ELSE current[x]
BY ImagesAre DEF EditTypes, Overlaid

\* A row is no setting.
LEMMA RowsAreNoSettings ==
    ASSUME NEW m, RowImage(m)
    PROVE  ~OfSettings(m) /\ \A k \in Setting : k \notin DOMAIN m
BY EditAssumption DEF RowImage, OfSettings

LEMMA SettingsAreOne ==
    ASSUME NEW x, Paired(x)
    PROVE  /\ OfSettings(x.after) => \E k \in Setting : DOMAIN x.before = {k} /\ DOMAIN x.after = {k}
           /\ ~OfSettings(x.after) => RowImage(x.before) /\ RowImage(x.after)
BY RowsAreNoSettings DEF Paired, OfSettings

LEMMA LogGrows ==
    ASSUME log \in Seq(Edit), NEW r \in Edit, log' = Append(log, r)
    PROVE  /\ log' \in Seq(Edit) /\ DOMAIN log' = DOMAIN log \cup {Len(log) + 1}
           /\ \A e \in DOMAIN log : log'[e] = log[e] /\ e < Len(log) + 1 /\ e \in Nat
           /\ log'[Len(log) + 1] = r /\ Len(log) + 1 \notin DOMAIN log /\ Len(log) + 1 \in Nat \ {0}
OBVIOUS

\* Proposals are decided, and more are made; none changes otherwise.
ProposalsKept ==
    /\ DOMAIN proposals \subseteq DOMAIN proposals'
    /\ \A i \in DOMAIN proposals :
          /\ proposals'[i].before = proposals[i].before /\ proposals'[i].after = proposals[i].after
          /\ proposals'[i].status = "proposed" => Proposed(i)
LEMMA DecidingKeeps ==
    ASSUME EditTypes, NEW i \in DOMAIN proposals, NEW s \in Status \ {"proposed"}, DecideProposal(i, s)
    PROVE  /\ proposals' \in Seq(Proposal) /\ DOMAIN proposals' = DOMAIN proposals
           /\ ProposalsKept /\ proposals'[i].status # "proposed"
<1>1. proposals \in [1..Len(proposals) -> Proposal] /\ i \in 1..Len(proposals)
  BY DEF EditTypes
<1>2. proposals' = [proposals EXCEPT ![i] = [proposals[i] EXCEPT !.status = s]]
  BY DEF DecideProposal
<1>3. proposals[i] \in Proposal
  BY <1>1
<1>4. /\ [proposals[i] EXCEPT !.status = s] \in Proposal /\ [proposals[i] EXCEPT !.status = s].status = s
      /\ [proposals[i] EXCEPT !.status = s].before = proposals[i].before
      /\ [proposals[i] EXCEPT !.status = s].after = proposals[i].after
  BY <1>3 DEF Proposal
<1>5. proposals' \in [1..Len(proposals) -> Proposal]
  BY <1>1, <1>2, <1>4
<1>6. /\ \A j \in DOMAIN proposals : j # i => proposals'[j] = proposals[j]
      /\ proposals'[i] = [proposals[i] EXCEPT !.status = s]
  BY <1>1, <1>2
<1>7. ASSUME NEW j \in DOMAIN proposals
      PROVE  /\ proposals'[j].before = proposals[j].before /\ proposals'[j].after = proposals[j].after
             /\ proposals'[j].status = "proposed" => Proposed(j)
  BY <1>4, <1>6 DEF Proposed
<1>8. Len(proposals) \in Nat
  BY DEF EditTypes
<1> QED
  BY <1>1, <1>4, <1>5, <1>6, <1>7, <1>8, SeqDef DEF ProposalsKept

\* The log is as it was.
LEMMA DecisionsStay ==
    ASSUME EditInv, ProposalsKept, UNCHANGED log,
           \A i \in DOMAIN proposals' \ DOMAIN proposals : Paired(proposals'[i])
    PROVE  EditsPaired' /\ EditsDecided' /\ EditsUndone'
<1>1. EditsPaired'
  BY DEF EditInv, EditsPaired, Paired, ProposalsKept
<1>2. EditsDecided'
  BY DEF EditInv, EditsDecided, ProposalsKept, Proposed
<1>3. EditsUndone'
  BY DEF EditInv, EditsUndone, RevertedOnce
<1> QED
  BY <1>1, <1>2, <1>3

\* A thread that another one passes by.
LEMMA AtWorkStays ==
    ASSUME EditInv, NEW b \in Actor, stage'[b] = stage[b], on'[b] = on[b], lock' = b <=> lock = b,
           ProposalsKept, \/ UNCHANGED log
                          \/ /\ lock # b
                             /\ DOMAIN log \subseteq DOMAIN log'
    PROVE  AtWork(b)'
<1>1. AtWork(b)
  BY DEF EditInv
<1>2. CASE UNCHANGED log
  BY <1>1, <1>2 DEF AtWork, ProposalsKept, Reverted
<1>3. CASE lock # b
  BY <1>1, <1>3 DEF AtWork, ProposalsKept, Locked
<1> QED
  BY <1>2, <1>3

\* The setting keeps its value and what threads owe it.
LEMMA StandingStays ==
    ASSUME EditInv, NEW k \in Setting, Standing(k), ProposalsKept, current'[k] = current[k],
           Chained(k)', \A v : Latest(k, v) => Latest(k, v)',
           \A b \in Actor :
              \/ stage'[b] = stage[b] /\ on'[b] = on[b]
                 /\ (stage[b] \in {"unfile", "unlog"} => log'[on[b]] = log[on[b]])
              \/ stage[b] \notin {"log", "unlog"} /\ stage'[b] \notin {"file", "log", "unfile", "unlog"}
    PROVE  Standing(k)'
<1>1. ASSUME NEW b \in Actor
      PROVE  Owes(b, k)' /\ (Writing(b, k) => Writing(b, k)')
  <2>1. Owes(b, k) /\ (stage[b] \in {"file", "log"} => on[b] \in DOMAIN proposals)
    BY DEF Standing, EditInv, AtWork
  <2>2. CASE stage'[b] = stage[b] /\ on'[b] = on[b] /\ (stage[b] \in {"unfile", "unlog"} => log'[on[b]] = log[on[b]])
    BY <2>1, <2>2 DEF Owes, Writing, ProposalsKept
  <2>3. CASE stage[b] \notin {"log", "unlog"} /\ stage'[b] \notin {"file", "log", "unfile", "unlog"}
    BY <2>3 DEF Owes, Writing
  <2> QED
    BY <2>2, <2>3
<1>2. (\A b \in Actor : ~Writing(b, k)') => Latest(k, current[k])'
  <2>1. Latest(k, current[k]) => Latest(k, current'[k])
    OBVIOUS
  <2> QED
    BY <1>1 DEF Standing, Latest
<1> QED
  BY <1>1, <1>2 DEF Standing

\* An edit of the row, or its undoing, is logged: no setting sees it.
LEMMA ForeignEntry ==
    ASSUME EditTypes, NEW r \in Edit, log' = Append(log, r), NEW k, k \notin DOMAIN r.after, Chained(k)
    PROVE  Chained(k)' /\ \A v : Latest(k, v) => Latest(k, v)'
<1>1. /\ DOMAIN log' = DOMAIN log \cup {Len(log) + 1} /\ \A e \in DOMAIN log : log'[e] = log[e]
      /\ log'[Len(log) + 1] = r
  BY LogGrows DEF EditTypes
<1>2. Touched(k)' = Touched(k)
  BY <1>1 DEF Touched
<1>3. \A e \in Touched(k) : log'[e] = log[e]
  BY <1>1 DEF Touched
<1>4. Chained(k)'
  BY <1>2, <1>3 DEF Chained
<1>5. \A v : Latest(k, v) => Latest(k, v)'
  BY <1>2, <1>3 DEF Latest
<1> QED
  BY <1>4, <1>5

\* An edit of the setting is logged that begins where the last one ended.
LEMMA OwnEntry ==
    ASSUME EditTypes, NEW r \in Edit, log' = Append(log, r), NEW k, k \in DOMAIN r.after,
           Chained(k), Latest(k, r.before[k])
    PROVE  Chained(k)' /\ Latest(k, r.after[k])'
<1> DEFINE n == Len(log) + 1
<1>1. /\ DOMAIN log' = DOMAIN log \cup {n} /\ log'[n] = r /\ n \notin DOMAIN log /\ n \in Nat
      /\ \A e \in DOMAIN log : log'[e] = log[e] /\ e < n /\ e \in Nat
  BY LogGrows DEF EditTypes
<1>2. Touched(k)' = Touched(k) \cup {n} /\ n \notin Touched(k)
  BY <1>1 DEF Touched
<1>3. \A e \in Touched(k) : log'[e] = log[e] /\ e < n /\ e \in Nat
  BY <1>1 DEF Touched
<1> HIDE DEF n
<1>4. Chained(k)'
  <2> SUFFICES ASSUME NEW i \in Touched(k)', NEW j \in Touched(k)', i < j,
                      \A m \in Touched(k)' : m <= i \/ j <= m
               PROVE  log'[i].after[k] = log'[j].before[k]
    BY DEF Chained
  <2>1. i \in Touched(k)
    BY <1>1, <1>2, <1>3
  <2>2. CASE j = n
    <3>1. \A m \in Touched(k) : m <= i
      BY <1>1, <1>2, <1>3, <2>2
    <3> QED
      BY <1>1, <1>3, <2>1, <2>2, <3>1 DEF Latest
  <2>3. CASE j \in Touched(k)
    BY <1>2, <1>3, <2>1, <2>3 DEF Chained
  <2> QED
    BY <1>2, <2>2, <2>3
<1>5. Latest(k, r.after[k])'
  <2> SUFFICES ASSUME NEW i \in Touched(k)', \A m \in Touched(k)' : m <= i
               PROVE  log'[i].after[k] = r.after[k]
    BY DEF Latest
  <2>1. i = n
    BY <1>1, <1>2, <1>3
  <2> QED
    BY <1>1, <2>1
<1> QED
  BY <1>4, <1>5

LEMMA SameLog ==
    ASSUME UNCHANGED log, NEW k, Chained(k)
    PROVE  Chained(k)' /\ \A v : Latest(k, v) => Latest(k, v)'
BY DEF Chained, Latest, Touched

-----------------------------------------------------------------------------
(* The steps *)

LEMMA EditsStart == EditInit => EditInv
<1> SUFFICES ASSUME EditInit
             PROVE  EditInv
  OBVIOUS
<1>1. EditTypes
  BY DEF EditInit, EditTypes, EditStages
<1>2. DOMAIN log = {} /\ DOMAIN proposals = {}
  BY DEF EditInit
<1>3. EditsPaired /\ EditsDecided /\ EditsUndone
  BY <1>2 DEF EditsPaired, EditsDecided, EditsUndone, RevertedOnce
<1>4. \A a \in Actor : AtWork(a)
  BY EditAssumption DEF EditInit, AtWork, Locked
<1>5. \A k \in Setting : Standing(k)
  <2>1. \A k : Touched(k) = {}
    BY <1>2 DEF Touched
  <2> QED
    BY <2>1 DEF EditInit, Standing, Chained, Owes, Latest
<1> QED
  BY <1>1, <1>3, <1>4, <1>5 DEF EditInv

\* A step that leaves the log, the row and the settings alone.
LEMMA QuietStep ==
    ASSUME EditInv, EditTypes', ProposalsKept, UNCHANGED <<current, log, lock, editBounds>>,
           \A i \in DOMAIN proposals' \ DOMAIN proposals : Paired(proposals'[i]),
           \A b \in Actor :
              \/ stage'[b] = stage[b] /\ on'[b] = on[b]
              \/ /\ AtWork(b)' /\ stage[b] \notin {"log", "unlog"}
                 /\ stage'[b] \notin {"file", "log", "unfile", "unlog"}
    PROVE  EditInv'
<1>1. EditsPaired' /\ EditsDecided' /\ EditsUndone'
  BY DecisionsStay
<1>2. ASSUME NEW b \in Actor
      PROVE  AtWork(b)'
  BY AtWorkStays
<1>3. ASSUME Undisturbed', NEW k \in Setting
      PROVE  Standing(k)'
  <2>1. Standing(k)
    BY <1>3 DEF EditInv, Undisturbed, editBounds
  <2>2. Chained(k)' /\ \A v : Latest(k, v) => Latest(k, v)'
    BY <2>1, SameLog DEF Standing
  <2> QED
    BY <2>1, <2>2, StandingStays
<1> QED
  BY <1>1, <1>2, <1>3 DEF EditInv

\* A proposal is made.
LEMMA ProposeStep ==
    ASSUME EditInv, NEW before \in Image, NEW after \in Image, Propose(before, after),
           Paired([before |-> before, after |-> after, status |-> "proposed"])
    PROVE  EditInv'
<1> DEFINE p == [before |-> before, after |-> after, status |-> "proposed"]
<1>1. /\ proposals' = Append(proposals, p) /\ p \in Proposal /\ proposals \in Seq(Proposal)
      /\ UNCHANGED <<current, log, lock, stage, on, editBounds>>
  BY DEF Propose, Proposal, Status, EditInv, EditTypes
<1> HIDE DEF p
<1>2. /\ proposals' \in Seq(Proposal) /\ DOMAIN proposals' = DOMAIN proposals \cup {Len(proposals) + 1}
      /\ \A i \in DOMAIN proposals : proposals'[i] = proposals[i]
      /\ proposals'[Len(proposals) + 1] = p
  BY <1>1
<1>3. EditTypes'
  BY <1>1, <1>2 DEF EditInv, EditTypes, editBounds
<1>4. ProposalsKept
  BY <1>2 DEF ProposalsKept, Proposed
<1>5. \A i \in DOMAIN proposals' \ DOMAIN proposals : Paired(proposals'[i])
  BY <1>2 DEF p
<1> QED
  BY <1>1, <1>3, <1>4, <1>5, QuietStep

LEMMA RowsPair ==
    ASSUME NEW before, NEW after, RowImage(before), RowImage(after)
    PROVE  /\ \A s : Paired([before |-> before, after |-> after, status |-> s])
           /\ \A of, r : Paired([before |-> before, after |-> after, of |-> of, reverts |-> r])
BY DEF Paired

LEMMA ProposeSteps ==
    ASSUME EditInv,
           \/ \E S \in (SUBSET Cell) \ {{}} : \E after \in [S -> Value] : ProposeRow(after)
           \/ \E k \in Setting, v \in Value : ProposeSetting(k, v)
    PROVE  EditInv'
<1>1. ASSUME NEW S \in (SUBSET Cell) \ {{}}, NEW after \in [S -> Value], ProposeRow(after)
      PROVE  EditInv'
  <2>1. Restrict(current, Cell) \in Image /\ DOMAIN Restrict(current, Cell) = Cell
    BY RestrictedIs DEF EditInv
  <2>2. after \in Image /\ DOMAIN after = S
    BY ImagesAre
  <2>3. Paired([before |-> Restrict(current, Cell), after |-> after, status |-> "proposed"])
    <3>1. S # {} /\ S \subseteq Cell /\ Cell # {}
      OBVIOUS
    <3>2. RowImage(Restrict(current, Cell)) /\ RowImage(after)
      BY <2>1, <2>2, <3>1 DEF RowImage
    <3> QED
      BY <3>2, RowsPair
  <2> QED
    BY <1>1, <2>1, <2>2, <2>3, ProposeStep DEF ProposeRow
<1>2. ASSUME NEW k \in Setting, NEW v \in Value, ProposeSetting(k, v)
      PROVE  EditInv'
  <2>1. Restrict(current, {k}) \in Image /\ DOMAIN Restrict(current, {k}) = {k}
    BY RestrictedIs DEF EditInv
  <2>2. [x \in {k} |-> v] \in Image /\ DOMAIN [x \in {k} |-> v] = {k}
    BY ImagesAre
  <2>3. Paired([before |-> Restrict(current, {k}), after |-> [x \in {k} |-> v], status |-> "proposed"])
    BY <2>1, <2>2 DEF Paired
  <2> QED
    BY <1>2, <2>1, <2>2, <2>3, ProposeStep DEF ProposeSetting
<1> QED
  BY <1>1, <1>2

\* A thread reads, rejects or compares; nothing is written but a status.
LEMMA DecideStep ==
    ASSUME EditInv, NEW i \in DOMAIN proposals, NEW s \in Status \ {"proposed"}, DecideProposal(i, s),
           UNCHANGED <<current, log, lock, editBounds>>, stage' \in [Actor -> EditStages], UNCHANGED on,
           \A b \in Actor : stage'[b] = stage[b] \/ (stage[b] = "reject" /\ stage'[b] = "idle")
    PROVE  EditInv'
<1>1. EditTypes /\ \A b \in Actor : AtWork(b)
  BY DEF EditInv
<1>2. /\ proposals' \in Seq(Proposal) /\ DOMAIN proposals' = DOMAIN proposals /\ ProposalsKept
  BY <1>1, DecidingKeeps
<1>3. EditTypes'
  BY <1>1, <1>2 DEF EditTypes, editBounds
<1>4. ASSUME NEW b \in Actor, stage[b] = "reject", stage'[b] = "idle"
      PROVE  AtWork(b)'
  BY <1>1, <1>4 DEF AtWork, Locked
<1> QED
  BY <1>2, <1>3, <1>4, QuietStep

LEMMA ThreadStep ==
    ASSUME EditInv, NEW a \in Actor, NEW i \in DOMAIN proposals, NEW s \in {"idle", "reject", "compare", "write", "wait"},
           UNCHANGED <<current, proposals, log, lock, editBounds>>,
           stage' = [stage EXCEPT ![a] = s], on' = [on EXCEPT ![a] = i],
           stage[a] \notin Locked,
           s \in {"compare", "write"} => ~OfSettings(proposals[i].after),
           s = "wait" => OfSettings(proposals[i].after)
    PROVE  EditInv'
<1>1. EditTypes /\ AtWork(a) /\ i \in Nat
  BY DEF EditInv, EditTypes
<1>2. EditTypes'
  BY <1>1 DEF EditTypes, editBounds, EditStages
<1>3. /\ stage'[a] = s /\ on'[a] = i
      /\ \A b \in Actor \ {a} : stage'[b] = stage[b] /\ on'[b] = on[b]
  BY <1>1 DEF EditTypes
<1>4. AtWork(a)'
  BY <1>1, <1>3 DEF AtWork, Locked
<1>5. stage[a] \notin {"log", "unlog"} /\ stage'[a] \notin {"file", "log", "unfile", "unlog"}
  BY <1>3 DEF Locked
<1>6. ProposalsKept
  BY DEF ProposalsKept, Proposed
<1> QED
  BY <1>2, <1>3, <1>4, <1>5, <1>6, QuietStep

LEMMA ReadSteps ==
    ASSUME EditInv,
           \/ \E i \in DOMAIN proposals : ExpireProposal(i)
           \/ \E a \in Actor :
                 \/ \E i \in DOMAIN proposals : RejectBegin(a, i) \/ ApplyBegin(a, i)
                 \/ RejectWrite(a) \/ ApplyCompare(a)
    PROVE  EditInv'
<1>0. EditTypes /\ \A a \in Actor : AtWork(a)
  BY DEF EditInv
<1>1. ASSUME NEW i \in DOMAIN proposals, ExpireProposal(i)
      PROVE  EditInv'
  <2>1. "expired" \in Status \ {"proposed"} /\ stage' \in [Actor -> EditStages]
    BY <1>0, <1>1 DEF Status, ExpireProposal, EditTypes
  <2> QED
    BY <1>1, <2>1, DecideStep DEF ExpireProposal
<1>2. ASSUME NEW a \in Actor, NEW i \in DOMAIN proposals, RejectBegin(a, i)
      PROVE  EditInv'
  BY <1>2, ThreadStep DEF RejectBegin, EditGoto, Locked
<1>3. ASSUME NEW a \in Actor, NEW i \in DOMAIN proposals, ApplyBegin(a, i)
      PROVE  EditInv'
  <2>1. CASE OfSettings(proposals[i].after)
    BY <1>3, <2>1, ThreadStep DEF ApplyBegin, EditGoto, Locked
  <2>2. CASE ~OfSettings(proposals[i].after)
    BY <1>3, <2>2, ThreadStep DEF ApplyBegin, EditGoto, Locked
  <2> QED
    BY <2>1, <2>2
<1>4. ASSUME NEW a \in Actor, RejectWrite(a)
      PROVE  EditInv'
  <2>1. on[a] \in DOMAIN proposals /\ stage[a] = "reject"
    BY <1>0, <1>4 DEF RejectWrite, AtWork
  <2>2. "rejected" \in Status \ {"proposed"} /\ stage' \in [Actor -> EditStages]
    BY <1>0, <1>4 DEF Status, RejectWrite, EditGoto, EditTypes, EditStages
  <2>3. \A b \in Actor : stage'[b] = stage[b] \/ (stage[b] = "reject" /\ stage'[b] = "idle")
    BY <1>0, <1>4, <2>1 DEF RejectWrite, EditGoto, EditTypes
  <2> QED
    BY <1>4, <2>1, <2>2, <2>3, DecideStep DEF RejectWrite
<1>5. ASSUME NEW a \in Actor, ApplyCompare(a)
      PROVE  EditInv'
  <2>1. on[a] \in DOMAIN proposals /\ stage[a] = "compare" /\ ~OfSettings(proposals[on[a]].after)
    BY <1>0, <1>5 DEF ApplyCompare, AtWork
  <2>2. on' = [on EXCEPT ![a] = on[a]]
    BY <1>0, <1>5 DEF ApplyCompare, EditTypes
  <2>3. PICK s \in {"idle", "write"} : stage' = [stage EXCEPT ![a] = s]
    BY <1>5 DEF ApplyCompare, EditGoto
  <2>4. UNCHANGED <<current, proposals, log, lock, editBounds>>
    BY <1>5 DEF ApplyCompare
  <2> QED
    BY <2>1, <2>2, <2>3, <2>4, ThreadStep DEF Locked
<1> QED
  BY <1>1, <1>2, <1>3, <1>4, <1>5

\* While one thread has the lock, or takes it, the others owe nothing.
LEMMA OthersWait ==
    ASSUME EditInv, NEW a \in Actor, lock \in {a, NoOne}, NEW b \in Actor \ {a}
    PROVE  stage[b] \notin Locked /\ \A k : ~Writing(b, k)
<1>1. AtWork(b) /\ lock # b
  BY EditAssumption DEF EditInv
<1> QED
  BY <1>1 DEF AtWork, Locked, Writing

\* The lock's holder, or the one who takes it, goes on and logs nothing yet.
LEMMA HolderStep ==
    ASSUME EditInv, EditTypes', NEW a \in Actor, lock \in {a, NoOne}, lock' = a, stage[a] \notin {"log", "unlog"},
           UNCHANGED <<proposals, log, editBounds>>, AtWork(a)',
           \A b \in Actor \ {a} : stage'[b] = stage[b] /\ on'[b] = on[b],
           \A k \in Setting : Undisturbed /\ Standing(k) /\ Latest(k, current[k]) =>
              Owes(a, k)' /\ (~Writing(a, k)' => Latest(k, current[k])')
    PROVE  EditInv'
<1>1. ProposalsKept
  BY DEF ProposalsKept, Proposed
<1>2. EditsPaired' /\ EditsDecided' /\ EditsUndone'
  BY <1>1, DecisionsStay
<1>3. ASSUME NEW b \in Actor
      PROVE  AtWork(b)'
  <2>1. CASE b = a
    BY <2>1
  <2>2. CASE b # a
    <3>1. (lock' = b <=> lock = b)
      BY <2>2, EditAssumption
    <3> QED
      BY <1>1, <2>2, <3>1, AtWorkStays
  <2> QED
    BY <2>1, <2>2
<1>4. ASSUME Undisturbed', NEW k \in Setting
      PROVE  Standing(k)'
  <2>1. Undisturbed /\ Standing(k)
    BY <1>4 DEF EditInv, Undisturbed, editBounds
  <2>2. \A b \in Actor \ {a} : stage[b] \notin Locked /\ ~Writing(b, k)
    BY OthersWait
  <2>3. ~Writing(a, k)
    BY DEF Writing
  <2>4. Latest(k, current[k])
    BY <2>1, <2>2, <2>3 DEF Standing
  <2>5. Owes(a, k)' /\ (~Writing(a, k)' => Latest(k, current[k])')
    BY <2>1, <2>4
  <2>6. \A b \in Actor \ {a} : Owes(b, k)'
    BY <2>2 DEF Owes, Locked
  <2>7. Chained(k)'
    BY <2>1, SameLog DEF Standing
  <2> QED
    BY <2>5, <2>6, <2>7 DEF Standing
<1> QED
  BY <1>2, <1>3, <1>4 DEF EditInv

\* An edit or its undoing is done and its entry written.
LEMMA LoggingStep ==
    ASSUME EditInv, NEW a \in Actor, lock \in {a, NoOne}, lock' = NoOne,
           NEW r \in Edit, log' = Append(log, r), Paired(r),
           stage' = [stage EXCEPT ![a] = "idle"], UNCHANGED <<on, editBounds>>,
           proposals' \in Seq(Proposal), DOMAIN proposals' = DOMAIN proposals, ProposalsKept,
           current' \in [Cell \cup Setting -> Value], \A k \in Setting : current'[k] = current[k],
           r.of # 0 => /\ r.of \in DOMAIN proposals /\ ~Proposed(r.of)'
                       /\ OfSettings(proposals[r.of].after) => \A e \in DOMAIN log : log[e].of # r.of,
           r.reverts # 0 => r.reverts \in DOMAIN log /\ log[r.reverts].reverts = 0 /\ ~Reverted(r.reverts),
           \A k \in Setting :
              /\ Writing(a, k) <=> k \in DOMAIN r.after
              /\ Undisturbed /\ Standing(k) /\ Writing(a, k) => Latest(k, r.before[k]) /\ current[k] = r.after[k]
    PROVE  EditInv'
<1> DEFINE n == Len(log) + 1
<1>0. EditTypes
  BY DEF EditInv
<1>1. /\ log' \in Seq(Edit) /\ DOMAIN log' = DOMAIN log \cup {n} /\ log'[n] = r
      /\ n \notin DOMAIN log /\ \A e \in DOMAIN log : log'[e] = log[e]
  BY <1>0, LogGrows DEF EditTypes
<1> HIDE DEF n
<1>2. EditTypes'
  BY <1>0, <1>1 DEF EditTypes, editBounds, EditStages
<1>3. EditsPaired'
  <2>1. \A i \in DOMAIN proposals : Paired(proposals'[i])
    BY DEF EditInv, EditsPaired, Paired, ProposalsKept
  <2>2. \A e \in DOMAIN log' : Paired(log'[e])
    BY <1>1 DEF EditInv, EditsPaired
  <2> QED
    BY <2>1, <2>2 DEF EditsPaired
<1>4. EditsDecided'
  <2>1. EditsDecided
    BY DEF EditInv
  <2>2. ASSUME NEW e \in DOMAIN log', log'[e].of # 0
        PROVE  log'[e].of \in DOMAIN proposals' /\ proposals'[log'[e].of].status # "proposed"
    <3>1. CASE e = n
      BY <1>1, <2>2, <3>1 DEF Proposed
    <3>2. CASE e \in DOMAIN log
      BY <1>1, <2>1, <2>2, <3>2 DEF EditsDecided, ProposalsKept
    <3> QED
      BY <1>1, <3>1, <3>2
  <2>3. ASSUME NEW e \in DOMAIN log', NEW f \in DOMAIN log', log'[e].of = log'[f].of, log'[e].of # 0,
               OfSettings(proposals'[log'[e].of].after)
        PROVE  e = f
    <3>1. OfSettings(proposals[log'[e].of].after) /\ log'[e].of \in DOMAIN proposals
      BY <2>2, <2>3 DEF ProposalsKept
    <3>2. CASE e = n \/ f = n
      BY <1>1, <2>3, <3>1, <3>2
    <3>3. CASE e \in DOMAIN log /\ f \in DOMAIN log
      BY <1>1, <2>1, <2>3, <3>1, <3>3 DEF EditsDecided
    <3> QED
      BY <1>1, <3>2, <3>3
  <2> QED
    BY <2>2, <2>3 DEF EditsDecided, Proposed, OfSettings
<1>5. EditsUndone'
  <2>1. EditsUndone
    BY DEF EditInv
  <2>2. \A x \in DOMAIN log' : log'[x].reverts # 0 => log'[x].reverts \in DOMAIN log
    BY <1>1, <2>1 DEF EditsUndone
  <2>3. ASSUME NEW x \in DOMAIN log', NEW y \in DOMAIN log', log'[x].reverts # 0
        PROVE  /\ log'[log'[x].reverts].reverts = 0
               /\ log'[y].reverts = log'[x].reverts => x = y
    <3>1. log'[x].reverts \in DOMAIN log
      BY <2>2, <2>3
    <3>2. CASE x = n
      BY <1>1, <2>3, <3>1, <3>2 DEF Reverted
    <3>3. CASE x \in DOMAIN log
      BY <1>1, <2>1, <2>3, <3>1, <3>3 DEF EditsUndone, RevertedOnce, Reverted
    <3> QED
      BY <1>1, <3>2, <3>3
  <2> QED
    BY <1>1, <2>2, <2>3 DEF EditsUndone, RevertedOnce
<1>6. /\ stage'[a] = "idle" /\ \A b \in Actor \ {a} : stage'[b] = stage[b]
  BY <1>0 DEF EditTypes
<1>7. ASSUME NEW b \in Actor
      PROVE  AtWork(b)'
  <2>1. CASE b = a
    BY <1>6, <2>1, EditAssumption DEF AtWork, Locked
  <2>2. CASE b # a
    <3>1. (lock' = b <=> lock = b) /\ lock # b
      BY <2>2, EditAssumption
    <3> QED
      BY <1>1, <1>6, <2>2, <3>1, AtWorkStays
  <2> QED
    BY <2>1, <2>2
<1>8. ASSUME Undisturbed', NEW k \in Setting
      PROVE  Standing(k)'
  <2>1. Undisturbed /\ Standing(k)
    BY <1>8 DEF EditInv, Undisturbed, editBounds
  <2>2. \A b \in Actor \ {a} : stage[b] \notin Locked /\ ~Writing(b, k)
    BY OthersWait
  <2>3. \A b \in Actor : Owes(b, k)'
    BY <1>6, <2>2 DEF Owes, Locked
  <2> PICK now : now = current[k]
    OBVIOUS
  <2>4. Chained(k)' /\ Latest(k, now)'
    <3>1. CASE k \in DOMAIN r.after
      <4>1. Latest(k, r.before[k]) /\ now = r.after[k]
        BY <2>1, <3>1
      <4>2. Chained(k)' /\ Latest(k, r.after[k])'
        BY <1>0, <2>1, <3>1, <4>1, OwnEntry DEF Standing
      <4> QED
        BY <4>1, <4>2
    <3>2. CASE k \notin DOMAIN r.after
      <4>1. Latest(k, now)
        BY <2>1, <2>2, <3>2 DEF Standing
      <4>2. Chained(k)' /\ \A v : Latest(k, v) => Latest(k, v)'
        BY <1>0, <2>1, <3>2, ForeignEntry DEF Standing
      <4> QED
        BY <4>1, <4>2
    <3> QED
      BY <3>1, <3>2
  <2>5. Latest(k, current[k])'
    BY <2>4 DEF Latest
  <2> QED
    BY <2>3, <2>4, <2>5 DEF Standing
<1> QED
  BY <1>2, <1>3, <1>4, <1>5, <1>7, <1>8 DEF EditInv

\* What a thread works on.
LEMMA ProposalIs ==
    ASSUME EditInv, NEW i \in DOMAIN proposals
    PROVE  /\ i \in Nat \ {0} /\ proposals[i].before \in Image /\ proposals[i].after \in Image
           /\ Paired(proposals[i])
<1>1. proposals \in Seq(Proposal)
  BY DEF EditInv, EditTypes
<1>2. proposals[i] \in Proposal /\ i \in Nat \ {0}
  BY <1>1
<1> QED
  BY <1>2 DEF Proposal, EditInv, EditsPaired

LEMMA EntryIs ==
    ASSUME EditInv, NEW e \in DOMAIN log
    PROVE  /\ e \in Nat \ {0} /\ log[e].before \in Image /\ log[e].after \in Image
           /\ Paired(log[e])
<1>1. log \in Seq(Edit)
  BY DEF EditInv, EditTypes
<1>2. log[e] \in Edit /\ e \in Nat \ {0}
  BY <1>1
<1> QED
  BY <1>2 DEF Edit, EditInv, EditsPaired

LEMMA Recorded ==
    ASSUME NEW b \in Image, NEW a \in Image, NEW i \in Nat, NEW e \in Nat
    PROVE  /\ [before |-> b, after |-> a, of |-> i, reverts |-> e] \in Edit
           /\ Paired([before |-> b, after |-> a]) => Paired([before |-> b, after |-> a, of |-> i, reverts |-> e])
BY DEF Edit, Paired

LEMMA ApplyWriteStep ==
    ASSUME EditInv, NEW a \in Actor, ApplyWrite(a)
    PROVE  EditInv'
<1> PICK i : i = on[a]
  OBVIOUS
<1> DEFINE P == proposals[i]
           r == [before |-> P.before, after |-> P.after, of |-> i, reverts |-> 0]
<1>1. EditTypes /\ AtWork(a) /\ stage[a] = "write" /\ lock = NoOne
  BY DEF EditInv, ApplyWrite
<1>2. i \in DOMAIN proposals /\ ~OfSettings(P.after)
  BY <1>1 DEF AtWork
<1>3. i \in Nat \ {0} /\ P.before \in Image /\ P.after \in Image /\ Paired(P)
  BY <1>2, ProposalIs
<1>4. RowImage(P.before) /\ RowImage(P.after) /\ \A k \in Setting : k \notin DOMAIN P.after
  BY <1>2, <1>3, SettingsAreOne, RowsAreNoSettings
<1>5. r \in Edit /\ Paired(r)
  BY <1>3, <1>4, Recorded, RowsPair
<1>6. log' = Append(log, r) /\ lock' = NoOne /\ stage' = [stage EXCEPT ![a] = "idle"] /\ UNCHANGED <<on, editBounds>>
  BY <1>1 DEF ApplyWrite, Record, EditGoto
<1>7. DecideProposal(i, "applied") /\ "applied" \in Status \ {"proposed"}
  BY DEF ApplyWrite, Status
<1>8. /\ proposals' \in Seq(Proposal) /\ DOMAIN proposals' = DOMAIN proposals
      /\ ProposalsKept /\ ~Proposed(i)'
  BY <1>1, <1>2, <1>6, <1>7, DecidingKeeps DEF Proposed
<1>9. current' = Overlaid(P.after)
  BY DEF ApplyWrite
<1>10. current' \in [Cell \cup Setting -> Value] /\ \A k \in Setting : current'[k] = current[k]
  BY <1>1, <1>3, <1>4, <1>9, OverlaidIs
<1> PICK q : q = r
  OBVIOUS
<1>11. q = r /\ q.of = i /\ q.reverts = 0 /\ q.after = P.after /\ q.before = P.before
  <2> HIDE DEF P
  <2> QED
    OBVIOUS
<1>12. \A k \in Setting : ~Writing(a, k)
  BY <1>1 DEF Writing
<1>13. q.of \in DOMAIN proposals /\ ~Proposed(q.of)' /\ ~OfSettings(proposals[q.of].after)
  BY <1>2, <1>6, <1>8, <1>11 DEF Proposed
<1>14. q \in Edit /\ Paired(q) /\ log' = Append(log, q)
  BY <1>5, <1>6, <1>11
<1> HIDE DEF P, r
<1> QED
  BY <1>1, <1>4, <1>6, <1>8, <1>10, <1>14, <1>11, <1>12, <1>13, LoggingStep

LEMMA SettingLogStep ==
    ASSUME EditInv, NEW a \in Actor, SettingLog(a)
    PROVE  EditInv'
<1> PICK i : i = on[a]
  OBVIOUS
<1> DEFINE P == proposals[i]
           r == [before |-> P.before, after |-> P.after, of |-> i, reverts |-> 0]
<1>1. EditTypes /\ AtWork(a) /\ stage[a] = "log"
  BY DEF EditInv, SettingLog
<1>2. i \in DOMAIN proposals /\ (\A e \in DOMAIN log : log[e].of # i) /\ lock = a
  BY <1>1 DEF AtWork, Locked
<1>3. i \in Nat \ {0} /\ P.before \in Image /\ P.after \in Image /\ Paired(P)
  BY <1>2, ProposalIs
<1>5. r \in Edit /\ Paired(r)
  BY <1>3 DEF Edit, Paired
<1>6. log' = Append(log, r) /\ lock' = NoOne /\ stage' = [stage EXCEPT ![a] = "idle"] /\ UNCHANGED <<on, editBounds, current>>
  BY <1>1 DEF SettingLog, Record, EditGoto
<1>7. DecideProposal(i, "applied") /\ "applied" \in Status \ {"proposed"}
  BY DEF SettingLog, Status
<1>8. /\ proposals' \in Seq(Proposal) /\ DOMAIN proposals' = DOMAIN proposals
      /\ ProposalsKept /\ ~Proposed(i)'
  BY <1>1, <1>2, <1>6, <1>7, DecidingKeeps DEF Proposed
<1>10. current' \in [Cell \cup Setting -> Value] /\ \A k \in Setting : current'[k] = current[k]
  BY <1>1, <1>6 DEF EditTypes
<1> PICK q : q = r
  OBVIOUS
<1>11. q = r /\ q.of = i /\ q.reverts = 0 /\ q.after = P.after /\ q.before = P.before
  <2> HIDE DEF P
  <2> QED
    OBVIOUS
<1>12. \A k \in Setting :
          /\ Writing(a, k) <=> k \in DOMAIN P.after
          /\ Standing(k) /\ k \in DOMAIN P.after => Latest(k, P.before[k]) /\ current[k] = P.after[k]
  BY <1>1 DEF Writing, Standing, Owes
<1>13. /\ q.of \in DOMAIN proposals /\ ~Proposed(q.of)' /\ \A e \in DOMAIN log : log[e].of # q.of
       /\ \A k \in Setting :
              /\ Writing(a, k) <=> k \in DOMAIN q.after
              /\ Undisturbed /\ Standing(k) /\ Writing(a, k) => Latest(k, q.before[k]) /\ current[k] = q.after[k]
  BY <1>2, <1>6, <1>8, <1>11, <1>12 DEF Proposed
<1>14. q \in Edit /\ Paired(q) /\ log' = Append(log, q)
  BY <1>5, <1>6, <1>11
<1> HIDE DEF P, r
<1> QED
  BY <1>1, <1>2, <1>6, <1>8, <1>10, <1>14, <1>11, <1>13, LoggingStep

\* An edit is undone: of the row in one go, of a setting once its file is.
LEMMA UndoSteps ==
    ASSUME EditInv, NEW a \in Actor, RevertRow(a) \/ RevertLog(a)
    PROVE  EditInv'
<1> DEFINE e == on[a]
           L == log[e]
           r == [before |-> L.after, after |-> L.before, of |-> 0, reverts |-> e]
<1>1. EditTypes /\ AtWork(a) /\ stage[a] \in {"undo", "unlog"}
  BY DEF EditInv, RevertRow, RevertLog
<1>2. e \in DOMAIN log /\ L.reverts = 0 /\ ~Reverted(e) /\ lock = a
  BY <1>1 DEF AtWork, Locked
<1>3. e \in Nat \ {0} /\ L.before \in Image /\ L.after \in Image /\ Paired(L)
  BY <1>2, EntryIs
<1>5. r \in Edit /\ Paired(r)
  BY <1>3 DEF Edit, Paired
<1>6. /\ log' = Append(log, r) /\ lock' = NoOne /\ stage' = [stage EXCEPT ![a] = "idle"]
      /\ UNCHANGED <<on, editBounds, proposals>>
  BY <1>1 DEF RevertRow, RevertLog, Record, EditGoto
<1>8. proposals' \in Seq(Proposal) /\ DOMAIN proposals' = DOMAIN proposals /\ ProposalsKept
  BY <1>1, <1>6 DEF EditTypes, ProposalsKept, Proposed
<1>11. r.of = 0 /\ r.reverts = e /\ r.after = L.before /\ r.before = L.after
  OBVIOUS
<1>12. /\ current' \in [Cell \cup Setting -> Value] /\ \A k \in Setting : current'[k] = current[k]
       /\ \A k \in Setting :
              /\ Writing(a, k) <=> k \in DOMAIN L.before
              /\ Standing(k) /\ k \in DOMAIN L.before => Latest(k, L.after[k]) /\ current[k] = L.before[k]
  <2>1. CASE RevertRow(a)
    <3>1. stage[a] = "undo" /\ ~OfSettings(L.after) /\ current' = Overlaid(L.before)
      BY <1>1, <2>1 DEF RevertRow, AtWork
    <3>2. RowImage(L.before) /\ \A k \in Setting : k \notin DOMAIN L.before
      BY <1>3, <3>1, SettingsAreOne, RowsAreNoSettings
    <3>3. current' \in [Cell \cup Setting -> Value] /\ \A k \in Setting : current'[k] = current[k]
      BY <1>1, <1>3, <3>1, <3>2, OverlaidIs
    <3> QED
      BY <3>1, <3>2, <3>3 DEF Writing
  <2>2. CASE RevertLog(a)
    <3>1. stage[a] = "unlog" /\ OfSettings(L.after) /\ UNCHANGED current
      BY <1>1, <2>2 DEF RevertLog, AtWork
    <3>2. DOMAIN L.before = DOMAIN L.after
      BY <1>3, <3>1, SettingsAreOne
    <3> QED
      BY <1>1, <3>1, <3>2 DEF EditTypes, Writing, Standing, Owes
  <2> QED
    BY <2>1, <2>2
<1> HIDE DEF r
<1>13. /\ r.reverts \in DOMAIN log /\ log[r.reverts].reverts = 0 /\ ~Reverted(r.reverts)
       /\ \A k \in Setting :
              /\ Writing(a, k) <=> k \in DOMAIN r.after
              /\ Undisturbed /\ Standing(k) /\ Writing(a, k) => Latest(k, r.before[k]) /\ current[k] = r.after[k]
  BY <1>2, <1>11, <1>12
<1> HIDE DEF e, L
<1> QED
  BY <1>1, <1>2, <1>5, <1>6, <1>8, <1>11, <1>12, <1>13, LoggingStep

LEMMA CheckSteps ==
    ASSUME EditInv, NEW a \in Actor, SettingCheck(a) \/ \E e \in DOMAIN log : RevertCheck(a, e)
    PROVE  EditInv'
<1>0. EditTypes /\ AtWork(a) /\ lock = NoOne
  BY DEF EditInv, SettingCheck, RevertCheck
<1>1. CASE SettingCheck(a)
  <2>1. /\ stage[a] = "wait" /\ on[a] \in DOMAIN proposals /\ OfSettings(proposals[on[a]].after)
        /\ UNCHANGED <<current, proposals, log, on, editBounds>> /\ on' = [on EXCEPT ![a] = on[a]]
    BY <1>0, <1>1 DEF SettingCheck, AtWork, EditTypes
  <2>2. CASE UNCHANGED lock /\ stage' = [stage EXCEPT ![a] = "idle"]
    BY <2>1, <2>2, ThreadStep DEF Locked
  <2>3. CASE /\ Proposed(on[a]) /\ Holds(proposals[on[a]].before) /\ lock' = a
             /\ stage' = [stage EXCEPT ![a] = "file"]
    <3>1. EditTypes' /\ stage'[a] = "file" /\ on'[a] = on[a] /\ \A b \in Actor \ {a} : stage'[b] = stage[b] /\ on'[b] = on[b]
      BY <1>0, <2>1, <2>3 DEF EditTypes, editBounds, EditStages, Locked
    <3>2. \A e \in DOMAIN log : log[e].of # on[a]
      <4>1. on[a] # 0
        BY <2>1, ProposalIs
      <4> QED
        BY <2>3, <4>1 DEF EditInv, EditsDecided
    <3>3. AtWork(a)'
      BY <2>1, <2>3, <3>1, <3>2 DEF AtWork, Locked
    <3>4. DOMAIN proposals[on[a]].before = DOMAIN proposals[on[a]].after
      BY <2>1, ProposalIs, SettingsAreOne
    <3>5. \A k \in Setting : Latest(k, current[k]) => Owes(a, k)' /\ Latest(k, current[k])'
      BY <2>1, <2>3, <3>1, <3>4 DEF Owes, Holds, Latest, Touched
    <3> QED
      BY <1>0, <2>1, <2>3, <3>1, <3>3, <3>5, HolderStep
  <2> QED
    BY <1>1, <2>2, <2>3 DEF SettingCheck, EditGoto
<1>2. ASSUME NEW e \in DOMAIN log, RevertCheck(a, e)
      PROVE  EditInv'
  <2>1. /\ stage[a] = "idle" /\ lock' = a /\ log[e].reverts = 0 /\ ~Reverted(e) /\ Holds(log[e].after)
        /\ UNCHANGED <<current, proposals, log, editBounds>> /\ on' = [on EXCEPT ![a] = e]
    BY <1>2 DEF RevertCheck
  <2>2. PICK s \in {"undo", "unfile"} : /\ stage' = [stage EXCEPT ![a] = s]
                                        /\ s = "unfile" <=> OfSettings(log[e].after)
    BY <1>2 DEF RevertCheck, EditGoto
  <2>3. e \in Nat
    BY EntryIs
  <2>4. EditTypes' /\ stage'[a] = s /\ on'[a] = e /\ \A b \in Actor \ {a} : stage'[b] = stage[b] /\ on'[b] = on[b]
    BY <1>0, <2>1, <2>2, <2>3 DEF EditTypes, editBounds, EditStages, Locked
  <2>5. AtWork(a)'
    BY <2>1, <2>2, <2>4 DEF AtWork, Locked, Reverted
  <2>6. \A k \in Setting : Latest(k, current[k]) => Owes(a, k)' /\ Latest(k, current[k])'
    BY <2>1, <2>2, <2>4 DEF Owes, Holds, Latest, Touched
  <2> QED
    BY <1>0, <2>1, <2>4, <2>5, <2>6, HolderStep
<1> QED
  BY <1>1, <1>2

LEMMA FileSteps ==
    ASSUME EditInv, NEW a \in Actor, SettingFile(a) \/ RevertFile(a)
    PROVE  EditInv'
<1>0. EditTypes /\ AtWork(a) /\ UNCHANGED <<proposals, log, lock, on, editBounds>> /\ stage[a] \in {"file", "unfile"}
  BY DEF EditInv, SettingFile, RevertFile
<1>1. lock = a /\ lock' = a
  BY <1>0 DEF AtWork, Locked
<1>2. PICK b, c, s :
         /\ b \in Image /\ c \in Image /\ DOMAIN b = DOMAIN c
         /\ stage[a] = "file" => b = proposals[on[a]].before /\ c = proposals[on[a]].after /\ s = "log"
         /\ stage[a] = "unfile" => b = log[on[a]].after /\ c = log[on[a]].before /\ s = "unlog"
         /\ current' = Overlaid(c) /\ stage' = [stage EXCEPT ![a] = s]
  <2>1. CASE SettingFile(a)
    <3>1. stage[a] = "file" /\ on[a] \in DOMAIN proposals /\ OfSettings(proposals[on[a]].after)
      BY <1>0, <2>1 DEF SettingFile, AtWork
    <3>2. /\ proposals[on[a]].before \in Image /\ proposals[on[a]].after \in Image
          /\ DOMAIN proposals[on[a]].before = DOMAIN proposals[on[a]].after
      BY <3>1, ProposalIs, SettingsAreOne
    <3> QED
      BY <2>1, <3>1, <3>2 DEF SettingFile, EditGoto
  <2>2. CASE RevertFile(a)
    <3>1. stage[a] = "unfile" /\ on[a] \in DOMAIN log /\ OfSettings(log[on[a]].after)
      BY <1>0, <2>2 DEF RevertFile, AtWork
    <3>2. /\ log[on[a]].before \in Image /\ log[on[a]].after \in Image
          /\ DOMAIN log[on[a]].before = DOMAIN log[on[a]].after
      BY <3>1, EntryIs, SettingsAreOne
    <3> QED
      BY <2>2, <3>1, <3>2 DEF RevertFile, EditGoto
  <2> QED
    BY <2>1, <2>2
<1>3. /\ current' \in [Cell \cup Setting -> Value]
      /\ \A k \in Setting : current'[k] = IF k \in DOMAIN c THEN c[k] ELSE current[k]
  BY <1>0, <1>2, OverlaidIs
<1>4. s \in {"log", "unlog"} /\ (stage[a] = "file" <=> s = "log")
  BY <1>0, <1>2
<1>5. EditTypes' /\ stage'[a] = s /\ \A d \in Actor \ {a} : stage'[d] = stage[d] /\ on'[d] = on[d]
  BY <1>0, <1>2, <1>3, <1>4 DEF EditTypes, editBounds, EditStages, Locked
<1>6. AtWork(a)'
  BY <1>0, <1>1, <1>4, <1>5 DEF AtWork, Locked, Reverted
<1>7. ASSUME NEW k \in Setting, Standing(k), Latest(k, current[k])
      PROVE  Owes(a, k)' /\ (~Writing(a, k)' => Latest(k, current[k])')
  <2>1. Owes(a, k)
    BY <1>7 DEF Standing
  <2>2. CASE k \in DOMAIN c
    <3>1. Latest(k, b[k])
      BY <1>0, <1>2, <1>7, <2>1, <2>2 DEF Owes
    <3>2. Owes(a, k)'
      BY <1>0, <1>2, <1>3, <1>4, <1>5, <2>2, <3>1 DEF Owes, Latest, Touched
    <3>3. Writing(a, k)'
      BY <1>0, <1>2, <1>4, <1>5, <2>2 DEF Writing
    <3> QED
      BY <3>2, <3>3
  <2>3. CASE k \notin DOMAIN c
    <3>1. current'[k] = current[k]
      BY <1>3, <2>3
    <3>2. Owes(a, k)'
      BY <1>0, <1>2, <1>4, <1>5, <2>3 DEF Owes
    <3> QED
      BY <1>0, <1>7, <3>1, <3>2 DEF Latest, Touched
  <2> QED
    BY <2>2, <2>3
<1> QED
  BY <1>0, <1>1, <1>5, <1>6, <1>7, HolderStep

\* A write from outside, and a death, end what can be said of the history.
LEMMA DisturbSteps ==
    ASSUME EditInv, (\E x \in Cell \cup Setting, v \in Value : Foreign(x, v)) \/ Crash
    PROVE  EditInv'
<1>0. EditTypes /\ UNCHANGED <<proposals, log, on>> /\ ProposalsKept
  BY DEF EditInv, Foreign, Crash, ProposalsKept, Proposed
<1>1. EditsPaired' /\ EditsDecided' /\ EditsUndone'
  BY <1>0, DecisionsStay
<1>2. EditTypes' /\ ~Undisturbed'
  <2>1. CASE Crash
    BY <1>0, <2>1 DEF EditTypes, Undisturbed, Crash, EditStages
  <2>2. ASSUME NEW x \in Cell \cup Setting, NEW v \in Value, Foreign(x, v)
        PROVE  EditTypes' /\ ~Undisturbed'
    BY <1>0, <2>2 DEF EditTypes, Undisturbed, Foreign
  <2> QED
    BY <2>1, <2>2
<1>3. ASSUME NEW b \in Actor
      PROVE  AtWork(b)'
  <2>1. CASE Crash
    BY <2>1, EditAssumption DEF Crash, AtWork, Locked
  <2>2. CASE \E x \in Cell \cup Setting, v \in Value : Foreign(x, v)
    BY <1>0, <2>2, AtWorkStays DEF Foreign
  <2> QED
    BY <2>1, <2>2
<1> QED
  BY <1>1, <1>2, <1>3 DEF EditInv

LEMMA EditStep == EditInv /\ [EditNext]_editVars => EditInv'
<1> SUFFICES ASSUME EditInv, [EditNext]_editVars
             PROVE  EditInv'
  OBVIOUS
<1>1. CASE UNCHANGED editVars
  BY <1>1 DEF editVars, editBounds, EditInv, EditTypes, EditsPaired, EditsDecided, EditsUndone, RevertedOnce,
              AtWork, Reverted, Proposed, Undisturbed, Standing, Chained, Latest, Touched, Owes, Writing
<1>2. CASE EditNext
  BY <1>2, ProposeSteps, ReadSteps, ApplyWriteStep, CheckSteps, FileSteps, SettingLogStep, UndoSteps, DisturbSteps
     DEF EditNext
<1> QED
  BY <1>1, <1>2

LEMMA EditsAreTold == EditInv => EditsAreTrue
<1> SUFFICES ASSUME EditInv
             PROVE  EditsAreTrue
  OBVIOUS
<1>1. SettingHistory
  <2> SUFFICES ASSUME foreign = 0, deaths = 0, NEW k \in Setting
               PROVE  History(k)
    BY DEF SettingHistory
  <2>1. Standing(k)
    BY DEF EditInv, Undisturbed
  <2>2. (\A a \in Actor : stage[a] \notin {"log", "unlog"}) => Latest(k, current[k])
    BY <2>1 DEF Standing, Writing
  <2> QED
    BY <2>1, <2>2 DEF Standing, History, Chained, Latest
<1>2. SettingAppliedOnce
  <2> SUFFICES ASSUME NEW i \in DOMAIN proposals, OfSettings(proposals[i].after)
               PROVE  Cardinality(Applications(i)) <= 1
    BY DEF SettingAppliedOnce
  <2>1. i # 0
    BY ProposalIs
  <2>2. \A e, f \in Applications(i) : e = f
    BY <2>1 DEF Applications, EditInv, EditsDecided
  <2>3. CASE Applications(i) = {}
    <3>1. Cardinality({}) = 0
      BY FS_EmptySet
    <3> QED
      BY <2>3, <3>1
  <2>4. CASE Applications(i) # {}
    <3>1. PICK e \in Applications(i) : Applications(i) = {e}
      BY <2>2, <2>4
    <3>2. Cardinality({e}) = 1
      BY FS_Singleton
    <3> QED
      BY <3>1, <3>2
  <2> QED
    BY <2>3, <2>4
<1>3. RevertedOnce
  BY DEF EditInv, EditsUndone
<1> QED
  BY <1>1, <1>2, <1>3 DEF EditsAreTrue

(* Whatever races, is rejected or dies: an edit of a setting is applied at
   most once and undone at most once, an undo never, and as long as nothing
   was written from outside and nobody died, each setting's log is a chain
   up to the value that stands: apply_edit, _apply_config_edit, revert_edit. *)
THEOREM TheLogIsTrue == EditSpec => []EditsAreTrue
BY EditsStart, EditStep, EditsAreTold, PTL DEF EditSpec

=============================================================================
