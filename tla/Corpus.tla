------------------------------- MODULE Corpus -------------------------------
(***************************************************************************)
(* The vectors of the archive's nuggets: the model they were made with,    *)
(* the tag that names it and the guard that reads the tag, the run that    *)
(* archives, the repairs (`jester reembed`, --all, --recreate, and the     *)
(* console's), and the retention sweep that takes the text away.           *)
(* src/python/jester/vector.py, agents/archivist.py, cli.py, store.py      *)
(***************************************************************************)
EXTENDS Naturals, FiniteSets

CONSTANTS Nuggets, Models, NoModel,
          Overlap,        \* a vector server is shared; a local store is locked to one process
          Sweeps,         \* whether retention is run
          SpaceFaultBound, ModelBound, RepairBound

ASSUME CorpusAssumption == Overlap \in BOOLEAN /\ Sweeps \in BOOLEAN /\ NoModel \notin Models

VARIABLES model,      \* the embedding model config/thresholds.yaml names
          tag,        \* meta.corpus_embedding_model
          nugget,     \* its row: whether it is there, holds its text, is flagged
          point,      \* its vector: the model that made it and of what, or none
          archiving,  \* the run that archives
          repair,     \* the reembed under way
          torn,       \* ghost: a repair wrote under a model it did not tag
          spaceFaults, modelChanges, repairs

corpusVars == <<model, tag, nugget, point, archiving, repair, torn, spaceFaults, modelChanges, repairs>>
spaceBounds == <<spaceFaults, modelChanges, repairs>>

NoRow == [kept |-> FALSE, text |-> FALSE, flagged |-> FALSE]
NoPoint == [by |-> NoModel, of |-> "nothing"]
NoArchiving == [step |-> "idle", by |-> NoModel, at |-> {}, vector |-> FALSE]
NoRepair == [step |-> "idle", by |-> NoModel, all |-> FALSE, todo |-> {}, at |-> {}, texts |-> {}, failed |-> FALSE]

CorpusInit ==
    /\ model \in Models /\ tag = NoModel
    /\ nugget = [n \in Nuggets |-> NoRow] /\ point = [n \in Nuggets |-> NoPoint]
    /\ archiving = NoArchiving /\ repair = NoRepair /\ torn = FALSE
    /\ spaceFaults = 0 /\ modelChanges = 0 /\ repairs = 0

Kept == {n \in Nuggets : nugget[n].kept}
Vectored == {n \in Nuggets : point[n] # NoPoint}
SpaceFault == spaceFaults < SpaceFaultBound /\ spaceFaults' = spaceFaults + 1
              /\ UNCHANGED <<modelChanges, repairs>>

(* An operator names another model. *)
ChangeModel(m) ==
    /\ m # model /\ modelChanges < ModelBound /\ modelChanges' = modelChanges + 1
    /\ model' = m
    /\ UNCHANGED <<tag, nugget, point, archiving, repair, torn, spaceFaults, repairs>>

-----------------------------------------------------------------------------
(* The archivist                                                           *)

StartArchivingMutant ==
    /\ archiving.step = "idle" /\ (repair.step # "idle" => Overlap)
    /\ tag' = model
    /\ archiving' = [NoArchiving EXCEPT !.step = "look", !.by = model]
    /\ UNCHANGED <<model, nugget, point, repair, torn, spaceBounds>>

(* The guard of a run: a corpus of another model is refused, an untagged one
   takes the run's.                                                         *)
StartArchiving ==
    /\ archiving.step = "idle" /\ (repair.step # "idle" => Overlap)
    /\ tag \in {NoModel, model}
    /\ tag' = model
    /\ archiving' = [NoArchiving EXCEPT !.step = "look", !.by = model]
    /\ UNCHANGED <<model, nugget, point, repair, torn, spaceBounds>>

(* The point is written before the row; when it cannot be, the row is flagged.
   A point of the nugget's own that is there already is written over.       *)
ArchiveVector(n, written) ==
    /\ archiving.step = "look" /\ n \notin Kept
    /\ IF written THEN UNCHANGED spaceBounds ELSE SpaceFault
    /\ point' = IF written THEN [point EXCEPT ![n] = [by |-> archiving.by, of |-> "text"]] ELSE point
    /\ archiving' = [archiving EXCEPT !.step = "insert", !.at = {n}, !.vector = written]
    /\ UNCHANGED <<model, tag, nugget, repair, torn>>

InsertNugget ==
    /\ archiving.step = "insert"
    /\ nugget' = [n \in Nuggets |-> IF n \in archiving.at
                    THEN [kept |-> TRUE, text |-> TRUE, flagged |-> ~archiving.vector] ELSE nugget[n]]
    /\ archiving' = [archiving EXCEPT !.step = "look", !.at = {}]
    /\ UNCHANGED <<model, tag, point, repair, torn, spaceBounds>>

EndArchiving ==
    /\ archiving.step = "look" /\ archiving' = NoArchiving
    /\ UNCHANGED <<model, tag, nugget, point, repair, torn, spaceBounds>>

ArchivistKilled ==
    /\ archiving.step # "idle" /\ SpaceFault /\ archiving' = NoArchiving
    /\ UNCHANGED <<model, tag, nugget, point, repair, torn>>

(* The sweep: text past its time goes, flagged row or not. *)
RetentionSweep(n) ==
    /\ Sweeps /\ nugget[n].text
    /\ nugget' = [nugget EXCEPT ![n].text = FALSE]
    /\ UNCHANGED <<model, tag, point, archiving, repair, torn, spaceBounds>>

-----------------------------------------------------------------------------
(* jester reembed, and the console's                                       *)

(* Refused beside an active run, on the command line; the console does not
   look.  --recreate drops the collection before the rows are read.         *)
StartRepair(all, recreate, console) ==
    /\ repair.step = "idle" /\ repairs < RepairBound /\ repairs' = repairs + 1
    /\ archiving.step # "idle" => console /\ Overlap
    /\ recreate => all
    /\ console => ~all
    /\ point' = IF recreate THEN [n \in Nuggets |-> NoPoint] ELSE point
    /\ LET rows == IF all THEN Kept ELSE {n \in Kept : nugget[n].flagged} IN
       /\ repair' = IF rows = {} THEN NoRepair
                    ELSE [step |-> "work", by |-> model, all |-> all, todo |-> rows, at |-> {},
                          texts |-> {n \in rows : nugget[n].text}, failed |-> FALSE]
       /\ torn' = (torn \/ (rows # {} /\ model # tag))
    /\ UNCHANGED <<model, tag, nugget, archiving, spaceFaults, modelChanges>>

(* The vector of the text that was read, or of no text, then the row. *)
ReembedVector(n, written) ==
    /\ repair.step = "work" /\ n \in repair.todo
    /\ IF written
       THEN /\ point' = [point EXCEPT ![n] = [by |-> repair.by,
                            of |-> IF n \in repair.texts THEN "text" ELSE "empty"]]
            /\ repair' = [repair EXCEPT !.step = "mark", !.todo = @ \ {n}, !.at = {n}]
            /\ UNCHANGED spaceBounds
       ELSE /\ SpaceFault
            /\ repair' = [repair EXCEPT !.todo = @ \ {n}, !.failed = TRUE]
            /\ UNCHANGED point
    /\ UNCHANGED <<model, tag, nugget, archiving, torn>>

MarkReembedded ==
    /\ repair.step = "mark"
    /\ nugget' = [n \in Nuggets |-> IF n \in repair.at THEN [nugget[n] EXCEPT !.flagged = FALSE] ELSE nugget[n]]
    /\ repair' = [repair EXCEPT !.step = "work", !.at = {}]
    /\ UNCHANGED <<model, tag, point, archiving, torn, spaceBounds>>

(* The tag is written last, when every row of the archive was. *)
EndRepair ==
    /\ repair.step = "work" /\ repair.todo = {}
    /\ LET stamped == repair.all /\ ~repair.failed IN
       /\ tag' = IF stamped THEN repair.by ELSE tag
       /\ torn' = (torn /\ ~stamped)
    /\ repair' = NoRepair
    /\ UNCHANGED <<model, nugget, point, archiving, spaceBounds>>

RepairKilled ==
    /\ repair.step # "idle" /\ SpaceFault /\ repair' = NoRepair
    /\ UNCHANGED <<model, tag, nugget, point, archiving, torn>>
CorpusNext ==
    \/ \E m \in Models : ChangeModel(m)
    \/ StartArchiving
    \/ \E n \in Nuggets, written \in BOOLEAN : ArchiveVector(n, written) \/ ReembedVector(n, written)
    \/ InsertNugget \/ EndArchiving \/ ArchivistKilled
    \/ \E n \in Nuggets : RetentionSweep(n)
    \/ \E all, recreate, console \in BOOLEAN : StartRepair(all, recreate, console)
    \/ MarkReembedded \/ EndRepair \/ RepairKilled

CorpusSpec == CorpusInit /\ [][CorpusNext]_corpusVars

-----------------------------------------------------------------------------
(* Vectors of two models are not comparable.  Unless a repair has begun to
   write under a model it has not tagged, the vector of every archived nugget
   that is not flagged is of the model the tag names: a re-embed that failed
   half way, was killed, or covered the failure backlog only does not take the
   tag with it, and a run of another model is refused (archivist.py:71-78,
   cli.py:2803-2816).  What a killed archivist or a failed write left behind
   for a row that is not there, or is flagged, may be of an older one.        *)
OneSpace == (tag # NoModel /\ ~torn) =>
              \A n \in Kept \cap Vectored : ~nugget[n].flagged => point[n].by = tag

(* "Qdrant vectors are derived; rebuild them with `jester reembed --all`"
   (backup.py:455): a vector is that of its nugget's text.                    *)
RebuiltIsSame == \A n \in Kept \cap Vectored : point[n].of = "text"
=============================================================================
