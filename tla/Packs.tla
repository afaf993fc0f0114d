------------------------------- MODULE Packs -------------------------------
(***************************************************************************)
(* The evidence pack of a run: `jester evidence` reads the archive in      *)
(* several statements, none of them in one transaction, while the run may  *)
(* still be writing, and then writes a folder of files over the ones that  *)
(* are there.                                                              *)
(* src/python/jester/evidence.py                                           *)
(***************************************************************************)
EXTENDS Naturals, Sequences

CONSTANTS NuggetKeys,      \* nuggets, by their unique keys
          RunKeys,   \* those that the run extracts: an idea may cite others
          IdeaRows,  \* rows of ideas that the run may add
          Packers,   \* commands that write the pack of the run
          PackBound

ASSUME PacksAssumption == RunKeys \subseteq NuggetKeys /\ PackBound \in Nat

\* The tables in the order they are read and the files in the order they are
\* written, without the run's row and its calls, which come first. "links" are
\* the citations, looked up after all the rest; "verdict" is what is said of
\* them in citations.json, integrity.json and the README, the last files.
ReadOrderMutant == <<"nuggets", "ideas", "sources", "links">>
ReadOrder == <<"ideas", "nuggets", "sources", "links">>
WriteOrder == <<"ideas", "nuggets", "sources", "verdict">>
PackFiles == {WriteOrder[i] : i \in 1..4}

VARIABLES nuggetRows, \* the nuggets there are
          ideaRows,   \* what each idea of the run cites
          packer,     \* the pack a command makes, what it has read, what it has written
          packs,      \* what each pack was made from
          folder      \* the pack each file is of, 0 before there is one

packVars == <<nuggetRows, ideaRows, packer, packs, folder>>
archiveRows == <<nuggetRows, ideaRows>>

Unpacked == [pack |-> 0, read |-> 0, written |-> 0]
Blank == [ideas |-> <<>>, nuggets |-> {}, sources |-> {},
          missing |-> {}]

PacksInit ==
    /\ nuggetRows \in SUBSET (NuggetKeys \ RunKeys)
    /\ ideaRows = <<>>
    /\ packer = [p \in Packers |-> Unpacked] /\ packs = <<>> /\ folder = [f \in PackFiles |-> 0]

-----------------------------------------------------------------------------
(* The run: nuggets are added and never deleted                            *)

AddNugget(x) ==
    /\ x \notin nuggetRows /\ nuggetRows' = nuggetRows \cup {x}
    /\ UNCHANGED <<ideaRows, packer, packs, folder>>

\* An idea is added for nuggets there are, and gains some when one like it
\* comes; one whose column cannot be read cites nothing.
AddIdea(i, S) ==
    /\ S \subseteq nuggetRows
    /\ i \in DOMAIN ideaRows => ideaRows[i] # {} /\ ideaRows[i] \subseteq S /\ ideaRows[i] # S
    /\ ideaRows' = [j \in DOMAIN ideaRows \cup {i} |-> IF j = i THEN S ELSE ideaRows[j]]
    /\ UNCHANGED <<nuggetRows, packer, packs, folder>>

-----------------------------------------------------------------------------
(* The pack                                                                *)

StartPack(p) ==
    /\ packer[p] = Unpacked /\ Len(packs) < PackBound
    /\ packs' = Append(packs, Blank)
    /\ packer' = [packer EXCEPT ![p] = [Unpacked EXCEPT !.pack = Len(packs) + 1]]
    /\ UNCHANGED <<archiveRows, folder>>

\* What an idea cites, and what of that the archive does not hold.
Cited(pack) == UNION {pack.ideas[i] : i \in DOMAIN pack.ideas}
CitesNothing(pack) == {i \in DOMAIN pack.ideas : pack.ideas[i] = {}}

OfTable(table, pack) ==
    CASE table = "ideas" -> [pack EXCEPT !.ideas = ideaRows]
      [] table = "nuggets" -> [pack EXCEPT !.nuggets = nuggetRows \cap RunKeys]
      [] table = "sources" -> [pack EXCEPT !.sources = nuggetRows \cap RunKeys]
      [] OTHER -> [pack EXCEPT !.missing = Cited(pack) \ nuggetRows]

ReadTable(p) ==
    LET n == packer[p].pack IN
    /\ n # 0 /\ packer[p].read < 4
    /\ packer' = [packer EXCEPT ![p].read = @ + 1]
    /\ packs' = [packs EXCEPT ![n] = OfTable(ReadOrder[packer[p].read + 1], @)]
    /\ UNCHANGED <<archiveRows, folder>>

\* integrity.json, and the README's PASS.
Passes(pack) == pack.missing = {} /\ CitesNothing(pack) = {}

WriteFile(p) ==
    /\ packer[p].read = 4
    /\ folder' = [folder EXCEPT ![WriteOrder[packer[p].written + 1]] = packer[p].pack]
    /\ packer' = [packer EXCEPT ![p] = IF packer[p].written = 3 THEN Unpacked
                                       ELSE [packer[p] EXCEPT !.written = @ + 1]]
    /\ UNCHANGED <<archiveRows, packs>>

\* The command is killed, or a file cannot be written.
PackerDies(p) ==
    /\ packer[p] # Unpacked /\ packer' = [packer EXCEPT ![p] = Unpacked]
    /\ UNCHANGED <<archiveRows, packs, folder>>

PacksNext ==
    \/ \E x \in NuggetKeys : AddNugget(x)
    \/ \E i \in IdeaRows : \E S \in SUBSET nuggetRows : AddIdea(i, S)
    \/ \E p \in Packers : StartPack(p)
    \/ \E p \in Packers : ReadTable(p)
    \/ \E p \in Packers : WriteFile(p)
    \/ \E p \in Packers : PackerDies(p)

PacksSpec == PacksInit /\ [][PacksNext]_packVars

-----------------------------------------------------------------------------
(* What must hold                                                          *)

Citations == UNION {[I -> SUBSET NuggetKeys] : I \in SUBSET IdeaRows}
PacksType ==
    /\ nuggetRows \subseteq NuggetKeys /\ ideaRows \in Citations
    /\ packer \in [Packers -> [pack : Nat, read : 0..4, written : 0..3]]
    /\ packs \in Seq([ideas : Citations,
                      nuggets : SUBSET NuggetKeys, sources : SUBSET NuggetKeys, missing : SUBSET NuggetKeys])
    /\ folder \in [PackFiles -> Nat]

\* A folder that is one pack's, and not what is left of several.
OnePack(n) == \A f \in PackFiles : folder[f] = n

\* The files of a pack agree although the archive grew between their reads:
\* what an idea in ideas.json cites of this run is in nuggets.json, a nugget
\* there has its source in sources.json, and the verdict is PASS unless an
\* idea there cites nothing (write_pack; README: "one folder a stranger can follow").
FilesAgree(pack) ==
    /\ Cited(pack) \cap RunKeys \subseteq pack.nuggets
    /\ pack.nuggets \subseteq pack.sources
    /\ Passes(pack) <=> CitesNothing(pack) = {}
PackAgrees == \A n \in DOMAIN packs : OnePack(n) => FilesAgree(packs[n])
=============================================================================
