----------------------------- MODULE CsvExport -----------------------------
(***************************************************************************)
(* The CSV export of the archive: the tree is built beside its target and  *)
(* swapped in, by a command, the cycle or the console, any of which may be *)
(* killed; retention prunes what is too old and what was left over.        *)
(* src/python/jester/export.py                                             *)
(***************************************************************************)
EXTENDS Naturals, FiniteSets, TLAPS

CONSTANTS Exporters,    \* processes that export to the same directory, one after another
          Shards,       \* the CSV files of one export
          TreeBound,    \* exports started
          ExportKills, DiskFaults

ASSUME CsvExportAssumption ==
    /\ Shards # {}
    /\ {TreeBound, ExportKills, DiskFaults} \subseteq Nat

VARIABLES target,      \* the tree at out_dir
          staged,       \* the tree at <name>.staging
          retired,     \* the trees at <name>.retired-*
          swap,        \* per exporter: its step, its export, the shards it has written, what it retired
          trees,       \* exports started
          mishaps      \* kills and faults left

csvVars == <<target, staged, retired, swap, trees, mishaps>>

(* A tree holds, for each shard, the export it was written by, 0 for none,
   and the export whose manifest it has.                                    *)
NoTree == [files |-> [s \in Shards |-> 0], manifest |-> 0, there |-> FALSE]
Bare == [NoTree EXCEPT !.there = TRUE]
Complete(tree) == tree.manifest # 0 /\ \A s \in Shards : tree.files[s] = tree.manifest
NoSwap == [step |-> "idle", export |-> 0, wrote |-> {}, aside |-> NoTree]

CsvInit ==
    /\ target \in {NoTree, Bare} /\ staged = NoTree /\ retired = {}
    /\ swap = [e \in Exporters |-> NoSwap] /\ trees = 0
    /\ mishaps = [kill |-> ExportKills, disk |-> DiskFaults]

SwapStep(e, from, to) == swap[e].step = from /\ swap' = [swap EXCEPT ![e].step = to]

(* _clear_swap_leftovers, then everything is read out of the archive. *)
ClearSwapLeftovers == staged' = NoTree /\ retired' = {}
StartExport(e) ==
    /\ (\A o \in Exporters : swap[o].step = "idle") /\ trees < TreeBound
    /\ trees' = trees + 1
    /\ swap' = [swap EXCEPT ![e] = [NoSwap EXCEPT !.step = "shards", !.export = trees']]
    /\ ClearSwapLeftovers /\ UNCHANGED <<target, mishaps>>

(* A shard's directory is made when it is missing. *)
WriteShard(e, s) ==
    /\ swap[e].step = "shards" /\ s \notin swap[e].wrote
    /\ staged' = [staged EXCEPT !.files[s] = swap[e].export, !.there = TRUE]
    /\ swap' = [swap EXCEPT ![e].wrote = @ \cup {s}]
    /\ UNCHANGED <<target, retired, trees, mishaps>>

WriteTreeManifestMutant(e) ==
    /\ SwapStep(e, "shards", "manifest") /\ staged.there
    /\ staged' = [staged EXCEPT !.manifest = swap[e].export]
    /\ UNCHANGED <<target, retired, trees, mishaps>>
WriteTreeManifest(e) ==
    /\ SwapStep(e, "shards", "manifest") /\ swap[e].wrote = Shards /\ staged.there
    /\ staged' = [staged EXCEPT !.manifest = swap[e].export]
    /\ UNCHANGED <<target, retired, trees, mishaps>>

(* A previous export goes aside under a name with the time of the new one; a
   tree without a manifest is removed.                                       *)
Retire(e) ==
    /\ swap[e].step = "manifest"
    /\ LET aside == IF target.there /\ target.manifest # 0 THEN target ELSE NoTree
       IN /\ swap' = [swap EXCEPT ![e].step = "swap", ![e].aside = aside]
          /\ retired' = IF aside.there THEN retired \cup {aside} ELSE retired
    /\ target' = NoTree
    /\ UNCHANGED <<staged, trees, mishaps>>

Replace(e) ==
    /\ SwapStep(e, "swap", "discard") /\ staged.there /\ ~target.there
    /\ target' = staged /\ staged' = NoTree
    /\ UNCHANGED <<retired, trees, mishaps>>

DiscardRetired(e) ==
    /\ swap[e].step = "discard" /\ swap' = [swap EXCEPT ![e] = NoSwap]
    /\ retired' = retired \ {swap[e].aside}
    /\ UNCHANGED <<target, staged, trees, mishaps>>

(* The export raises: whatever was put aside is put back when the target is
   free, and the staging tree goes.                                          *)
PutBack(e) ==
    LET aside == swap[e].aside IN
    IF swap[e].step = "swap" /\ aside \in retired /\ ~target.there
    THEN target' = aside /\ retired' = retired \ {aside}
    ELSE UNCHANGED <<target, retired>>
ExportFails(e) ==
    /\ swap' = [swap EXCEPT ![e] = NoSwap] /\ staged' = NoTree
    /\ PutBack(e) /\ UNCHANGED <<trees>>
(* The disk refuses a write or a rename. *)
DiskFault(e) ==
    /\ swap[e].step \in {"shards", "manifest", "swap"} /\ mishaps.disk > 0
    /\ mishaps' = [mishaps EXCEPT !.disk = @ - 1] /\ ExportFails(e)
ExportKilled(e) ==
    /\ swap[e].step # "idle" /\ mishaps.kill > 0
    /\ mishaps' = [mishaps EXCEPT !.kill = @ - 1]
    /\ swap' = [swap EXCEPT ![e] = NoSwap]
    /\ UNCHANGED <<target, staged, retired, trees>>

(* prune_exports: leftovers at once, the target past its time and only with a
   manifest.                                                                 *)
PruneExports(old) ==
    /\ \A e \in Exporters : swap[e].step = "idle"
    /\ ClearSwapLeftovers
    /\ IF old /\ target.manifest # 0 THEN target' = NoTree
       ELSE UNCHANGED target
    /\ UNCHANGED <<swap, trees, mishaps>>

CsvNext ==
    \/ \E e \in Exporters :
          \/ StartExport(e) \/ \E s \in Shards : WriteShard(e, s)
          \/ WriteTreeManifest(e) \/ Retire(e) \/ Replace(e) \/ DiscardRetired(e)
          \/ DiskFault(e) \/ ExportKilled(e)
    \/ \E old \in BOOLEAN : PruneExports(old)

CsvSpec == CsvInit /\ [][CsvNext]_csvVars

(* Whatever a kill or a full disk interrupts, a tree with a manifest at the
   target has every shard of that export and none of another.                *)
ExportWhole == target.manifest # 0 => Complete(target)

-----------------------------------------------------------------------------
(* It holds for any exporters, shards, kills and faults: only one exporter is
   at work, its staging tree is of one export, and what it put aside was whole. *)
Tree == [files : [Shards -> Nat], manifest : Nat, there : BOOLEAN]
SwapState == [step : {"idle", "shards", "manifest", "swap", "discard"}, export : Nat,
              wrote : SUBSET Shards, aside : Tree]
CsvTypes ==
    /\ target \in Tree /\ staged \in Tree /\ retired \in SUBSET Tree
    /\ swap \in [Exporters -> SwapState] /\ trees \in Nat
OneExporter ==
    \A d, e \in Exporters : swap[d].step # "idle" /\ swap[e].step # "idle" => d = e
StagedSoFar(e) ==
    /\ swap[e].step # "idle" => swap[e].export # 0
    /\ swap[e].step = "shards" =>
          staged.manifest = 0 /\ \A s \in swap[e].wrote : staged.files[s] = swap[e].export
    /\ swap[e].step \in {"manifest", "swap"} => Complete(staged)
    /\ swap[e].aside.manifest # 0 => Complete(swap[e].aside)
CsvInv == CsvTypes /\ OneExporter /\ (\A e \in Exporters : StagedSoFar(e)) /\ ExportWhole

LEMMA NoTreeIsTree == NoTree \in Tree /\ Bare \in Tree /\ NoTree.manifest = 0 /\ Bare.manifest = 0
  BY DEF NoTree, Bare, Tree

LEMMA NoSwapIsSwap ==
    /\ NoSwap \in SwapState /\ NoSwap.step = "idle" /\ NoSwap.aside.manifest = 0
  BY NoTreeIsTree DEF NoSwap, SwapState

LEMMA CsvInvInit == CsvInit => CsvInv
<1> SUFFICES ASSUME CsvInit
             PROVE  CsvInv
  OBVIOUS
<1>1. \A e \in Exporters : swap[e] = NoSwap
  BY DEF CsvInit
<1>2. CsvTypes /\ ExportWhole
  BY NoTreeIsTree, NoSwapIsSwap DEF CsvInit, CsvTypes, ExportWhole
<1>3. OneExporter /\ \A e \in Exporters : StagedSoFar(e)
  BY <1>1, NoSwapIsSwap DEF OneExporter, StagedSoFar
<1> QED
  BY <1>2, <1>3 DEF CsvInv

(* A step of the one exporter that ends it: what is left to ask is that the
   target is whole.                                                          *)
LEMMA EndedExport ==
    ASSUME CsvInv, NEW e \in Exporters, swap[e].step # "idle",
           swap' = [swap EXCEPT ![e] = NoSwap],
           staged' \in Tree, retired' \in SUBSET Tree, target' \in Tree, trees' = trees,
           ExportWhole'
    PROVE  CsvInv'
<1>1. /\ swap' \in [Exporters -> SwapState] /\ swap'[e] = NoSwap
      /\ \A d \in Exporters \ {e} : swap'[d] = swap[d] /\ swap[d].step = "idle"
  BY NoSwapIsSwap DEF CsvInv, CsvTypes, OneExporter
<1>2. CsvTypes'
  BY <1>1 DEF CsvInv, CsvTypes
<1>3. OneExporter'
  BY <1>1, NoSwapIsSwap DEF OneExporter
<1>4. ASSUME NEW d \in Exporters
      PROVE  StagedSoFar(d)'
  <2>1. CASE d = e
    BY <1>1, <2>1, NoSwapIsSwap DEF StagedSoFar
  <2>2. CASE d # e
    BY <1>1, <2>2 DEF StagedSoFar, CsvInv
  <2> QED
    BY <2>1, <2>2
<1> QED
  BY <1>2, <1>3, <1>4 DEF CsvInv

(* A step of the one exporter that takes it further. *)
LEMMA MovedExport ==
    ASSUME CsvInv, NEW e \in Exporters, NEW w \in SwapState,
           \A d \in Exporters \ {e} : swap[d].step = "idle",
           swap' = [swap EXCEPT ![e] = w],
           staged' \in Tree, retired' \in SUBSET Tree, target' \in Tree, trees' \in Nat,
           StagedSoFar(e)', ExportWhole'
    PROVE  CsvInv'
<1>1. /\ swap' \in [Exporters -> SwapState] /\ swap'[e] = w
      /\ \A d \in Exporters \ {e} : swap'[d] = swap[d]
  BY DEF CsvInv, CsvTypes
<1>2. CsvTypes'
  BY <1>1 DEF CsvInv, CsvTypes
<1>3. OneExporter'
  BY <1>1 DEF OneExporter
<1>4. ASSUME NEW d \in Exporters
      PROVE  StagedSoFar(d)'
  <2>1. CASE d # e
    BY <1>1, <2>1 DEF StagedSoFar, CsvInv
  <2> QED
    BY <2>1
<1> QED
  BY <1>2, <1>3, <1>4 DEF CsvInv

LEMMA CsvInvStep ==
    ASSUME CsvInv, [CsvNext]_csvVars
    PROVE  CsvInv'
<1> USE DEF CsvInv
<1>1. ASSUME NEW e \in Exporters, swap[e].step # "idle"
      PROVE  /\ swap[e] \in SwapState /\ StagedSoFar(e)
             /\ \A d \in Exporters \ {e} : swap[d].step = "idle"
  BY <1>1 DEF CsvTypes, OneExporter
<1>2. ASSUME NEW e \in Exporters, StartExport(e)
      PROVE  CsvInv'
  <2> DEFINE w == [NoSwap EXCEPT !.step = "shards", !.export = trees']
  <2>1. trees' \in Nat \ {0}
    BY <1>2 DEF StartExport, CsvTypes
  <2>2. /\ w \in SwapState /\ w.step = "shards" /\ w.export = trees' /\ w.wrote = {}
        /\ w.aside.manifest = 0
    BY <2>1, NoTreeIsTree DEF NoSwap, SwapState
  <2>3. /\ swap' = [swap EXCEPT ![e] = w] /\ \A d \in Exporters \ {e} : swap[d].step = "idle"
        /\ staged' = NoTree /\ retired' = {} /\ target' = target
    BY <1>2 DEF StartExport, ClearSwapLeftovers
  <2>4. swap'[e] = w
    BY <2>3 DEF CsvTypes
  <2>5. StagedSoFar(e)' /\ ExportWhole'
    BY <2>1, <2>2, <2>3, <2>4, NoTreeIsTree DEF StagedSoFar, ExportWhole
  <2> QED
    BY <2>1, <2>2, <2>3, <2>5, NoTreeIsTree, MovedExport DEF CsvTypes
<1>3. ASSUME NEW e \in Exporters, NEW s \in Shards, WriteShard(e, s)
      PROVE  CsvInv'
  <2> DEFINE w == [swap[e] EXCEPT !.wrote = @ \cup {s}]
  <2>1. /\ swap[e].step = "shards" /\ swap[e] \in SwapState /\ StagedSoFar(e)
        /\ \A d \in Exporters \ {e} : swap[d].step = "idle"
    BY <1>1, <1>3 DEF WriteShard
  <2>2. /\ w \in SwapState /\ w.step = "shards" /\ w.export = swap[e].export
        /\ w.wrote = swap[e].wrote \cup {s} /\ w.aside = swap[e].aside
    BY <2>1 DEF SwapState
  <2>3. /\ swap' = [swap EXCEPT ![e] = w] /\ swap'[e] = w
        /\ UNCHANGED <<target, retired, trees>>
    BY <1>3 DEF WriteShard, CsvTypes
  <2>4. swap[e].export \in Nat /\ swap[e].wrote \subseteq Shards
    BY <2>1 DEF SwapState
  <2>5. /\ staged' \in Tree /\ staged'.manifest = staged.manifest
        /\ \A k \in Shards : staged'.files[k] = IF k = s THEN swap[e].export ELSE staged.files[k]
    BY <1>3, <2>4 DEF WriteShard, CsvTypes, Tree
  <2>6. StagedSoFar(e)' /\ ExportWhole'
    BY <2>1, <2>2, <2>3, <2>4, <2>5 DEF StagedSoFar, ExportWhole, Complete
  <2> QED
    BY <2>1, <2>2, <2>3, <2>5, <2>6, MovedExport DEF CsvTypes
<1>4. ASSUME NEW e \in Exporters, WriteTreeManifest(e)
      PROVE  CsvInv'
  <2> DEFINE w == [swap[e] EXCEPT !.step = "manifest"]
  <2>1. /\ swap[e].step = "shards" /\ swap[e] \in SwapState /\ StagedSoFar(e)
        /\ \A d \in Exporters \ {e} : swap[d].step = "idle"
    BY <1>1, <1>4 DEF WriteTreeManifest, SwapStep
  <2>2. /\ w \in SwapState /\ w.step = "manifest" /\ w.export = swap[e].export
        /\ w.aside = swap[e].aside
    BY <2>1 DEF SwapState
  <2>3. /\ swap' = [swap EXCEPT ![e] = w] /\ swap'[e] = w /\ swap[e].wrote = Shards
        /\ UNCHANGED <<target, retired, trees>>
    BY <1>4 DEF WriteTreeManifest, SwapStep, CsvTypes
  <2>4. swap[e].export \in Nat
    BY <2>1 DEF SwapState
  <2>5. /\ staged' \in Tree /\ staged'.manifest = swap[e].export
        /\ staged'.files = staged.files
    BY <1>4, <2>4 DEF WriteTreeManifest, CsvTypes, Tree
  <2>6. swap[e].export # 0 /\ \A s \in Shards : staged.files[s] = swap[e].export
    BY <2>1, <2>3 DEF StagedSoFar
  <2>7. Complete(staged)'
    BY <2>5, <2>6 DEF Complete
  <2>8. w.aside.manifest # 0 => Complete(w.aside)
    BY <2>1, <2>2 DEF StagedSoFar
  <2>9. StagedSoFar(e)'
    BY <2>2, <2>3, <2>6, <2>7, <2>8 DEF StagedSoFar
  <2>10. ExportWhole'
    BY <2>3 DEF ExportWhole, Complete
  <2> QED
    BY <2>1, <2>2, <2>3, <2>5, <2>9, <2>10, MovedExport DEF CsvTypes
<1>5. ASSUME NEW e \in Exporters, Retire(e)
      PROVE  CsvInv'
  <2> DEFINE aside == IF target.there /\ target.manifest # 0 THEN target ELSE NoTree
             w == [swap[e] EXCEPT !.step = "swap", !.aside = aside]
  <2>1. /\ swap[e].step = "manifest" /\ swap[e] \in SwapState /\ StagedSoFar(e)
        /\ \A d \in Exporters \ {e} : swap[d].step = "idle"
    BY <1>1, <1>5 DEF Retire
  <2>2. aside \in Tree /\ (aside.manifest # 0 => Complete(aside))
    BY NoTreeIsTree DEF CsvTypes, ExportWhole
  <2>3. /\ w \in SwapState /\ w.step = "swap" /\ w.export = swap[e].export
        /\ w.aside = aside
    BY <2>1, <2>2 DEF SwapState
  <2>4. /\ swap' = [swap EXCEPT ![e] = w] /\ target' = NoTree
        /\ UNCHANGED <<staged, trees>>
    BY <1>5, <2>1 DEF Retire, SwapState
  <2>5. swap'[e] = w
    BY <2>4 DEF CsvTypes
  <2>6. retired' \in SUBSET Tree
    BY <1>5, <2>2 DEF Retire, CsvTypes
  <2>7. StagedSoFar(e)' /\ ExportWhole'
    BY <2>1, <2>2, <2>3, <2>4, <2>5, NoTreeIsTree DEF StagedSoFar, ExportWhole, Complete
  <2> QED
    BY <2>1, <2>3, <2>4, <2>6, <2>7, NoTreeIsTree, MovedExport DEF CsvTypes
<1>6. ASSUME NEW e \in Exporters, Replace(e)
      PROVE  CsvInv'
  <2> DEFINE w == [swap[e] EXCEPT !.step = "discard"]
  <2>1. /\ swap[e].step = "swap" /\ swap[e] \in SwapState /\ StagedSoFar(e)
        /\ \A d \in Exporters \ {e} : swap[d].step = "idle"
    BY <1>1, <1>6 DEF Replace, SwapStep
  <2>2. /\ w \in SwapState /\ w.step = "discard" /\ w.export = swap[e].export
        /\ w.aside = swap[e].aside
    BY <2>1 DEF SwapState
  <2>3. /\ swap' = [swap EXCEPT ![e] = w] /\ swap'[e] = w
        /\ target' = staged /\ staged' = NoTree /\ UNCHANGED <<retired, trees>>
    BY <1>6 DEF Replace, SwapStep, CsvTypes
  <2>4. Complete(staged)
    BY <2>1 DEF StagedSoFar
  <2>5. w.aside.manifest # 0 => Complete(w.aside)
    BY <2>1, <2>2 DEF StagedSoFar
  <2>6. StagedSoFar(e)'
    BY <2>1, <2>2, <2>3, <2>5 DEF StagedSoFar
  <2>7. ExportWhole'
    BY <2>3, <2>4 DEF ExportWhole, Complete
  <2> QED
    BY <2>1, <2>2, <2>3, <2>6, <2>7, NoTreeIsTree, MovedExport DEF CsvTypes
<1>7. ASSUME NEW e \in Exporters, DiscardRetired(e)
      PROVE  CsvInv'
  BY <1>7, EndedExport DEF DiscardRetired, CsvTypes, ExportWhole, Complete
<1>8. ASSUME NEW e \in Exporters, DiskFault(e)
      PROVE  CsvInv'
  <2>1. /\ swap[e].step # "idle" /\ swap' = [swap EXCEPT ![e] = NoSwap]
        /\ staged' = NoTree /\ PutBack(e) /\ trees' = trees
    BY <1>8 DEF DiskFault, ExportFails
  <2>2. swap[e].aside \in Tree /\ (swap[e].aside.manifest # 0 => Complete(swap[e].aside))
    BY <1>1, <2>1 DEF SwapState, StagedSoFar
  <2>3. retired' \in SUBSET Tree /\ target' \in Tree /\ ExportWhole'
    BY <2>1, <2>2 DEF PutBack, CsvTypes, ExportWhole, Complete
  <2> QED
    BY <2>1, <2>3, NoTreeIsTree, EndedExport
<1>9. ASSUME NEW e \in Exporters, ExportKilled(e)
      PROVE  CsvInv'
  BY <1>9, EndedExport DEF ExportKilled, CsvTypes, ExportWhole, Complete
<1>10. ASSUME NEW old \in BOOLEAN, PruneExports(old)
       PROVE  CsvInv'
  <2>1. /\ \A e \in Exporters : swap[e].step = "idle"
        /\ staged' = NoTree /\ retired' = {} /\ UNCHANGED <<swap, trees>>
        /\ target' = NoTree \/ target' = target
    BY <1>10 DEF PruneExports, ClearSwapLeftovers
  <2>2. CsvTypes' /\ ExportWhole'
    BY <2>1, NoTreeIsTree DEF CsvTypes, ExportWhole, Complete
  <2>3. OneExporter' /\ \A e \in Exporters : StagedSoFar(e)'
    BY <2>1 DEF OneExporter, StagedSoFar
  <2> QED
    BY <2>2, <2>3
<1>11. CASE UNCHANGED csvVars
  BY <1>11 DEF csvVars, CsvTypes, OneExporter, StagedSoFar, ExportWhole, Complete
<1> QED
  BY <1>2, <1>3, <1>4, <1>5, <1>6, <1>7, <1>8, <1>9, <1>10, <1>11 DEF CsvNext

(* The tree that export.py swaps in is whole at every moment, for any exporters
   taking turns, any shards, and any number of kills and faults.              *)
THEOREM TargetIsWhole == CsvSpec => []ExportWhole
<1>1. CsvInit => CsvInv
  BY CsvInvInit
<1>2. CsvInv /\ [CsvNext]_csvVars => CsvInv'
  BY CsvInvStep
<1>3. CsvInv => ExportWhole
  BY DEF CsvInv
<1> QED
  BY <1>1, <1>2, <1>3, PTL DEF CsvSpec
=============================================================================
