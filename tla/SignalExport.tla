---------------------------- MODULE SignalExport ----------------------------
(***************************************************************************)
(* What leaves the archive of problem signals: the CSV with its manifest,  *)
(* written by temporary files and renames that a kill or a loss of power   *)
(* may stop anywhere, and the copy in ClickHouse, loaded batch by batch    *)
(* and then counted against SQLite.                                        *)
(* src/python/jester/signals/__init__.py, signals/clickhouse.py            *)
(***************************************************************************)
EXTENDS Naturals, FiniteSets

CONSTANTS Records,
          NoFile,
          DirSyncs,       \* a directory can be flushed (POSIX, not Windows)
          UnlinkFails,    \* another program may hold a file open
          Retires,        \* retention is not paused
          WriteBound, ExportBound, LoadBound

ASSUME SignalExportAssumption ==
    /\ DirSyncs \in BOOLEAN /\ UnlinkFails \in BOOLEAN
    /\ NoFile \notin [says : Nat, seen : Nat]

VARIABLES table,    \* problem_signal: what a record says and its last_seen_utc, or NoFile
          dir,      \* the export directory as the programs see it
          durable,  \* what a loss of power leaves of it
          export,   \* where the exporter is
          copy,     \* ClickHouse: the row FINAL shows for a record, or NoFile
          loader,   \* where the loader is
          writes, exports, loads

exportVars == <<table, dir, durable, export, copy, loader, writes, exports, loads>>
files == <<dir, durable>>

Empty == [csv |-> NoFile, manifest |-> NoFile]
Resting == [step |-> "idle", rows |-> NoFile]
Away == [step |-> "idle", rows |-> NoFile, sent |-> {}, counted |-> 0, yes |-> FALSE]

Present(rows) == {r \in Records : rows[r] # NoFile}
NoRecords == [r \in Records |-> NoFile]

ExportInit ==
    /\ table = NoRecords /\ copy = NoRecords
    /\ dir = Empty /\ durable = Empty
    /\ export = Resting /\ loader = Away
    /\ writes = 0 /\ exports = 0 /\ loads = 0

-----------------------------------------------------------------------------
(* The other writers of the table: a collector, an operator, retention     *)

Write(r, seen, removed) ==
    /\ writes < WriteBound /\ writes' = writes + 1
    /\ seen \in {writes, IF table[r] = NoFile THEN writes ELSE table[r].seen}
    /\ removed => Retires /\ table[r] # NoFile
    /\ table' = [table EXCEPT ![r] = IF removed THEN NoFile ELSE [says |-> writes, seen |-> seen]]
    /\ UNCHANGED <<files, export, copy, loader, exports, loads>>

-----------------------------------------------------------------------------
(* export_csv                                                              *)

\* A flush of the directory makes every name in it durable, where it works.
Flushed == IF DirSyncs THEN durable' = dir' ELSE UNCHANGED durable
Unlinks(name) == \/ dir' = [dir EXCEPT ![name] = NoFile]
                 \/ UnlinkFails /\ UNCHANGED dir

\* The rows are read, and the temporary file is written and flushed.
WriteRows ==
    /\ export.step = "idle" /\ exports < ExportBound
    /\ exports' = exports + 1
    /\ export' = [step |-> "unlink", rows |-> table]
    /\ UNCHANGED <<table, files, copy, loader, writes, loads>>

UnlinkManifestMutant ==
    /\ export.step = "unlink"
    /\ export' = [export EXCEPT !.step = "rename"]
    /\ UNCHANGED <<table, files, copy, loader, writes, exports, loads>>
\* The previous manifest goes before the new file takes its name.
UnlinkManifest ==
    /\ export.step = "unlink"
    /\ Unlinks("manifest") /\ Flushed
    /\ export' = [export EXCEPT !.step = "rename"]
    /\ UNCHANGED <<table, copy, loader, writes, exports, loads>>

RenameCsv ==
    /\ export.step = "rename"
    /\ dir' = [dir EXCEPT !.csv = export.rows] /\ Flushed
    /\ export' = [export EXCEPT !.step = "hash"]
    /\ UNCHANGED <<table, copy, loader, writes, exports, loads>>

\* The file is read again, and its ids are compared with the table's.
HashCsv ==
    /\ export.step = "hash" /\ dir.csv # NoFile
    /\ export' = [step |-> "manifest",
                  rows |-> [of |-> dir.csv, reconciles |-> Present(dir.csv) = Present(table)]]
    /\ UNCHANGED <<table, files, copy, loader, writes, exports, loads>>

RenameManifest ==
    /\ export.step = "manifest"
    /\ dir' = [dir EXCEPT !.manifest = export.rows] /\ Flushed
    /\ export' = Resting
    /\ UNCHANGED <<table, copy, loader, writes, exports, loads>>

\* An exception anywhere: the final pair goes too, file first.
ExportRaises ==
    /\ export.step \in {"unlink", "rename", "hash", "manifest"}
    /\ Unlinks("csv") /\ UNCHANGED durable
    /\ export' = [Resting EXCEPT !.step = "undo"]
    /\ UNCHANGED <<table, copy, loader, writes, exports, loads>>

UndoManifest ==
    /\ export.step = "undo"
    /\ Unlinks("manifest") /\ UNCHANGED durable
    /\ export' = Resting
    /\ UNCHANGED <<table, copy, loader, writes, exports, loads>>

ExporterKilled ==
    /\ export.step # "idle" /\ export' = Resting
    /\ UNCHANGED <<table, files, copy, loader, writes, exports, loads>>

\* The system writes its names back when it likes; a loss of power leaves,
\* of each name, what was written back.
WriteBack(name) ==
    /\ durable[name] # dir[name]
    /\ durable' = [durable EXCEPT ![name] = dir[name]]
    /\ UNCHANGED <<table, dir, export, copy, loader, writes, exports, loads>>

PowerLost ==
    /\ dir # durable \/ export.step # "idle"
    /\ dir' = durable /\ export' = Resting /\ loader' = Away
    /\ UNCHANGED <<table, durable, copy, writes, exports, loads>>

-----------------------------------------------------------------------------
(* clickhouse.load and reconcile                                           *)

\* The cursor of the load sees the table as it was when it was opened.
StartLoad ==
    /\ loader.step = "idle" /\ loads < LoadBound
    /\ loads' = loads + 1
    /\ loader' = [Away EXCEPT !.step = "send", !.rows = table]
    /\ UNCHANGED <<table, files, export, copy, writes, exports>>

\* A replacing table keeps, of a record, the last row of its newest version.
SendRow(r) ==
    /\ loader.step = "send" /\ r \in Present(loader.rows) \ loader.sent
    /\ copy' = [copy EXCEPT ![r] = IF copy[r] # NoFile /\ copy[r].seen > loader.rows[r].seen
                                   THEN @ ELSE loader.rows[r]]
    /\ loader' = [loader EXCEPT !.sent = @ \cup {r}]
    /\ UNCHANGED <<table, files, export, writes, exports, loads>>

\* reconcile: the rows of SQLite are counted first, those of ClickHouse then.
CountTable ==
    /\ loader.step = "send" /\ loader.sent = Present(loader.rows)
    /\ loader' = [Away EXCEPT !.step = "count", !.counted = Cardinality(Present(table))]
    /\ UNCHANGED <<table, files, export, copy, writes, exports, loads>>

Reconcile ==
    /\ loader.step = "count"
    /\ loader' = [Away EXCEPT !.step = "said", !.yes = loader.counted = Cardinality(Present(copy)),
                              !.rows = table]
    /\ UNCHANGED <<table, files, export, copy, writes, exports, loads>>

\* ClickHouse refuses a request or does not answer, or the verdict is printed.
LoadEnds ==
    /\ loader.step # "idle" /\ loader' = Away
    /\ UNCHANGED <<table, files, export, copy, writes, exports, loads>>

ExportNext ==
    \/ \E r \in Records, seen \in 0..WriteBound, removed \in BOOLEAN : Write(r, seen, removed)
    \/ WriteRows \/ UnlinkManifest \/ RenameCsv \/ HashCsv \/ RenameManifest
    \/ ExportRaises \/ UndoManifest \/ ExporterKilled
    \/ \E name \in DOMAIN Empty : WriteBack(name)
    \/ PowerLost
    \/ StartLoad \/ CountTable \/ Reconcile \/ LoadEnds
    \/ \E r \in Records : SendRow(r)

ExportSpec == ExportInit /\ [][ExportNext]_exportVars

-----------------------------------------------------------------------------
(* What must hold                                                          *)

\* A manifest beside a CSV vouches for the bytes of that CSV, wherever the
\* export was stopped: before a loss of power and after one.
Vouches(d) == d.manifest # NoFile /\ d.csv # NoFile => d.manifest.of = d.csv
ManifestVouches == Vouches(dir) /\ Vouches(durable)

\* "Does ClickHouse hold exactly what SQLite holds?": a yes means the records
\* it shows are those of the table, though they were only counted.
ReconciledIsSame ==
    loader.step = "said" /\ loader.yes => Present(copy) \subseteq Present(loader.rows)

\* What leaves the archive is what the record beside it says it is: the CSV
\* what its manifest says, and the copy what the reconciliation said.
VouchedIsTrue == ManifestVouches /\ ReconciledIsSame
=============================================================================
