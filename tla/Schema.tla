------------------------------- MODULE Schema -------------------------------
(***************************************************************************)
(* Opening the archive: a process reshapes the tables an older build wrote *)
(* one statement at a time, each committed on its own, before it creates,  *)
(* completes and stamps the schema of its own build.                       *)
(* src/python/jester/store.py, console/api.py                              *)
(***************************************************************************)
EXTENDS Naturals, FiniteSets

CONSTANTS Openers,      \* processes that open the archive
          Tables, DerivedTables,
          Builds,       \* builds deployed one after the other: 1..Builds
          Declares,     \* per build and table, the columns of BASE_SCHEMA
          AddColumns,   \* per build and table, those that ALTER supplies
          SchemaVersion,\* per build
          Together,     \* whether processes may have the archive open at once
          RowBound, OpenBound, OpenerKills

ASSUME SchemaAssumption ==
    /\ "runs" \in Tables /\ DerivedTables \subseteq Tables /\ Together \in BOOLEAN
    /\ {Builds, RowBound, OpenBound, OpenerKills} \subseteq Nat /\ Builds > 0
    /\ SchemaVersion \in [1..Builds -> Nat \ {0}]

VARIABLES storage,      \* per table and per <table>_legacy: whether it is there, its columns and rows
          version,   \* schema_version, 0 before it is stamped
          opener,    \* per process: how far its opening is, its build, the table it is at
          deployed, tally,
          written    \* ghost: the rows ever written

schemaVars == <<storage, version, opener, deployed, tally, written>>

NoTable == [there |-> FALSE, columns |-> {}, rows |-> {}]
Stores == {"live", "legacy"}
NoOpening == [step |-> "closed", build |-> 0, left |-> {}, table |-> "none"]

SchemaInit ==
    /\ storage = [k \in Stores |-> [t \in Tables |-> NoTable]] /\ version = 0
    /\ opener = [o \in Openers |-> NoOpening] /\ deployed = 1
    /\ tally = [opened |-> 0, row |-> 0, kill |-> 0] /\ written = {}

At(o, step) == opener[o].step = step
To(o, step) == opener' = [opener EXCEPT ![o].step = step]
SchemaError(o) == opener' = [opener EXCEPT ![o] = NoOpening]
Live(t) == storage["live"][t]
Legacy(t) == storage["legacy"][t]
Becomes(store, t, table) == storage' = [storage EXCEPT ![store][t] = table]
Untouched == UNCHANGED <<version, deployed, tally, written>>

(* A new build is installed; what runs keeps its own. *)
Deploy == /\ deployed < Builds /\ deployed' = deployed + 1
          /\ UNCHANGED <<storage, version, opener, tally, written>>

(* A command migrates whatever it finds; the console does so only when the runs
   table is missing, and otherwise leaves the archive as it is.               *)
HasSchema == Live("runs").there
OpenDb(o, migrate) ==
    /\ At(o, "closed") /\ tally.opened < OpenBound
    /\ Together \/ \A p \in Openers : At(p, "closed")
    /\ tally' = [tally EXCEPT !.opened = @ + 1]
    /\ opener' = [opener EXCEPT ![o] =
           [step |-> IF migrate \/ ~HasSchema THEN "reconcile" ELSE "open",
            build |-> deployed, left |-> Tables, table |-> "none"]]
    /\ UNCHANGED <<storage, version, deployed, written>>

-----------------------------------------------------------------------------
(* reconcile_schema, a table at a time                                     *)

Missing(build, t, have) == Declares[build][t] \ (have \cup AddColumns[build][t])
ReadShape(o, t) ==
    /\ At(o, "reconcile") /\ t \in opener[o].left
    /\ opener' = [opener EXCEPT ![o].left = @ \ {t}, ![o].table = t,
           ![o].step = IF Live(t).there /\ Missing(opener[o].build, t, Live(t).columns) # {}
                       THEN "count" ELSE "reconcile"]
    /\ UNCHANGED storage /\ Untouched

ExpendableMutant(t) == TRUE

(* Only what is empty, or derived, may go. *)
Expendable(t) == Live(t).rows = {} \/ t \in DerivedTables
CountRows(o) ==
    /\ At(o, "count")
    /\ IF ~Live(opener[o].table).there THEN SchemaError(o)
       ELSE To(o, IF Expendable(opener[o].table) THEN "drop" ELSE "clear")
    /\ UNCHANGED storage /\ Untouched

DropTable(o) ==
    /\ At(o, "drop")
    /\ IF Live(opener[o].table).there
       THEN Becomes("live", opener[o].table, NoTable) /\ To(o, "reconcile")
       ELSE SchemaError(o) /\ UNCHANGED storage
    /\ Untouched

(* DROP TABLE IF EXISTS <table>_legacy, then the table takes that name. *)
DropLegacy(o) ==
    /\ At(o, "clear") /\ To(o, "rename")
    /\ Becomes("legacy", opener[o].table, NoTable) /\ Untouched
RenameTable(o) ==
    /\ At(o, "rename")
    /\ LET t == opener[o].table
       IN  IF Live(t).there /\ ~Legacy(t).there
           THEN /\ storage' = [storage EXCEPT !["legacy"][t] = Live(t), !["live"][t] = NoTable]
                /\ To(o, "reconcile")
           ELSE SchemaError(o) /\ UNCHANGED storage
    /\ Untouched

(* Copies that an earlier build kept of derived tables are swept. *)
SweepDerived(o) ==
    /\ At(o, "reconcile") /\ opener[o].left = {}
    /\ opener' = [opener EXCEPT ![o].step = "create", ![o].left = Tables]
    /\ storage' = [storage EXCEPT !["legacy"] =
                   [t \in Tables |-> IF t \in DerivedTables THEN NoTable ELSE @[t]]]
    /\ Untouched

-----------------------------------------------------------------------------
(* open_db, on from there                                                  *)

(* CREATE TABLE IF NOT EXISTS, then the columns that can be added; an ALTER
   that fails is taken to be there already.                                  *)
CreateTable(o, t) ==
    /\ At(o, "create") /\ t \in opener[o].left
    /\ LET own == opener[o].build
           base == IF Live(t).there THEN Live(t)
                   ELSE [there |-> TRUE, columns |-> Declares[own][t], rows |-> {}]
       IN  Becomes("live", t, [base EXCEPT !.columns = @ \cup AddColumns[own][t]])
    /\ opener' = [opener EXCEPT ![o].left = @ \ {t}] /\ Untouched

(* The version is compared last, when the tables have been reshaped. *)
StampVersion(o) ==
    /\ At(o, "create") /\ opener[o].left = {}
    /\ LET mine == SchemaVersion[opener[o].build]
       IN  IF version \in {0, mine} THEN version' = mine /\ To(o, "open")
           ELSE SchemaError(o) /\ UNCHANGED version
    /\ UNCHANGED <<storage, deployed, tally, written>>

(* The open archive is written to by statements its shape has the columns for. *)
InsertRow(o, t) ==
    /\ At(o, "open") /\ tally.row < RowBound
    /\ Live(t).there /\ Declares[opener[o].build][t] \subseteq Live(t).columns
    /\ tally' = [tally EXCEPT !.row = @ + 1] /\ written' = written \cup {<<t, tally'.row>>}
    /\ storage' = [storage EXCEPT !["live"][t].rows = @ \cup {tally'.row}]
    /\ UNCHANGED <<version, opener, deployed>>

CloseDb(o) == At(o, "open") /\ SchemaError(o) /\ UNCHANGED storage /\ Untouched
OpenerKilled(o) ==
    /\ ~At(o, "closed") /\ tally.kill < OpenerKills
    /\ tally' = [tally EXCEPT !.kill = @ + 1] /\ SchemaError(o)
    /\ UNCHANGED <<storage, version, deployed, written>>

SchemaNext ==
    \/ Deploy
    \/ \E o \in Openers :
          \/ \E migrate \in BOOLEAN : OpenDb(o, migrate)
          \/ \E t \in Tables : ReadShape(o, t) \/ CreateTable(o, t) \/ InsertRow(o, t)
          \/ CountRows(o) \/ DropTable(o) \/ DropLegacy(o) \/ RenameTable(o)
          \/ SweepDerived(o) \/ StampVersion(o) \/ CloseDb(o) \/ OpenerKilled(o)

SchemaSpec == SchemaInit /\ [][SchemaNext]_schemaVars

-----------------------------------------------------------------------------
(* What must hold                                                          *)

(* "Nothing is ever dropped with data in it": wherever an opening is killed,
   a row that was written to a table that is not derived is in the table or in
   its legacy copy.                                                            *)
RowsKept ==
    \A w \in written :
        w[1] \in DerivedTables \/ \E k \in Stores : w[2] \in storage[k][w[1]].rows
=============================================================================
