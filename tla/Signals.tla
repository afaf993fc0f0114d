------------------------------ MODULE Signals ------------------------------
(***************************************************************************)
(* The archive of problem signals of one source: the records, the rows     *)
(* that replaced ones are kept in, the rows of failed queries, collectors  *)
(* (`jester signals run` and `recover`), and the commands of an operator   *)
(* (outcome, revisions --restore, reclassify --apply, retention).          *)
(* src/python/jester/signals/__init__.py, signals/run.py                   *)
(***************************************************************************)
EXTENDS Naturals, FiniteSets

CONSTANTS Items,         \* what the source publishes
          Texts,         \* what an item may say
          NQueries,      \* search terms, asked in order
          Matches(_),    \* the items a query finds
          Collectors,
          Outcomes,      \* what a person may write beside a record
          CloseFloor,    \* CLOSE_FLOOR
          OperatorDuring,\* collector stages in which a restore may come
          None,
          RulesBound,                          \* rule sets there are
          EventBound, OperationBound, FaultBound, PassBound

Queries == 1..NQueries
\* A row of problem_signal, and what a collector read of one.
SignalRow == [text : Texts, query : Queries, rules : Nat, revisions : Nat, removed : BOOLEAN,
              outcome : Outcomes \cup {None}, unseen : BOOLEAN]
ReadRow == [item : Items, row : SignalRow \cup {None}]

ASSUME SignalsAssumption ==
    /\ NQueries \in Nat /\ CloseFloor \in Nat
    /\ \A q \in 1..NQueries : Matches(q) \subseteq Items
    /\ None \notin Texts \cup SignalRow \cup ReadRow

VARIABLES site,     \* external: what each item says, None when it is gone
          aged,     \* external: items created before the `since` window
          rules,    \* the rule set that scores a text
          record,   \* problem_signal, None for an item without a row
          revision, \* problem_signal_revision: the rows that were replaced
          failure,  \* the failure row of a query: "none", "error" or "ok"
          outage,   \* queries whose failure row is past the retention window
          step,     \* where a collector is
          kind,     \* "run" or "recovery"
          asked,    \* the queries of its pass
          unasked,  \* queries it has not asked
          found,    \* what each query returned: a text for each item or None
          whole,    \* queries read to their end
          failed,   \* queries that raised or were not asked
          old,      \* the row `upsert` read before its transaction opened
          offSince, shown, \* ghosts, see the properties
          events, operations, faults, passes

archive == <<record, revision, failure, outage>>
source  == <<site, aged, rules>>
pass    == <<step, kind, asked, unasked, found, whole, failed, old>>
sigBounds == <<events, operations, faults, passes>>
signalVars == <<archive, source, pass, offSince, shown, sigBounds>>

\* A pass holds what it read in memory; nothing of it outlives the pass.
NothingFound == [q \in Queries |-> [i \in Items |-> None]]

\* The bounds: what the world, the operator and the faults may do in a behaviour.
Event     == events < EventBound /\ events' = events + 1 /\ UNCHANGED <<operations, faults, passes>>
Operation == operations < OperationBound /\ operations' = operations + 1 /\ UNCHANGED <<events, faults, passes>>
Fault     == faults < FaultBound /\ faults' = faults + 1 /\ UNCHANGED <<events, operations, passes>>
Pass      == passes < PassBound /\ passes' = passes + 1 /\ UNCHANGED <<events, operations, faults>>

Ends(c) ==
    /\ step' = [step EXCEPT ![c] = "idle"]
    /\ kind' = [kind EXCEPT ![c] = "run"]
    /\ asked' = [asked EXCEPT ![c] = {}] /\ unasked' = [unasked EXCEPT ![c] = {}]
    /\ found' = [found EXCEPT ![c] = NothingFound]
    /\ whole' = [whole EXCEPT ![c] = {}] /\ failed' = [failed EXCEPT ![c] = {}]
    /\ old' = [old EXCEPT ![c] = None]

SignalsInit ==
    /\ site \in [Items -> Texts \cup {None}] /\ aged = {} /\ rules = 1
    /\ record = [i \in Items |-> None] /\ revision = [i \in Items |-> {}]
    /\ failure = [q \in Queries |-> "none"] /\ outage = {}
    /\ step = [c \in Collectors |-> "idle"] /\ kind = [c \in Collectors |-> "run"]
    /\ asked = [c \in Collectors |-> {}] /\ unasked = [c \in Collectors |-> {}]
    /\ found = [c \in Collectors |-> NothingFound]
    /\ whole = [c \in Collectors |-> {}] /\ failed = [c \in Collectors |-> {}]
    /\ old = [c \in Collectors |-> None]
    /\ offSince = {i \in Items : site[i] = None} /\ shown = [i \in Items |-> {}]
    /\ events = 0 /\ operations = 0 /\ faults = 0 /\ passes = 0

-----------------------------------------------------------------------------
(* The source and the clock                                                *)

\* An item appears, says something else, or disappears.
Publish(i, t) ==
    /\ Event /\ t # site[i] /\ i \notin aged
    /\ site' = [site EXCEPT ![i] = t]
    /\ offSince' = IF t = None THEN offSince \cup {i} ELSE offSince
    /\ UNCHANGED <<archive, aged, rules, pass, shown>>

\* An item leaves the `since` window.
Outgrow(i) ==
    /\ Event /\ site[i] # None /\ i \notin aged
    /\ aged' = aged \cup {i}
    /\ UNCHANGED <<archive, site, rules, pass, offSince, shown>>

\* The retention window passes for every row there is.
Unwatched ==
    /\ Event
    /\ record' = [i \in Items |-> IF record[i] = None THEN None
                                  ELSE [record[i] EXCEPT !.unseen = TRUE]]
    /\ outage' = {q \in Queries : failure[q] # "none"}
    /\ <<record', outage'>> # <<record, outage>>
    /\ UNCHANGED <<revision, failure, source, pass, offSince, shown>>

EditRules ==
    /\ Operation /\ rules < RulesBound
    /\ rules' = rules + 1
    /\ UNCHANGED <<archive, site, aged, pass, offSince, shown>>

-----------------------------------------------------------------------------
(* A collector                                                             *)

StartPass(c, k) ==
    LET queries == IF k = "run" THEN Queries ELSE {q \in Queries : failure[q] = "error"} IN
    /\ Pass /\ step[c] = "idle" /\ queries # {}
    /\ step' = [step EXCEPT ![c] = "ask"]
    /\ kind' = [kind EXCEPT ![c] = k]
    /\ asked' = [asked EXCEPT ![c] = queries]
    /\ unasked' = [unasked EXCEPT ![c] = queries]
    /\ UNCHANGED <<archive, source, found, whole, failed, old, offSince, shown>>

\* What the source returns for a query: what it has, inside the window.
Listed(q) == {i \in Matches(q) : site[i] # None /\ i \notin aged}
Sighting(I) == [i \in Items |-> IF i \in I THEN site[i] ELSE None]
Asks(c, q) == step[c] = "ask" /\ q \in unasked[c] /\ \A p \in unasked[c] : q <= p

\* A query is read to its end, or cut at its limit.
Search(c, q, I) ==
    /\ Asks(c, q) /\ I \subseteq Listed(q)
    /\ found' = [found EXCEPT ![c][q] = Sighting(I)]
    /\ whole' = [whole EXCEPT ![c] = IF I = Listed(q) THEN @ \cup {q} ELSE @]
    /\ unasked' = [unasked EXCEPT ![c] = @ \ {q}]
    /\ UNCHANGED <<archive, source, step, kind, asked, failed, old, offSince, shown, sigBounds>>

\* A query raises: what it returned before is kept; on a limit the queries
\* after it are not asked and fail with it.
SearchFails(c, q, I, limit) ==
    /\ Fault /\ Asks(c, q) /\ I \subseteq Listed(q)
    /\ found' = [found EXCEPT ![c][q] = Sighting(I)]
    /\ failed' = [failed EXCEPT ![c] = @ \cup (IF limit THEN unasked[c] ELSE {q})]
    /\ unasked' = [unasked EXCEPT ![c] = IF limit THEN {} ELSE @ \ {q}]
    /\ UNCHANGED <<archive, source, step, kind, asked, whole, old, offSince, shown>>

SeenBy(c, q) == {i \in Items : found[c][q][i] # None}
Seen(c) == UNION {SeenBy(c, q) : q \in Queries}

\* upsert reads its first row before its transaction opens: the row may have
\* changed when it is replaced.
Peek(c) ==
    /\ step[c] = "ask" /\ unasked[c] = {}
    /\ step' = [step EXCEPT ![c] = "write"]
    /\ IF Seen(c) = {} THEN old' = old
       ELSE \E q \in Queries : \E i \in SeenBy(c, q) :
              /\ \A p \in Queries : p < q => SeenBy(c, p) = {}
              /\ old' = [old EXCEPT ![c] = [item |-> i, row |-> record[i]]]
    /\ UNCHANGED <<archive, source, kind, asked, unasked, found, whole, failed,
                   offSince, shown, sigBounds>>

\* One sighting of an item: a row is inserted, or refreshed and, when what it
\* says or how it scores has changed, the row it replaces is kept. `was` is
\* the row that was read; s is the row there is and the rows kept.
Revision(row) == [text |-> row.text, rules |-> row.rules, number |-> row.revisions]
FreshRow(q, t) == [text |-> t, query |-> q, rules |-> rules, revisions |-> 0,
                 removed |-> FALSE, outcome |-> None, unseen |-> FALSE]
Refreshed(was, s, q, t) ==
    LET changed == was.text # t \/ was.rules # rules IN
    [row |-> [s.row EXCEPT !.text = t, !.query = q, !.rules = rules, !.removed = FALSE,
                !.unseen = FALSE, !.revisions = was.revisions + IF changed THEN 1 ELSE 0],
     kept |-> IF changed THEN s.kept \cup {Revision(was)} ELSE s.kept]

\* The sightings of an item in the order its queries were asked; the first
\* one is compared with the row that was read first.
AfterPass(c, i) ==
    LET stale == old[c].item = i
        after[q \in 0..NQueries] ==
            IF q = 0 THEN [row |-> record[i], kept |-> revision[i]]
            ELSE LET s == after[q - 1]
                     was == IF stale /\ \A p \in 1..(q - 1) : i \notin SeenBy(c, p)
                            THEN old[c].row ELSE s.row
                 IN IF i \notin SeenBy(c, q) THEN s
                    ELSE IF was = None THEN [s EXCEPT !.row = FreshRow(q, found[c][q][i])]
                    ELSE Refreshed(was, s, q, found[c][q][i])
    IN after[NQueries]

\* A row that appeared since it was read makes the insert fail, and the
\* transaction with it; one that is gone makes the update a no-op.
Clash(c) == step[c] = "write" /\ old[c] # None /\ old[c].row = None /\ record[old[c].item] # None
Vanished(c) == IF old[c] # None /\ old[c].row # None /\ record[old[c].item] = None
               THEN {old[c].item} ELSE {}

Upsert(c) ==
    /\ step[c] = "write" /\ ~Clash(c)
    /\ LET I == Seen(c) \ Vanished(c) IN
       /\ record' = [i \in Items |-> IF i \in I THEN AfterPass(c, i).row ELSE record[i]]
       /\ revision' = [i \in Items |-> IF i \in I THEN AfterPass(c, i).kept ELSE revision[i]]
       /\ shown' = [i \in Items |-> IF i \in I
                     THEN shown[i] \cup ({found[c][q][i] : q \in Queries} \ {None}) ELSE shown[i]]
       /\ offSince' = (offSince \ I) \cup {i \in I : site[i] = None}
    /\ failure' = [q \in Queries |-> IF q \in failed[c] THEN "error" ELSE failure[q]]
    /\ outage' = outage \ failed[c]
    /\ step' = [step EXCEPT ![c] = "close"]
    /\ old' = [old EXCEPT ![c] = None]
    /\ UNCHANGED <<source, kind, asked, unasked, found, whole, failed, sigBounds>>

CompleteMutant(c) == {q \in Queries : SeenBy(c, q) # {}}
\* mark_closed: rows of the queries read to their end with a result, created
\* inside the window, and not seen -- unless too many of them are missing.
Complete(c) == {q \in whole[c] : SeenBy(c, q) # {}}
Judged(c) == {i \in Items \ aged : /\ record[i] # None /\ ~record[i].removed
                                   /\ record[i].query \in Complete(c)}
Missing(c) == {i \in Judged(c) : \A q \in Complete(c) : i \notin SeenBy(c, q)}
TooMany(c) == /\ Cardinality(Missing(c)) > CloseFloor
              /\ 2 * Cardinality(Missing(c)) > Cardinality(Judged(c))

MarkClosed(c) ==
    /\ step[c] = "close"
    /\ LET gone == IF TooMany(c) THEN {} ELSE Missing(c) IN
       record' = [i \in Items |-> IF i \in gone THEN [record[i] EXCEPT !.removed = TRUE]
                                  ELSE record[i]]
    /\ IF kind[c] = "run" THEN Ends(c)
       ELSE /\ step' = [step EXCEPT ![c] = "clear"]
            /\ UNCHANGED <<kind, asked, unasked, found, whole, failed, old>>
    /\ UNCHANGED <<revision, failure, outage, source, offSince, shown, sigBounds>>

\* recover: the queries this pass asked and that did not fail are marked.
ClearFailures(c) ==
    /\ step[c] = "clear"
    /\ failure' = [q \in Queries |-> IF q \in asked[c] \ failed[c] /\ failure[q] # "none"
                                     THEN "ok" ELSE failure[q]]
    /\ Ends(c)
    /\ UNCHANGED <<record, revision, outage, source, offSince, shown, sigBounds>>

\* The process ends between two commits: a kill, a locked database, a clash.
CollectorDies(c) ==
    /\ step[c] # "idle"
    /\ IF Clash(c) THEN UNCHANGED sigBounds ELSE Fault
    /\ Ends(c)
    /\ UNCHANGED <<archive, source, offSince, shown>>

-----------------------------------------------------------------------------
(* The operator                                                            *)

SetOutcome(i, o) ==
    /\ Operation /\ record[i] # None /\ record[i].outcome # o
    /\ record' = [record EXCEPT ![i].outcome = o]
    /\ UNCHANGED <<revision, failure, outage, source, pass, offSince, shown>>

\* restore_revision: the row there is is kept first when it differs.
Restore(i, snap) ==
    /\ Operation /\ \A c \in Collectors : step[c] \in OperatorDuring
    /\ record[i] # None /\ snap \in revision[i]
    /\ revision' = [revision EXCEPT ![i] = IF record[i].text # snap.text \/ record[i].rules # snap.rules
                                           THEN @ \cup {Revision(record[i])} ELSE @]
    /\ record' = [record EXCEPT ![i].text = snap.text, ![i].rules = snap.rules, ![i].revisions = @ + 1]
    /\ UNCHANGED <<failure, outage, source, pass, offSince, shown>>

\* reclassify --apply: every row is scored again, and no row is kept.
Reclassify ==
    /\ record' = [i \in Items |-> IF record[i] = None THEN None ELSE [record[i] EXCEPT !.rules = rules]]
    /\ record' # record /\ Operation
    /\ UNCHANGED <<revision, failure, outage, source, pass, offSince, shown>>

\* retention: rows not seen for the window go, and what is kept about them.
Retention ==
    LET gone == {i \in Items : record[i] # None /\ record[i].unseen} IN
    /\ gone # {} \/ outage # {}
    /\ record' = [i \in Items |-> IF i \in gone THEN None ELSE record[i]]
    /\ revision' = [i \in Items |-> IF i \in gone THEN {} ELSE revision[i]]
    /\ failure' = [q \in Queries |-> IF q \in outage THEN "none" ELSE failure[q]]
    /\ outage' = {}
    /\ shown' = [i \in Items |-> IF i \in gone THEN {} ELSE shown[i]]
    /\ UNCHANGED <<source, pass, offSince, sigBounds>>

SignalsNext ==
    \/ \E i \in Items : \E t \in Texts \cup {None} : Publish(i, t)
    \/ \E i \in Items : Outgrow(i)
    \/ Unwatched
    \/ EditRules
    \/ \E c \in Collectors : \E k \in {"run", "recovery"} : StartPass(c, k)
    \/ \E c \in Collectors, q \in Queries : \E I \in SUBSET Items : Search(c, q, I)
    \/ \E c \in Collectors, q \in Queries : \E I \in SUBSET Items : \E limit \in BOOLEAN :
          SearchFails(c, q, I, limit)
    \/ \E c \in Collectors : Peek(c)
    \/ \E c \in Collectors : Upsert(c)
    \/ \E c \in Collectors : MarkClosed(c)
    \/ \E c \in Collectors : ClearFailures(c)
    \/ \E c \in Collectors : CollectorDies(c)
    \/ \E i \in Items : \E o \in Outcomes \cup {None} : SetOutcome(i, o)
    \/ \E i \in Items : \E snap \in revision[i] : Restore(i, snap)
    \/ Reclassify
    \/ Retention

SignalsSpec == SignalsInit /\ [][SignalsNext]_signalVars

-----------------------------------------------------------------------------
(* What must hold                                                          *)

\* What a record said is not lost while the record is in the archive: every
\* text it showed is the one it shows or a row that was kept, each under a
\* number of its own; and nothing is kept of a record that retention took
\* (_snapshot_row, restore_revision, retention).
HistoryKept ==
    \A i \in Items :
        IF record[i] = None THEN revision[i] = {}
        ELSE /\ shown[i] \subseteq {record[i].text} \cup {s.text : s \in revision[i]}
             /\ \A s \in revision[i] : s.number < record[i].revisions
             /\ \A s, r \in revision[i] : s.number = r.number => s = r

\* A listing marked gone was off its source at some moment since the last
\* sighting that was stored (mark_closed: "only complete reads decide").
ClosedWasGone ==
    \A i \in Items : record[i] # None /\ record[i].removed => i \in offSince

\* The archive tells the truth about a listing, of before and of now.
RecordsAreTrue == HistoryKept /\ ClosedWasGone

=============================================================================
