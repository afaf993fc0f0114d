---------------------------- MODULE SignalChain ----------------------------
(***************************************************************************)
(* What each signal source has left, and how it is doing: the walk over a  *)
(* chain of sources, one request at a time, the cool-down and the daily    *)
(* budget kept for each of them, the ledger of runs, and the streaks      *)
(* that are folded from it.                                                *)
(* src/python/jester/signals/limits.py, health.py, run.py                  *)
(***************************************************************************)
EXTENDS Integers, Sequences, SequencesExt, FiniteSetsExt

CONSTANTS NSources,      \* the chain, in order
          RequestBudget,        \* daily_budget of a source
          ChainQueries,  \* terms a run asks
          Retries,       \* RETRIES
          Day,           \* ticks in a UTC day
          Waits,         \* ticks a source may ask for (Retry-After, or the hour)
          TimeBound, LedgerBound, ChainFaultBound

ASSUME SignalChainAssumption ==
    /\ NSources \in Nat \ {0} /\ RequestBudget \in Nat /\ Retries \in Nat \ {0}
    /\ Day \in Nat \ {0} /\ Waits \subseteq Nat \ {0}

Sources == 1..NSources

VARIABLES now,
          limit,     \* signal_source_state: until, the day and its requests
          streak,    \* signals_source_state: the zero and error streaks, last_ok
          ledger,    \* signal_run, newest first
          owing,     \* external: sources with a failed query to recover
          run,       \* what the process is at
          sent, unsaved, \* ghosts, see the property
          chainFaults

chainVars == <<now, limit, streak, ledger, owing, run, sent, unsaved, chainFaults>>
books  == <<limit, streak, ledger, owing>>
ghosts == <<sent, unsaved>>

Idle == [phase |-> "idle", kind |-> "chain", at |-> 1, left |-> 0, attempt |-> 0, cost |-> 0,
         budget |-> 0, new |-> FALSE, rows |-> FALSE, failed |-> 0, stop |-> "", wait |-> 0,
         start |-> 0, prev |-> ""]

\* The streaks of a source no run has been folded for.
Untold == [zero |-> 0, error |-> 0, lastOk |-> -1]

ChainInit ==
    /\ now = 0 /\ owing = {} /\ run = Idle /\ chainFaults = 0
    /\ limit = [s \in Sources |-> [until |-> 0, day |-> 0, requests |-> 0]]
    /\ streak = [s \in Sources |-> Untold]
    /\ ledger = [s \in Sources |-> <<>>]
    /\ sent = [s \in Sources |-> 0] /\ unsaved = [s \in Sources |-> 0]

Today == now \div Day
NextDay == (Today + 1) * Day
Source == run.at

-----------------------------------------------------------------------------
(* The two limits of a source                                              *)

RequestsToday(s) == IF limit[s].day = Today THEN limit[s].requests ELSE 0
BudgetLeftMutant(s) == RequestBudget
BudgetLeft(s) == Max({0, RequestBudget - RequestsToday(s)})
Blocked(s) == limit[s].until > now \/ BudgetLeft(s) = 0

-----------------------------------------------------------------------------
(* The walk                                                                *)

Log(s, row) == ledger' = [ledger EXCEPT ![s] = <<row>> \o @]
LogRow(status, rows, errors, start) ==
    [status |-> status, rows |-> rows, errors |-> errors, start |-> start]
Room == Cardinality(UNION {{s} \X (1..Len(ledger[s])) : s \in Sources}) < LedgerBound

Begin ==
    /\ run.phase = "idle"
    /\ run' = [Idle EXCEPT !.phase = "next"]
    /\ UNCHANGED <<now, books, ghosts, chainFaults>>

\* Why the chain leaves a source: it sat out or hit its limit, had nothing
\* new, or is a fallback that failed. A failed first source ends the walk.
Moves == \/ Source = 1
         \/ run.prev \in {"skipped", "limited"}
         \/ run.prev = "failed" /\ Source > 2
         \/ run.prev = "nothing new"

AskSource(kind, s) ==
    run' = [Idle EXCEPT !.phase = "ask", !.kind = kind, !.at = s, !.left = ChainQueries,
                        !.budget = BudgetLeft(s), !.start = now]

NextSource ==
    /\ run.phase = "next" /\ Source \in Sources /\ Moves
    /\ Room
    /\ IF Blocked(Source)
       THEN /\ Log(Source, LogRow("skipped", 0, 0, now))
            /\ run' = [Idle EXCEPT !.phase = "next", !.at = Source + 1, !.prev = "skipped"]
       ELSE AskSource("chain", Source) /\ UNCHANGED ledger
    /\ UNCHANGED <<now, limit, streak, owing, ghosts, chainFaults>>

WalkEnds ==
    /\ run.phase = "next" /\ (Source \notin Sources \/ ~Moves)
    /\ run' = Idle
    /\ UNCHANGED <<now, books, ghosts, chainFaults>>

\* recover: a pass over the failed queries, or a row that says there are none.
Recover(s) ==
    /\ run.phase = "idle" /\ Room
    /\ IF s \in owing THEN AskSource("recovery", s) /\ UNCHANGED ledger
       ELSE Log(s, LogRow("ok", 0, 0, now)) /\ UNCHANGED run
    /\ UNCHANGED <<now, limit, streak, owing, ghosts, chainFaults>>

-----------------------------------------------------------------------------
(* One request (_get), and what a query comes to                           *)

CanSpend == run.phase = "ask" /\ run.left > 0 /\ run.cost < run.budget
Sends == sent' = [sent EXCEPT ![Source] = @ + 1]

\* The source answers: a page with new records, with known ones, or empty.
Answered(rows, new) ==
    /\ CanSpend /\ (new => rows) /\ Sends
    /\ run' = [run EXCEPT !.cost = @ + 1, !.left = @ - 1, !.attempt = 0,
                          !.rows = @ \/ rows, !.new = @ \/ new]
    /\ UNCHANGED <<now, books, unsaved, chainFaults>>

\* It does not, and is asked again.
AskedAgain ==
    /\ CanSpend /\ run.attempt + 1 < Retries /\ Sends
    /\ run' = [run EXCEPT !.cost = @ + 1, !.attempt = @ + 1]
    /\ UNCHANGED <<now, books, unsaved, chainFaults>>

\* A page that cannot be read, or the last attempt at a broken server: the
\* query fails and the next one is asked.
Raised ==
    /\ CanSpend /\ Sends
    /\ run' = [run EXCEPT !.cost = @ + 1, !.left = @ - 1, !.attempt = 0, !.failed = @ + 1]
    /\ UNCHANGED <<now, books, unsaved, chainFaults>>

\* 429 or 503 after every attempt: this query and those after it fail.
Limited(wait) ==
    /\ CanSpend /\ run.attempt + 1 = Retries /\ Sends
    /\ run' = [run EXCEPT !.cost = @ + 1, !.failed = @ + run.left, !.left = 0,
                          !.stop = "429", !.wait = wait]
    /\ UNCHANGED <<now, books, unsaved, chainFaults>>

BudgetSpent ==
    /\ run.phase = "ask" /\ run.left > 0 /\ run.cost >= run.budget
    /\ run' = [run EXCEPT !.failed = @ + run.left, !.left = 0, !.stop = "budget"]
    /\ UNCHANGED <<now, books, ghosts, chainFaults>>

-----------------------------------------------------------------------------
(* The end of a run: one commit after another                              *)

RecordRequests ==
    /\ run.phase = "ask" /\ run.left = 0
    /\ limit' = IF run.cost = 0 THEN limit
                ELSE [limit EXCEPT ![Source].requests = RequestsToday(Source) + run.cost,
                                   ![Source].day = Today]
    /\ run' = [run EXCEPT !.phase = "mark"]
    /\ UNCHANGED <<now, streak, ledger, owing, ghosts, chainFaults>>

MarkLimited ==
    /\ run.phase = "mark"
    /\ limit' = IF run.stop = "" THEN limit
                ELSE [limit EXCEPT ![Source].until =
                        IF run.stop = "budget" THEN NextDay ELSE now + run.wait]
    /\ run' = [run EXCEPT !.phase = "save"]
    /\ UNCHANGED <<now, streak, ledger, owing, ghosts, chainFaults>>

\* A failed query leaves a record of its own, and is collected with the rest.
Collected == run.failed + (IF run.rows THEN 1 ELSE 0)
Status == IF run.stop # "" THEN "limited" ELSE IF run.failed = 0 THEN "ok"
          ELSE IF run.rows THEN "partial" ELSE "failed"

SaveRun ==
    /\ run.phase = "save"
    /\ Log(Source, LogRow(Status, Collected, run.failed, run.start))
    /\ owing' = IF run.failed > 0 THEN owing \cup {Source}
                ELSE IF run.kind = "recovery" THEN owing \ {Source} ELSE owing
    /\ run' = [run EXCEPT !.phase = "fold"]
    /\ UNCHANGED <<now, limit, streak, ghosts, chainFaults>>

\* record_source_state: a limited run is read by what it got.
Folded(s) ==
    IF Status = "limited" /\ Collected = 0 THEN s
    ELSE IF Status # "limited" /\ run.failed > 0 THEN [s EXCEPT !.error = @ + 1, !.zero = 0]
    ELSE IF Collected = 0 THEN [s EXCEPT !.zero = @ + 1, !.error = 0]
    ELSE [s EXCEPT !.zero = 0, !.error = 0, !.lastOk = now]

RecordSourceState ==
    /\ run.phase = "fold"
    /\ streak' = [streak EXCEPT ![Source] = Folded(@)]
    /\ run' = IF run.kind = "recovery" THEN Idle
              ELSE [Idle EXCEPT !.phase = "next", !.at = Source + 1,
                     !.prev = IF Status \in {"limited", "failed"} THEN Status
                              ELSE IF run.new THEN "news" ELSE "nothing new"]
    /\ UNCHANGED <<now, limit, ledger, owing, ghosts, chainFaults>>

\* The process is killed. What it asked and had not noted is not noted.
Killed ==
    /\ run.phase # "idle" /\ chainFaults < ChainFaultBound
    /\ chainFaults' = chainFaults + 1
    /\ unsaved' = IF run.phase = "ask" THEN [unsaved EXCEPT ![Source] = @ + run.cost] ELSE unsaved
    /\ run' = Idle
    /\ UNCHANGED <<now, books, sent>>

Tick ==
    /\ now < TimeBound /\ now' = now + 1
    /\ IF now' \div Day = Today THEN UNCHANGED <<sent, unsaved>>
       ELSE sent' = [s \in Sources |-> 0] /\ unsaved' = [s \in Sources |-> 0]
    /\ UNCHANGED <<books, run, chainFaults>>

ChainNext ==
    \/ Begin \/ NextSource \/ WalkEnds
    \/ \E s \in Sources : Recover(s)
    \/ \E rows, new \in BOOLEAN : Answered(rows, new)
    \/ AskedAgain \/ Raised \/ BudgetSpent
    \/ \E wait \in Waits : Limited(wait)
    \/ RecordRequests \/ MarkLimited \/ SaveRun \/ RecordSourceState
    \/ Killed \/ Tick

ChainSpec == ChainInit /\ [][ChainNext]_chainVars

-----------------------------------------------------------------------------
(* What must hold                                                          *)

\* The requests a source was sent in a UTC day stay within its budget, apart
\* from those of a run that was killed before it noted them; a run that goes
\* on past midnight is no exception (budget_left, record_requests).
BudgetKept == \A s \in Sources : sent[s] <= RequestBudget + unsaved[s]
=============================================================================
