------------------------------- MODULE Budget -------------------------------
(***************************************************************************)
(* The daily budget of the competitor searches, spent by several processes *)
(* over one row of SQLite, and the check it pays for.                      *)
(* src/python/jester/quota.py, competitors.py                              *)
(***************************************************************************)
EXTENDS Naturals, FiniteSets, FiniteSetTheorems, TLAPS

CONSTANTS Checkers,     \* processes that score ideas
          DailyBudget,  \* critic_web_daily_budget
          Days,         \* Pacific days
          CheckBound

ASSUME BudgetAssumption == DailyBudget \in Nat /\ Days \in Nat \ {0} /\ IsFiniteSet(Checkers)

VARIABLES day,
          quota,    \* quota.used of a day, 0 while the day has no row
          check,    \* where a process is with an idea, and the day it paid on
          searched, \* ghost: searches sent, by the day they were paid on
          verdicts, \* verdicts that were checked, by the day they were paid on, and the others
          checks

budgetVars == <<day, quota, check, searched, verdicts, checks>>

NoCheck == [step |-> "idle", paid |-> 0]

BudgetInit ==
    /\ day = 1 /\ checks = 0
    /\ quota = [d \in 1..Days |-> 0]
    /\ searched = [d \in 1..Days |-> 0]
    /\ check = [p \in Checkers |-> NoCheck]
    /\ verdicts = [checked |-> [d \in 1..Days |-> 0], unchecked |-> 0]

FitsMutant(d) == quota[d] <= DailyBudget
\* One statement decides: the row is inserted, or its total moved, only when
\* what is spent still fits.
Fits(d) == IF quota[d] = 0 THEN 1 <= DailyBudget ELSE quota[d] + 1 <= DailyBudget
Spend(p) ==
    /\ check[p].step = "idle" /\ checks < CheckBound
    /\ checks' = checks + 1
    /\ IF Fits(day)
       THEN /\ quota' = [quota EXCEPT ![day] = @ + 1]
            /\ check' = [check EXCEPT ![p] = [step |-> "paid", paid |-> day]]
            /\ UNCHANGED verdicts
       ELSE /\ verdicts' = [verdicts EXCEPT !.unchecked = @ + 1]
            /\ UNCHANGED <<quota, check>>
    /\ UNCHANGED <<day, searched>>

\* The process waits its turn, and searches; a search that fails leaves the
\* idea unchecked, and what it cost is spent.
Search(p, found) ==
    /\ check[p].step = "paid"
    /\ searched' = [searched EXCEPT ![check[p].paid] = @ + 1]
    /\ verdicts' = IF found THEN [verdicts EXCEPT !.checked[check[p].paid] = @ + 1]
                   ELSE [verdicts EXCEPT !.unchecked = @ + 1]
    /\ check' = [check EXCEPT ![p] = NoCheck]
    /\ UNCHANGED <<day, quota, checks>>

CheckerKilled(p) ==
    /\ check[p].step = "paid"
    /\ check' = [check EXCEPT ![p] = NoCheck]
    /\ UNCHANGED <<day, quota, searched, verdicts, checks>>

Midnight ==
    /\ day < Days /\ day' = day + 1
    /\ UNCHANGED <<quota, check, searched, verdicts, checks>>

BudgetNext ==
    \/ \E p \in Checkers : Spend(p)
    \/ \E p \in Checkers, found \in BOOLEAN : Search(p, found)
    \/ \E p \in Checkers : CheckerKilled(p)
    \/ Midnight

BudgetSpec == BudgetInit /\ [][BudgetNext]_budgetVars

\* The processes that have paid on a day, and not searched.
Waiting(d) == {p \in Checkers : check[p] = [step |-> "paid", paid |-> d]}
\* The searches that were sent, and those that processes have paid for and
\* not sent, never pass the budget of the day they were paid on, whichever
\* process spent it; and nothing is checked without a search that was paid.
SearchesPaid ==
    \A d \in 1..Days :
        /\ searched[d] + Cardinality(Waiting(d)) <= quota[d] /\ quota[d] <= DailyBudget
        /\ verdicts.checked[d] <= searched[d]

-----------------------------------------------------------------------------
(* It holds for any number of processes and any budget. *)
BudgetTypes ==
    /\ day \in 1..Days
    /\ quota \in [1..Days -> Nat] /\ searched \in [1..Days -> Nat]
    /\ check \in [Checkers -> [step : {"idle", "paid"}, paid : 0..Days]]
    /\ verdicts \in [checked : [1..Days -> Nat], unchecked : Nat]
PaidOnADay == \A p \in Checkers : check[p].step = "paid" => check[p].paid \in 1..Days
BudgetInv == BudgetTypes /\ PaidOnADay /\ SearchesPaid

LEMMA WaitingIsFinite == \A d : IsFiniteSet(Waiting(d)) /\ Cardinality(Waiting(d)) \in Nat
  BY BudgetAssumption, FS_Subset, FS_CardinalityType DEF BudgetAssumption, Waiting

(* A process that stops waiting for a day is one the fewer. *)
LEMMA OneLessWaits ==
    ASSUME BudgetTypes, PaidOnADay, NEW p \in Checkers, check[p].step = "paid",
           check' = [check EXCEPT ![p] = NoCheck]
    PROVE  \A d \in 1..Days : Cardinality(Waiting(d)') =
               IF d = check[p].paid THEN Cardinality(Waiting(d)) - 1 ELSE Cardinality(Waiting(d))
<1>1. check[p] = [step |-> "paid", paid |-> check[p].paid] /\ check'[p] = NoCheck
  BY DEF BudgetTypes
<1>2. \A d : NoCheck # [step |-> "paid", paid |-> d]
  BY DEF NoCheck
<1>3. ASSUME NEW d \in 1..Days
      PROVE  Waiting(d)' = Waiting(d) \ {p} /\ (p \in Waiting(d) <=> d = check[p].paid)
  <2>1. \A q \in Checkers \ {p} : check'[q] = check[q]
    BY DEF BudgetTypes
  <2>2. p \notin Waiting(d)'
    BY <1>1, <1>2 DEF Waiting
  <2>3. Waiting(d)' = Waiting(d) \ {p}
    BY <2>1, <2>2 DEF Waiting
  <2>4. p \in Waiting(d) <=> d = check[p].paid
    BY <1>1 DEF Waiting
  <2> QED
    BY <2>3, <2>4
<1> QED
  BY <1>3, WaitingIsFinite, FS_RemoveElement

LEMMA BudgetInvStep ==
    ASSUME BudgetInv, [BudgetNext]_budgetVars
    PROVE  BudgetInv'
<1> USE DEF BudgetInv
<1>1. ASSUME NEW p \in Checkers, Spend(p)
      PROVE  BudgetInv'
  <2>1. CASE Fits(day)
    <3> DEFINE paidNow == [step |-> "paid", paid |-> day]
    <3>1. /\ quota' = [quota EXCEPT ![day] = @ + 1] /\ check' = [check EXCEPT ![p] = paidNow]
          /\ check[p].step = "idle" /\ UNCHANGED <<day, searched, verdicts>>
      BY <1>1, <2>1 DEF Spend
    <3>2. quota[day] + 1 <= DailyBudget
      BY <2>1, BudgetAssumption DEF Fits, BudgetTypes, BudgetAssumption
    <3>3. BudgetTypes' /\ PaidOnADay'
      BY <3>1 DEF BudgetTypes, PaidOnADay
    <3>4. ASSUME NEW d \in 1..Days
          PROVE  /\ searched'[d] + Cardinality(Waiting(d)') <= quota'[d]
                 /\ quota'[d] <= DailyBudget
      <4>1. p \notin Waiting(d)
        BY <3>1 DEF Waiting
      <4>2. Waiting(d)' = IF d = day THEN Waiting(d) \cup {p} ELSE Waiting(d)
        <5>1. \A q \in Checkers : check'[q] = IF q = p THEN paidNow ELSE check[q]
          BY <3>1 DEF BudgetTypes
        <5>2. \A q \in Checkers : q \in Waiting(d)' <=> (q = p /\ d = day) \/ (q # p /\ q \in Waiting(d))
          BY <5>1 DEF Waiting
        <5> QED
          BY <5>2, <4>1 DEF Waiting
      <4>3. Cardinality(Waiting(d)') =
              IF d = day THEN Cardinality(Waiting(d)) + 1 ELSE Cardinality(Waiting(d))
        BY <4>1, <4>2, WaitingIsFinite, FS_AddElement
      <4>4. quota'[d] = (IF d = day THEN quota[d] + 1 ELSE quota[d]) /\ searched'[d] = searched[d]
        BY <3>1 DEF BudgetTypes
      <4>5. /\ searched[d] + Cardinality(Waiting(d)) <= quota[d] /\ quota[d] <= DailyBudget
            /\ searched[d] \in Nat /\ quota[d] \in Nat /\ Cardinality(Waiting(d)) \in Nat
        BY WaitingIsFinite DEF SearchesPaid, BudgetTypes
      <4> QED
        BY <3>2, <4>3, <4>4, <4>5
    <3>5. SearchesPaid'
      BY <3>1, <3>4 DEF SearchesPaid
    <3> QED
      BY <3>3, <3>5
  <2>2. CASE ~Fits(day)
    <3>1. /\ verdicts' = [verdicts EXCEPT !.unchecked = @ + 1]
          /\ UNCHANGED <<quota, check, day, searched>>
      BY <1>1, <2>2 DEF Spend
    <3>2. BudgetTypes' /\ verdicts'.checked = verdicts.checked
      BY <3>1 DEF BudgetTypes
    <3>3. PaidOnADay' /\ SearchesPaid'
      BY <3>1, <3>2 DEF PaidOnADay, SearchesPaid, Waiting
    <3> QED
      BY <3>2, <3>3
  <2> QED
    BY <2>1, <2>2
<1>2. ASSUME NEW p \in Checkers, check[p].step = "paid", check' = [check EXCEPT ![p] = NoCheck]
      PROVE  /\ check' \in [Checkers -> [step : {"idle", "paid"}, paid : 0..Days]]
             /\ PaidOnADay' /\ check[p].paid \in 1..Days
  BY <1>2, BudgetAssumption DEF BudgetTypes, PaidOnADay, NoCheck, BudgetAssumption
<1>3. ASSUME NEW p \in Checkers, NEW found \in BOOLEAN, Search(p, found)
      PROVE  BudgetInv'
  <2> DEFINE today == check[p].paid
  <2>1. /\ check[p].step = "paid" /\ check' = [check EXCEPT ![p] = NoCheck]
        /\ searched' = [searched EXCEPT ![today] = @ + 1] /\ UNCHANGED <<day, quota>>
        /\ \/ verdicts' = [verdicts EXCEPT !.checked[today] = @ + 1]
           \/ verdicts' = [verdicts EXCEPT !.unchecked = @ + 1]
    BY <1>3 DEF Search
  <2>2. today \in 1..Days
    BY <1>2, <2>1
  <2>3. /\ searched' \in [1..Days -> Nat]
        /\ \A d \in 1..Days : searched'[d] = IF d = today THEN searched[d] + 1 ELSE searched[d]
    BY <2>1, <2>2 DEF BudgetTypes
  <2>4. /\ verdicts' \in [checked : [1..Days -> Nat], unchecked : Nat]
        /\ \A d \in 1..Days : \/ verdicts'.checked[d] = verdicts.checked[d]
                              \/ d = today /\ verdicts'.checked[d] = verdicts.checked[d] + 1
    <3>1. /\ verdicts \in [checked : [1..Days -> Nat], unchecked : Nat]
          /\ verdicts.checked \in [1..Days -> Nat] /\ verdicts.unchecked \in Nat
      BY DEF BudgetTypes
    <3>2. CASE verdicts' = [verdicts EXCEPT !.unchecked = @ + 1]
      BY <3>1, <3>2
    <3>3. CASE verdicts' = [verdicts EXCEPT !.checked[today] = @ + 1]
      <4> DEFINE counted == [verdicts.checked EXCEPT ![today] = @ + 1]
      <4>1. counted \in [1..Days -> Nat]
        <5>1. \A f \in [1..Days -> Nat], t \in 1..Days : [f EXCEPT ![t] = @ + 1] \in [1..Days -> Nat]
          OBVIOUS
        <5> QED
          BY <2>2, <3>1, <5>1, Zenon
      <4>2. verdicts' = [verdicts EXCEPT !.checked = counted]
        BY <3>3, Zenon
      <4>3. /\ verdicts' \in [checked : [1..Days -> Nat], unchecked : Nat]
            /\ verdicts'.checked = counted
        BY <3>1, <4>1, <4>2
      <4> QED
        BY <2>2, <3>1, <4>3
    <3> QED
      BY <2>1, <3>2, <3>3
  <2>5. BudgetTypes' /\ PaidOnADay'
    BY <1>2, <2>1, <2>3, <2>4 DEF BudgetTypes
  <2>6. ASSUME NEW d \in 1..Days
        PROVE  /\ searched'[d] + Cardinality(Waiting(d)') <= quota'[d] /\ quota'[d] <= DailyBudget
               /\ verdicts'.checked[d] <= searched'[d]
    <3>1. Cardinality(Waiting(d)') =
            IF d = today THEN Cardinality(Waiting(d)) - 1 ELSE Cardinality(Waiting(d))
      BY <2>1, OneLessWaits
    <3>2. /\ searched[d] + Cardinality(Waiting(d)) <= quota[d] /\ quota[d] <= DailyBudget
          /\ verdicts.checked[d] <= searched[d] /\ quota'[d] = quota[d]
          /\ searched[d] \in Nat /\ quota[d] \in Nat /\ Cardinality(Waiting(d)) \in Nat
          /\ verdicts.checked[d] \in Nat
      BY <2>1, WaitingIsFinite DEF SearchesPaid, BudgetTypes
    <3> QED
      BY <2>3, <2>4, <3>1, <3>2
  <2> QED
    BY <2>5, <2>6 DEF SearchesPaid
<1>4. ASSUME NEW p \in Checkers, CheckerKilled(p)
      PROVE  BudgetInv'
  <2>1. /\ check[p].step = "paid" /\ check' = [check EXCEPT ![p] = NoCheck]
        /\ UNCHANGED <<day, quota, searched, verdicts>>
    BY <1>4 DEF CheckerKilled
  <2>2. BudgetTypes' /\ PaidOnADay'
    BY <1>2, <2>1 DEF BudgetTypes
  <2>3. ASSUME NEW d \in 1..Days
        PROVE  searched[d] + Cardinality(Waiting(d)') <= quota[d]
    <3>1. Cardinality(Waiting(d)') \in {Cardinality(Waiting(d)), Cardinality(Waiting(d)) - 1}
      BY <2>1, OneLessWaits
    <3>2. /\ searched[d] + Cardinality(Waiting(d)) <= quota[d]
          /\ searched[d] \in Nat /\ quota[d] \in Nat /\ Cardinality(Waiting(d)) \in Nat
      BY WaitingIsFinite DEF SearchesPaid, BudgetTypes
    <3> QED
      BY <3>1, <3>2
  <2> QED
    BY <2>1, <2>2, <2>3 DEF SearchesPaid
<1>5. ASSUME Midnight
      PROVE  BudgetInv'
  <2>1. day' \in 1..Days
    BY <1>5, BudgetAssumption DEF Midnight, BudgetTypes, BudgetAssumption
  <2>2. BudgetTypes' /\ PaidOnADay'
    BY <1>5, <2>1 DEF Midnight, BudgetTypes, PaidOnADay
  <2>3. SearchesPaid'
    BY <1>5 DEF Midnight, SearchesPaid, Waiting
  <2> QED
    BY <2>2, <2>3
<1>6. CASE UNCHANGED budgetVars
  BY <1>6 DEF budgetVars, BudgetTypes, PaidOnADay, SearchesPaid, Waiting
<1> QED
  BY <1>1, <1>3, <1>4, <1>5, <1>6 DEF BudgetNext

(* However many processes spend the budget of quota.py, whatever it is and
   whichever of them is killed, no day sees more searches than it allows.     *)
THEOREM BudgetIsNeverPassed == BudgetSpec => []SearchesPaid
<1>1. BudgetInit => BudgetInv
  <2> SUFFICES ASSUME BudgetInit
               PROVE  BudgetInv
    OBVIOUS
  <2>1. Days \in Nat \ {0} /\ DailyBudget \in Nat
    BY BudgetAssumption DEF BudgetAssumption
  <2>2. BudgetTypes
    BY <2>1 DEF BudgetInit, BudgetTypes, NoCheck
  <2>3. PaidOnADay
    BY DEF BudgetInit, PaidOnADay, NoCheck
  <2>4. \A d \in 1..Days : Waiting(d) = {}
    BY DEF BudgetInit, NoCheck, Waiting
  <2>5. SearchesPaid
    <3>1. Cardinality({}) = 0
      BY FS_EmptySet
    <3>2. \A d \in 1..Days : searched[d] = 0 /\ quota[d] = 0 /\ verdicts.checked[d] = 0
      BY DEF BudgetInit
    <3> QED
      BY <2>1, <2>4, <3>1, <3>2 DEF SearchesPaid
  <2> QED
    BY <2>2, <2>3, <2>5 DEF BudgetInv
<1>2. BudgetInv /\ [BudgetNext]_budgetVars => BudgetInv'
  BY BudgetInvStep
<1>3. BudgetInv => SearchesPaid
  BY DEF BudgetInv
<1> QED
  BY <1>1, <1>2, <1>3, PTL DEF BudgetSpec
=============================================================================
