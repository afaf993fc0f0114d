-------------------------------- MODULE Edits --------------------------------
(***************************************************************************)
(* The edit regime: proposals over one archive row (the writable cells of  *)
(* one edit kind) and over settings in the yaml files, applied, rejected   *)
(* and reverted by the console's request threads, each on a connection of  *)
(* its own.  The pipeline writes the same row without asking.              *)
(***************************************************************************)
EXTENDS Naturals, Sequences, FiniteSets, Functions

CONSTANTS Actor,          \* request threads
          NoOne,          \* the lock's holder when it is free
          Cell,           \* columns of the row one edit kind may write
          Setting,        \* keys of thresholds.yaml and sources.yaml
          Value,          \* what a cell or a setting may hold
          ProposalBound,  \* bound: proposals made
          ForeignBound,   \* bound: writes from outside the regime
          ConsoleDeaths      \* bound: console processes that die

ASSUME EditAssumption ==
    /\ NoOne \notin Actor /\ Cell \cap Setting = {}
    /\ {ProposalBound, ForeignBound, ConsoleDeaths} \subseteq Nat

VARIABLES current,    \* what the row and the files hold
          proposals,  \* edit_proposals
          log,        \* edit_log
          lock,       \* _EDIT_LOCK
          stage,      \* where each thread is
          on,         \* the proposal or the edit it is working on
          foreign, deaths

editVars == <<current, proposals, log, lock, stage, on, foreign, deaths>>
editBounds == <<foreign, deaths>>

Status == {"proposed", "applied", "rejected", "expired"}

Holds(image) == \A x \in DOMAIN image : current[x] = image[x]
Overlaid(image) ==
    [x \in DOMAIN current |-> IF x \in DOMAIN image THEN image[x] ELSE current[x]]
Proposed(i) == proposals[i].status = "proposed"
OfSettings(image) == DOMAIN image \subseteq Setting
Reverted(e) == \E r \in DOMAIN log : log[r].reverts = e

EditGoto(a, s) == stage' = [stage EXCEPT ![a] = s]
Record(before, after, of, reverts) ==
    log' = Append(log, [before |-> before, after |-> after, of |-> of, reverts |-> reverts])
DecideProposal(i, s) == proposals' = [proposals EXCEPT ![i].status = s]

EditInit ==
    /\ \E v \in Value : current = [x \in Cell \cup Setting |-> v]
    /\ proposals = <<>> /\ log = <<>> /\ lock = NoOne
    /\ stage = [a \in Actor |-> "idle"]
    /\ on = [a \in Actor |-> 0]
    /\ foreign = 0 /\ deaths = 0

----------------------------------------------------------------------------
(* Proposals *)

Propose(before, after) ==
    /\ Len(proposals) < ProposalBound
    /\ proposals' = Append(proposals, [before |-> before, after |-> after, status |-> "proposed"])
    /\ UNCHANGED <<current, log, lock, stage, on, editBounds>>

(* propose_edit: the before image has every column of the kind, the after    *)
(* image the columns the payload names.                                      *)
ProposeRow(after) == Propose(Restrict(current, Cell), after)
ProposeSetting(k, v) == Propose(Restrict(current, {k}), [x \in {k} |-> v])

(* expire_proposals, and apply_edit when it meets an old proposal. *)
ExpireProposal(i) ==
    /\ Proposed(i) /\ DecideProposal(i, "expired")
    /\ UNCHANGED <<current, log, lock, stage, on, editBounds>>

(* reject_proposal reads the status, then writes it, without the lock. *)
RejectBegin(a, i) ==
    /\ stage[a] = "idle" /\ Proposed(i) /\ EditGoto(a, "reject")
    /\ on' = [on EXCEPT ![a] = i]
    /\ UNCHANGED <<current, proposals, log, lock, editBounds>>

RejectWrite(a) ==
    /\ stage[a] = "reject" /\ EditGoto(a, "idle")
    /\ DecideProposal(on[a], "rejected")
    /\ UNCHANGED <<current, log, lock, on, editBounds>>

----------------------------------------------------------------------------
(* apply_edit *)

ApplyBegin(a, i) ==
    /\ stage[a] = "idle" /\ Proposed(i)
    /\ EditGoto(a, IF OfSettings(proposals[i].after) THEN "wait" ELSE "compare")
    /\ on' = [on EXCEPT ![a] = i]
    /\ UNCHANGED <<current, proposals, log, lock, editBounds>>

(* The drift check of a row edit: before the lock is taken. *)
ApplyCompare(a) ==
    /\ stage[a] = "compare"
    /\ EditGoto(a, IF Holds(proposals[on[a]].before) THEN "write" ELSE "idle")
    /\ UNCHANGED <<current, proposals, log, lock, on, editBounds>>

(* One transaction under the lock: the row, the log row, the status. *)
ApplyWrite(a) ==
    /\ stage[a] = "write" /\ lock = NoOne /\ EditGoto(a, "idle")
    /\ current' = Overlaid(proposals[on[a]].after)
    /\ Record(proposals[on[a]].before, proposals[on[a]].after, on[a], 0)
    /\ DecideProposal(on[a], "applied")
    /\ UNCHANGED <<lock, on, editBounds>>

(* _apply_config_edit: status and drift are checked again under the lock.    *)
SettingCheck(a) ==
    /\ stage[a] = "wait" /\ lock = NoOne
    /\ IF Proposed(on[a]) /\ Holds(proposals[on[a]].before)
       THEN EditGoto(a, "file") /\ lock' = a
       ELSE EditGoto(a, "idle") /\ UNCHANGED lock
    /\ UNCHANGED <<current, proposals, log, on, editBounds>>

SettingFile(a) ==
    /\ stage[a] = "file" /\ EditGoto(a, "log")
    /\ current' = Overlaid(proposals[on[a]].after)
    /\ UNCHANGED <<proposals, log, lock, on, editBounds>>

SettingLog(a) ==
    /\ stage[a] = "log" /\ EditGoto(a, "idle") /\ lock' = NoOne
    /\ Record(proposals[on[a]].before, proposals[on[a]].after, on[a], 0)
    /\ DecideProposal(on[a], "applied")
    /\ UNCHANGED <<current, on, editBounds>>

----------------------------------------------------------------------------
(* revert_edit: all of it under the lock. *)

RevertCheckMutant(a, e) ==
    /\ stage[a] = "idle" /\ lock = NoOne /\ lock' = a
    /\ log[e].reverts = 0 /\ Holds(log[e].after)
    /\ EditGoto(a, IF OfSettings(log[e].after) THEN "unfile" ELSE "undo")
    /\ on' = [on EXCEPT ![a] = e]
    /\ UNCHANGED <<current, proposals, log, editBounds>>

RevertCheck(a, e) ==
    /\ stage[a] = "idle" /\ lock = NoOne /\ lock' = a
    /\ log[e].reverts = 0 /\ ~Reverted(e) /\ Holds(log[e].after)
    /\ EditGoto(a, IF OfSettings(log[e].after) THEN "unfile" ELSE "undo")
    /\ on' = [on EXCEPT ![a] = e]
    /\ UNCHANGED <<current, proposals, log, editBounds>>

(* The whole before image goes back, in one transaction with the log row. *)
RevertRow(a) ==
    /\ stage[a] = "undo" /\ EditGoto(a, "idle") /\ lock' = NoOne
    /\ current' = Overlaid(log[on[a]].before)
    /\ Record(log[on[a]].after, log[on[a]].before, 0, on[a])
    /\ UNCHANGED <<proposals, on, editBounds>>

RevertFile(a) ==
    /\ stage[a] = "unfile" /\ EditGoto(a, "unlog")
    /\ current' = Overlaid(log[on[a]].before)
    /\ UNCHANGED <<proposals, log, lock, on, editBounds>>

RevertLog(a) ==
    /\ stage[a] = "unlog" /\ EditGoto(a, "idle") /\ lock' = NoOne
    /\ Record(log[on[a]].after, log[on[a]].before, 0, on[a])
    /\ UNCHANGED <<current, proposals, on, editBounds>>

----------------------------------------------------------------------------
(* A run rescoring or merging the idea, or the settings page. *)
Foreign(x, v) ==
    /\ foreign < ForeignBound /\ v # current[x]
    /\ foreign' = foreign + 1
    /\ current' = [current EXCEPT ![x] = v]
    /\ UNCHANGED <<proposals, log, lock, stage, on, deaths>>

(* The console process dies: its threads and its lock are gone. *)
Crash ==
    /\ deaths < ConsoleDeaths /\ deaths' = deaths + 1
    /\ stage' = [a \in Actor |-> "idle"] /\ lock' = NoOne
    /\ UNCHANGED <<current, proposals, log, on, foreign>>

EditNext ==
    \/ \E S \in (SUBSET Cell) \ {{}} : \E after \in [S -> Value] : ProposeRow(after)
    \/ \E k \in Setting, v \in Value : ProposeSetting(k, v)
    \/ \E i \in DOMAIN proposals : ExpireProposal(i)
    \/ \E a \in Actor :
          \/ \E i \in DOMAIN proposals : RejectBegin(a, i) \/ ApplyBegin(a, i)
          \/ RejectWrite(a) \/ ApplyCompare(a) \/ ApplyWrite(a)
          \/ SettingCheck(a) \/ SettingFile(a) \/ SettingLog(a)
          \/ \E e \in DOMAIN log : RevertCheck(a, e)
          \/ RevertRow(a) \/ RevertFile(a) \/ RevertLog(a)
    \/ \E x \in Cell \cup Setting, v \in Value : Foreign(x, v)
    \/ Crash

EditSpec == EditInit /\ [][EditNext]_editVars

----------------------------------------------------------------------------
(* Properties *)

(* The log tells how a setting came to be what it is: each entry starts      *)
(* from the value the one before it left, and the last one left the value    *)
(* that stands, but for a write whose entry is on its way under the lock;    *)
(* a write from outside or a death between file and log breaks it for good.  *)
Touched(x) == {i \in DOMAIN log : x \in DOMAIN log[i].after}
History(x) ==
    /\ \A i, j \in Touched(x) :
          (i < j /\ \A m \in Touched(x) : m <= i \/ j <= m) =>
              log[i].after[x] = log[j].before[x]
    /\ (\A a \in Actor : stage[a] \notin {"log", "unlog"}) =>
          \A i \in Touched(x) : (\A m \in Touched(x) : m <= i) => log[i].after[x] = current[x]
SettingHistory == foreign = 0 /\ deaths = 0 => \A k \in Setting : History(k)

(* A proposal about a setting is applied once, whatever races, dies or is    *)
(* rejected meanwhile.                                                       *)
Applications(i) == {e \in DOMAIN log : log[e].of = i}
SettingAppliedOnce ==
    \A i \in DOMAIN proposals :
        OfSettings(proposals[i].after) => Cardinality(Applications(i)) <= 1

(* An edit is undone once, and an undo never. *)
RevertedOnce ==
    \A r, s \in DOMAIN log : log[r].reverts # 0 =>
        /\ log[log[r].reverts].reverts = 0
        /\ log[s].reverts = log[r].reverts => r = s

(* The log of the settings is true: its rows chain up to the live value,     *)
(* and what was decided once is done once.                                   *)
EditsAreTrue == SettingHistory /\ SettingAppliedOnce /\ RevertedOnce

(* What an edit or an undo overwrites is what its log row says it found.     *)
NothingStomped ==
    [][Len(log') > Len(log) =>
          LET e == log'[Len(log')]
          IN \A x \in Cell : current'[x] # current[x] =>
                 x \in DOMAIN e.before /\ e.before[x] = current[x]]_editVars
=============================================================================
