------------------------------ MODULE Schedule ------------------------------
(***************************************************************************)
(* The scheduled tasks of a Windows host: the declared schedule            *)
(* (config/schedule.yaml), the tasks the scheduler has registered, the     *)
(* launcher each command's task runs, and what installs, applies, pauses,  *)
(* refreshes and removes them.                                             *)
(* src/python/jester/schedule.py, cli.py                                   *)
(***************************************************************************)
EXTENDS Naturals, Sequences, SequencesExt

CONSTANTS Tasks,        \* the declared tasks, in the order of the file
          TaskCommand,      \* the command a task runs
          Cadences, Scopes,
          CodeVersions, \* versions of the launcher's format
          ScheduleOps,  \* bound: what the operator does between two applies
          ScheduleFaults

ASSUME ScheduleAssumption ==
    /\ Tasks \in Seq(ToSet(Tasks)) \ {<<>>} /\ IsInjective(Tasks)
    /\ CodeVersions \in Nat \ {0} /\ Cadences # {} /\ Scopes # {}
    /\ DOMAIN TaskCommand = ToSet(Tasks)

VARIABLES desired,    \* the file: the cadence, scope and state of a task
          task,       \* the scheduler: the same, and whether it is registered
          launcher,   \* the file of a command: its scope and format, or none
          code,       \* the format this code writes
          apply,      \* the apply under way
          settled,    \* ghost: an apply said yes and nothing was touched since
          scheduleOps, scheduleFaults

scheduleVars == <<desired, task, launcher, code, apply, settled, scheduleOps, scheduleFaults>>

TaskNames == ToSet(Tasks)
Commands == {TaskCommand[t] : t \in TaskNames}
NoLauncher == [version |-> 0, scope |-> CHOOSE s \in Scopes : TRUE]
NoApply == [step |-> "none", todo |-> <<>>, ok |-> TRUE, force |-> FALSE]
Specs == [cadence : Cadences, scope : Scopes, enabled : BOOLEAN]

ScheduleInit ==
    /\ desired \in [TaskNames -> Specs]
    /\ task = [t \in TaskNames |-> [installed |-> FALSE, enabled |-> TRUE,
                                    cadence |-> CHOOSE c \in Cadences : TRUE]]
    /\ launcher = [c \in Commands |-> NoLauncher]
    /\ code = 1 /\ apply = NoApply /\ settled = FALSE
    /\ scheduleOps = 0 /\ scheduleFaults = 0

Applying == apply.step # "none"
Current == Head(apply.todo)
ScheduleFault == scheduleFaults < ScheduleFaults /\ scheduleFaults' = scheduleFaults + 1
ScheduleOp == /\ ~Applying /\ scheduleOps < ScheduleOps /\ scheduleOps' = scheduleOps + 1
              /\ settled' = FALSE /\ UNCHANGED apply

(* cadence_matches, _launcher_problems, _drift_of *)
CadenceChanged(t) == task[t].installed /\ task[t].cadence # desired[t].cadence
LauncherProblems(t) ==
    \/ launcher[TaskCommand[t]].version # code
    \/ launcher[TaskCommand[t]].scope # desired[t].scope
Drift(t) ==
    IF ~task[t].installed THEN desired[t].enabled
    ELSE CadenceChanged(t) \/ task[t].enabled # desired[t].enabled \/ LauncherProblems(t)

(* A task that is registered again is enabled, whatever it was. *)
Registered(t, cadence) ==
    task' = [task EXCEPT ![t] = [installed |-> TRUE, enabled |-> TRUE, cadence |-> cadence]]
WriteLauncher(c, scope) == launcher' = [launcher EXCEPT ![c] = [version |-> code, scope |-> scope]]

----------------------------------------------------------------------------
StartApply(force) ==
    /\ ~Applying
    /\ apply' = [step |-> "look", todo |-> Tasks, ok |-> TRUE, force |-> force]
    /\ settled' = FALSE
    /\ UNCHANGED <<desired, task, launcher, code, scheduleOps, scheduleFaults>>

Gone(ok) ==
    LET over == Len(apply.todo) = 1 IN
    /\ apply' = IF over THEN NoApply
                ELSE [apply EXCEPT !.step = "look", !.todo = Tail(@), !.ok = @ /\ ok]
    /\ settled' = (over /\ apply.ok /\ ok)

(* The cadence of an enabled task is changed with --force only. *)
RefusedCadence ==
    /\ apply.step = "look" /\ CadenceChanged(Current) /\ task[Current].enabled /\ ~apply.force
    /\ Gone(FALSE)
    /\ UNCHANGED <<desired, task, launcher, code, scheduleOps, scheduleFaults>>

NeedsCreate(t) == ~task[t].installed \/ CadenceChanged(t) \/ LauncherProblems(t)
NeedsState(t) == task[t].installed /\ task[t].enabled # desired[t].enabled
MayApply == CadenceChanged(Current) /\ task[Current].enabled => apply.force

Unchanged_ ==
    /\ apply.step = "look" /\ MayApply /\ ~NeedsCreate(Current) /\ ~NeedsState(Current)
    /\ Gone(TRUE)
    /\ UNCHANGED <<desired, task, launcher, code, scheduleOps, scheduleFaults>>

(* install: the launcher is replaced, then the task is registered; either
   may fail, and what was done stays.                                       *)
InstallLauncher ==
    /\ apply.step = "look" /\ MayApply /\ NeedsCreate(Current)
    /\ \/ /\ WriteLauncher(TaskCommand[Current], desired[Current].scope)
          /\ apply' = [apply EXCEPT !.step = "create"]
          /\ UNCHANGED <<settled, scheduleFaults>>
       \/ ScheduleFault /\ apply' = NoApply /\ UNCHANGED <<launcher, settled>>
    /\ UNCHANGED <<desired, task, code, scheduleOps>>
CreateTask ==
    /\ apply.step = "create"
    /\ \/ /\ Registered(Current, desired[Current].cadence)
          /\ apply' = [apply EXCEPT !.step = "state"]
          /\ UNCHANGED <<settled, scheduleFaults>>
       \/ ScheduleFault /\ Gone(FALSE) /\ UNCHANGED task
    /\ UNCHANGED <<desired, launcher, code, scheduleOps>>

StateOnly ==
    /\ apply.step = "look" /\ MayApply /\ ~NeedsCreate(Current) /\ NeedsState(Current)
    /\ apply' = [apply EXCEPT !.step = "state"]
    /\ UNCHANGED <<desired, task, launcher, code, settled, scheduleOps, scheduleFaults>>

SetStateMutant ==
    /\ apply.step = "state" /\ Gone(TRUE)
    /\ UNCHANGED <<desired, task, launcher, code, scheduleOps, scheduleFaults>>
(* The state is read again after the registration, and set. *)
SetState ==
    /\ apply.step = "state"
    /\ \/ /\ task' = [task EXCEPT ![Current].enabled = desired[Current].enabled]
          /\ Gone(TRUE) /\ UNCHANGED scheduleFaults
       \/ /\ task[Current].enabled # desired[Current].enabled
          /\ ScheduleFault /\ Gone(FALSE) /\ UNCHANGED task
    /\ UNCHANGED <<desired, launcher, code, scheduleOps>>

ApplyKilled ==
    /\ Applying /\ ScheduleFault /\ apply' = NoApply
    /\ UNCHANGED <<desired, task, launcher, code, settled, scheduleOps>>

----------------------------------------------------------------------------
(* jester schedule install, remove, refresh; the console's pause; an edit of
   the file; a new version of the code.                                     *)
InstallByHand(t, cadence, scope, registers) ==
    /\ ScheduleOp
    /\ WriteLauncher(TaskCommand[t], scope)
    /\ IF registers THEN Registered(t, cadence) /\ UNCHANGED scheduleFaults
       ELSE ScheduleFault /\ UNCHANGED task
    /\ UNCHANGED <<desired, code>>
RemoveByHand(t) ==
    /\ ScheduleOp /\ task[t].installed
    /\ task' = [task EXCEPT ![t].installed = FALSE, ![t].enabled = TRUE]
    /\ UNCHANGED <<desired, launcher, code, scheduleFaults>>
SetEnabled(t, on) ==
    /\ ScheduleOp /\ task[t].installed /\ task[t].enabled # on
    /\ task' = [task EXCEPT ![t].enabled = on]
    /\ UNCHANGED <<desired, launcher, code, scheduleFaults>>
RefreshLaunchers ==
    /\ ScheduleOp /\ \E c \in Commands : launcher[c].version \notin {0, code}
    /\ launcher' = [c \in Commands |-> IF launcher[c].version = 0 THEN NoLauncher
                                       ELSE [launcher[c] EXCEPT !.version = code]]
    /\ UNCHANGED <<desired, task, code, scheduleFaults>>
EditSchedule(t, spec) ==
    /\ ScheduleOp /\ desired[t] # spec
    /\ desired' = [desired EXCEPT ![t] = spec]
    /\ UNCHANGED <<task, launcher, code, scheduleFaults>>
UpgradeCode ==
    /\ ScheduleOp /\ code < CodeVersions /\ code' = code + 1
    /\ UNCHANGED <<desired, task, launcher, scheduleFaults>>

ScheduleNext ==
    \/ \E force \in BOOLEAN : StartApply(force)
    \/ RefusedCadence \/ Unchanged_ \/ InstallLauncher \/ CreateTask \/ StateOnly \/ SetState \/ ApplyKilled
    \/ \E t \in TaskNames :
        \/ \E c \in Cadences, s \in Scopes, registers \in BOOLEAN : InstallByHand(t, c, s, registers)
        \/ RemoveByHand(t)
        \/ \E on \in BOOLEAN : SetEnabled(t, on)
        \/ \E spec \in Specs : EditSchedule(t, spec)
    \/ RefreshLaunchers \/ UpgradeCode

ScheduleSpec == ScheduleInit /\ [][ScheduleNext]_scheduleVars

(* An apply that says the schedule matches leaves no drift: what is asked of
   the scheduler and written to the launchers, in whatever state they were,
   is what the drift check reads, and a task that is registered again does
   not stay enabled.                                                        *)
AppliedIsDesired == settled => \A t \in TaskNames : ~Drift(t)
=============================================================================
