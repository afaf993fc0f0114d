---------------------------- MODULE SpecJourney ----------------------------
(***************************************************************************)
(* The extraction specs that an agent proposes: validated on sample pages, *)
(* approved and activated by a human, run, and set aside when their page   *)
(* has changed.  Each command reads the status in one statement and writes *)
(* it, whatever it has become, in another.                                 *)
(* src/python/jester/specs.py                                              *)
(***************************************************************************)
EXTENDS Naturals, FiniteSets

CONSTANTS SpecIds,       \* specs that may be proposed
          Commanders,    \* processes of `jester specs`
          ActorKinds,    \* who may ask: "human" is one of them
          GatePages,          \* pages with comments the review gate asks for
          MaxSamples,    \* specs_max_samples
          RunLimit,      \* threads of one run
          CommandBound, SpecKills

ASSUME SpecAssumption ==
    /\ "human" \in ActorKinds /\ GatePages \in Nat \ {0}
    /\ {MaxSamples, RunLimit, CommandBound, SpecKills} \subseteq Nat

VARIABLES status,    \* per spec, "none" before it is proposed
          gates,     \* ghost: what a spec has passed, and by whom
          command,   \* per process: its verb, its spec, how far it is, the samples it has
          deposited, \* batches queued for a spec
          commands, specKills

specVars == <<status, gates, command, deposited, commands, specKills>>

NoCommand == [verb |-> "none", spec |-> "none", kind |-> "none", pages |-> 0, samples |-> 0]

SpecInit ==
    /\ status = [s \in SpecIds |-> "none"] /\ gates = [s \in SpecIds |-> {}]
    /\ command = [p \in Commanders |-> NoCommand] /\ deposited = [s \in SpecIds |-> 0]
    /\ commands = 0 /\ specKills = 0

AtPrompt(p) == command[p].verb = "none"
CommandEnds(p) == command' = [command EXCEPT ![p] = NoCommand]

(* _set_status: written whatever the status is by now; the ghost notes what
   the writer has just shown.                                               *)
SetStatus(s, new, by) ==
    /\ status' = [status EXCEPT ![s] = new]
    /\ gates' = [gates EXCEPT ![s] = @ \cup {<<new, by>>}]

(* Anyone may propose, an operator with a file or the specifier from a page; a
   reply that is no specification stores nothing.                            *)
ProposeSpec(s) ==
    /\ status[s] = "none" /\ SetStatus(s, "proposed", "any")
    /\ UNCHANGED <<command, deposited, commands, specKills>>

TakesFromMutant(verb) ==
    CASE verb = "validate" -> {"proposed"} [] verb = "approve" -> {"proposed", "validated"}
      [] verb = "activate" -> {"approved"} [] verb = "run" -> {"active"}
      [] verb = "drift" -> {"validated", "approved", "active"}

(* A command reads the row, and goes on from the status it takes it from; the
   two decisions are refused to anyone but a human.                          *)
TakesFrom(verb) ==
    CASE verb = "validate" -> {"proposed"} [] verb = "approve" -> {"validated"}
      [] verb = "activate" -> {"approved"} [] verb = "run" -> {"active"}
      [] verb = "drift" -> {"validated", "approved", "active"}
MayAct(verb, kind) == verb \in {"approve", "activate"} => kind = "human"
StartCommand(p, verb, s, kind) ==
    /\ AtPrompt(p) /\ commands < CommandBound /\ commands' = commands + 1
    /\ MayAct(verb, kind) /\ status[s] \in TakesFrom(verb)
    /\ command' = [command EXCEPT ![p] = [NoCommand EXCEPT !.verb = verb, !.spec = s, !.kind = kind]]
    /\ UNCHANGED <<status, gates, deposited, specKills>>

(* A page that robots.txt keeps from us, or, but for a sample, that cannot be
   fetched, ends the command; what a run has queued stays.                   *)
PageRefused(p) ==
    /\ command[p].verb \in {"validate", "sample", "run", "deposit"}
    /\ command[p].verb \in {"sample", "deposit"} => command[p].pages > 0
    /\ CommandEnds(p) /\ UNCHANGED <<status, gates, deposited, commands, specKills>>

-----------------------------------------------------------------------------
(* validate_spec: the listing, then its pages one by one                   *)

(* Pages to sample; none on the listing, or no listing, ends the command. *)
ReadListing(p, n) ==
    /\ command[p].verb = "validate"
    /\ IF n = 0 THEN CommandEnds(p)
       ELSE command' = [command EXCEPT ![p].verb = "sample", ![p].pages = n]
    /\ UNCHANGED <<status, gates, deposited, commands, specKills>>

(* A page with comments counts, a dead link is passed over, and a page the
   selector reads nothing of refuses the spec.                              *)
SamplePage(p) ==
    /\ command[p].verb = "sample" /\ command[p].pages > 0
    /\ \/ command' = [command EXCEPT ![p].pages = @ - 1, ![p].samples = @ + 1]
       \/ command' = [command EXCEPT ![p].pages = @ - 1]
       \/ CommandEnds(p)
    /\ UNCHANGED <<status, gates, deposited, commands, specKills>>

Proved(p) ==
    /\ command[p].verb = "sample" /\ command[p].pages = 0 /\ CommandEnds(p)
    /\ IF command[p].samples < GatePages THEN UNCHANGED <<status, gates>>
       ELSE SetStatus(command[p].spec, "validated", command[p].samples)
    /\ UNCHANGED <<deposited, commands, specKills>>

-----------------------------------------------------------------------------
(* The decisions, and the run                                              *)

ApproveSpec(p) ==
    /\ command[p].verb = "approve" /\ CommandEnds(p)
    /\ SetStatus(command[p].spec, "approved", command[p].kind)
    /\ UNCHANGED <<deposited, commands, specKills>>
ActivateSpec(p) ==
    /\ command[p].verb = "activate" /\ CommandEnds(p)
    /\ SetStatus(command[p].spec, "active", command[p].kind)
    /\ UNCHANGED <<deposited, commands, specKills>>
MarkDrifted(p) ==
    /\ command[p].verb = "drift" /\ CommandEnds(p)
    /\ SetStatus(command[p].spec, "drifted", command[p].kind)
    /\ UNCHANGED <<deposited, commands, specKills>>

(* A run whose listing shows nothing sets its spec aside, when the status, read
   again, still lets it.                                                       *)
RunListing(p, n) ==
    /\ command[p].verb = "run"
    /\ IF n > 0 THEN command' = [command EXCEPT ![p].verb = "deposit", ![p].pages = n]
       ELSE IF status[command[p].spec] \in TakesFrom("drift")
       THEN command' = [command EXCEPT ![p].verb = "drift", ![p].kind = "agent"]
       ELSE CommandEnds(p)
    /\ UNCHANGED <<status, gates, deposited, commands, specKills>>

(* Each thread with comments is queued on its own. *)
RunThread(p) ==
    /\ command[p].verb = "deposit" /\ command[p].pages > 0
    /\ command' = [command EXCEPT ![p].pages = @ - 1]
    /\ \/ deposited' = [deposited EXCEPT ![command[p].spec] = @ + 1]
       \/ UNCHANGED deposited
    /\ UNCHANGED <<status, gates, commands, specKills>>
RunEnds(p) ==
    /\ command[p].verb = "deposit" /\ command[p].pages = 0 /\ CommandEnds(p)
    /\ UNCHANGED <<status, gates, deposited, commands, specKills>>

CommandKilled(p) ==
    /\ ~AtPrompt(p) /\ specKills < SpecKills /\ specKills' = specKills + 1
    /\ CommandEnds(p) /\ UNCHANGED <<status, gates, deposited, commands>>

SpecNext ==
    \/ \E s \in SpecIds : ProposeSpec(s)
    \/ \E p \in Commanders :
          \/ \E s \in SpecIds, verb \in {"validate", "approve", "activate", "drift", "run"}, kind \in ActorKinds :
                StartCommand(p, verb, s, kind)
          \/ \E n \in 0..MaxSamples : ReadListing(p, n)
          \/ SamplePage(p) \/ Proved(p) \/ ApproveSpec(p) \/ ActivateSpec(p) \/ MarkDrifted(p)
          \/ \E n \in 0..RunLimit : RunListing(p, n)
          \/ PageRefused(p) \/ RunThread(p) \/ RunEnds(p) \/ CommandKilled(p)

SpecSpec == SpecInit /\ [][SpecNext]_specVars

-----------------------------------------------------------------------------
(* What must hold                                                          *)

(* However commands on a spec overlap, one that is active, and one that has
   deposited anything, was shown on as many pages as the gate asks for, and a
   human approved and activated it (G6).                                      *)
ActiveIsProved ==
    \A s \in SpecIds :
        status[s] = "active" \/ deposited[s] > 0 =>
            /\ <<"approved", "human">> \in gates[s] /\ <<"active", "human">> \in gates[s]
            /\ \E n \in GatePages..MaxSamples : <<"validated", n>> \in gates[s]
=============================================================================
