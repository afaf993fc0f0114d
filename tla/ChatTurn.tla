------------------------------ MODULE ChatTurn ------------------------------
(***************************************************************************)
(* A turn of the operator's chat: a background job of the console asks the *)
(* model, runs the tools it demands, a round at a time, and keeps what was *)
(* said in chat.db; a tool only ever mints a proposal.                     *)
(* src/python/jester/chat/, console/api_chat.py                            *)
(***************************************************************************)
EXTENDS Naturals, Sequences

CONSTANTS ReplyCap,    \* MAX_TOOL_CALLS_PER_REPLY of the client
          RoundCap,    \* MAX_TOOL_CALLS_PER_ROUND of the session
          DemandBound, \* calls one reply of the model may hold
          MaxRounds,   \* chat_max_rounds
          Window,      \* HISTORY_WINDOW
          TurnBound, TurnKills

ASSUME ChatTurnAssumption ==
    {ReplyCap, RoundCap, DemandBound, MaxRounds, TurnBound, TurnKills} \subseteq Nat /\ Window \in Nat \ {0}

VARIABLES chatEnabled,
          transcript,  \* the messages of the session, by role and turn
          turn,        \* the turn at work
          minted,      \* proposals on file, by turn and number
          traced,      \* chat_tool_calls: those a row tells of
          turns, turnKills

turnVars == <<chatEnabled, transcript, turn, minted, traced, turns, turnKills>>

NoTurn == [step |-> "none", id |-> 0, round |-> 0, calls |-> 0,
           made |-> 0, shown |-> {}, final |-> FALSE]

TurnInit ==
    /\ chatEnabled \in BOOLEAN /\ transcript = <<>> /\ turn = NoTurn
    /\ minted = {} /\ traced = {} /\ turns = 0 /\ turnKills = 0

SwitchChat == chatEnabled' = ~chatEnabled /\ turn = NoTurn /\ turns < TurnBound
              /\ UNCHANGED <<transcript, turn, minted, traced, turns, turnKills>>

Says(role) == transcript' = Append(transcript, [role |-> role, turn |-> turn.id])

(* chat_start: one job at a time, and only when the chat is on.  The question
   is written first.                                                          *)
ChatStart ==
    /\ chatEnabled /\ turn = NoTurn /\ turns < TurnBound /\ turns' = turns + 1
    /\ transcript' = Append(transcript, [role |-> "user", turn |-> turns'])
    /\ turn' = [NoTurn EXCEPT !.step = "history", !.id = turns']
    /\ UNCHANGED <<chatEnabled, minted, traced, turnKills>>

MessagesMutant(limit) == {transcript[i] : i \in {k \in DOMAIN transcript : k <= limit}}

(* ChatStore.messages: the most recent ones, in order. *)
Messages(limit) == {transcript[i] : i \in {k \in DOMAIN transcript : k + limit > Len(transcript)}}
ModelHistory ==
    /\ turn.step = "history"
    /\ turn' = [turn EXCEPT !.step = "model", !.shown = Messages(Window)]
    /\ UNCHANGED <<chatEnabled, transcript, minted, traced, turns, turnKills>>

-----------------------------------------------------------------------------
(* The rounds                                                              *)

NextRound(after) == turn' = [after EXCEPT !.round = @ + 1]
Asking == turn.step = "model" /\ turn.round < MaxRounds
Quiet == UNCHANGED <<chatEnabled, transcript, minted, traced, turns, turnKills>>

(* The client keeps the first calls of a reply. *)
FirstCalls(n) == IF n < ReplyCap THEN n ELSE ReplyCap

(* Calls are run, or, when there are too many, the round is dropped and the
   model told so.                                                            *)
ToolRound(n) ==
    /\ Asking /\ n > 0
    /\ NextRound([turn EXCEPT
           !.calls = IF FirstCalls(n) > RoundCap THEN 0 ELSE FirstCalls(n),
           !.step = IF FirstCalls(n) > RoundCap THEN "model" ELSE "tools"])
    /\ Quiet
(* An answer; or the model is unreachable or out of its quota, and the turn
   says so.                                                                  *)
FinalAnswer == /\ Asking /\ NextRound([turn EXCEPT !.step = "closing", !.final = TRUE])
               /\ Quiet
OutOfRounds == /\ turn.step = "model" /\ turn.round = MaxRounds
               /\ turn' = [turn EXCEPT !.step = "closing"] /\ Quiet

(* run_tool: what reads, or is refused, leaves nothing but its observation; a
   propose_ tool mints one proposal.                                         *)
RunTool(made) ==
    /\ turn.step = "tools" /\ turn.calls > 0
    /\ turn' = [turn EXCEPT !.step = "record", !.made = made]
    /\ UNCHANGED <<chatEnabled, transcript, traced, turns, turnKills>>
ReadTool == RunTool(turn.made) /\ UNCHANGED minted
ProposeTool == RunTool(turn.made + 1) /\ minted' = minted \cup {<<turn.id, turn.made + 1>>}
RecordCall ==
    /\ turn.step = "record"
    /\ turn' = [turn EXCEPT !.calls = @ - 1, !.step = IF turn.calls = 1 THEN "model" ELSE "tools"]
    /\ traced' = traced \cup {p \in minted : p[1] = turn.id}
    /\ UNCHANGED <<chatEnabled, transcript, minted, turns, turnKills>>

(* A note when what is said cites nothing that was read, then what is said. *)
NoteUncited == /\ turn.step = "closing" /\ turn.final /\ turn.round > 1
               /\ Says("system-note") /\ turn' = [turn EXCEPT !.step = "answer"]
               /\ UNCHANGED <<chatEnabled, minted, traced, turns, turnKills>>
CloseTurn == /\ turn.step \in {"closing", "answer"} /\ Says("chat") /\ turn' = NoTurn
             /\ UNCHANGED <<chatEnabled, minted, traced, turns, turnKills>>

(* A tool raises, or the console dies: the question stays without an answer. *)
TurnLost == /\ turn # NoTurn /\ turnKills < TurnKills /\ turnKills' = turnKills + 1
            /\ turn' = NoTurn /\ UNCHANGED <<chatEnabled, transcript, minted, traced, turns>>

TurnNext ==
    \/ SwitchChat \/ ChatStart \/ ModelHistory
    \/ \E n \in 1..DemandBound : ToolRound(n)
    \/ FinalAnswer \/ OutOfRounds
    \/ ReadTool \/ ProposeTool \/ RecordCall \/ NoteUncited \/ CloseTurn \/ TurnLost

TurnSpec == TurnInit /\ [][TurnNext]_turnVars

-----------------------------------------------------------------------------
(* What must hold                                                          *)

(* However long the session is and wherever a turn was cut off, the model is
   shown the question of its own turn, and of what a turn has put on file for
   the operator at most the last is missing from the transcript.              *)
TurnIsAccounted ==
    /\ turn.step \notin {"none", "history"} => [role |-> "user", turn |-> turn.id] \in turn.shown
    /\ \A t \in 1..turns : \A p, q \in {m \in minted \ traced : m[1] = t} : p = q

=============================================================================
