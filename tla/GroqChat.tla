------------------------------ MODULE GroqChat ------------------------------
(***************************************************************************)
(* One call of the hosted models: requests that are refused, fail or time  *)
(* out, the waits between them, and the one deadline they all share.       *)
(* src/python/jester/llm.py, GroqClient.chat                               *)
(***************************************************************************)
EXTENDS Integers

CONSTANTS Timeout,     \* seconds the whole call may take
          MaxRetries,
          Asked,       \* what a header may ask to wait, or None for no header
          NoHeader,
          LongestWait, \* the cap of _retry_delay
          Oversleep    \* how late a wait may end

ASSUME GroqChatAssumption ==
    /\ Timeout \in Nat \ {0} /\ {MaxRetries, LongestWait, Oversleep} \subseteq Nat /\ Asked \subseteq Nat
    /\ \A n \in 0..MaxRetries : 2 ^ n \in Nat

VARIABLES elapsed, attempt,
          chat,      \* "ask", or what the call came to
          last,      \* what the last request came to: raised when time is up
          answer     \* external: what the server last said

chatVars == <<elapsed, attempt, chat, last, answer>>

ChatInit ==
    /\ elapsed = 0 /\ attempt = 0 /\ chat = "ask"
    /\ last = "nothing" /\ answer = "nothing"

Left == Timeout - elapsed
Kind(code) == IF code = 429 THEN "limited" ELSE "error"

\* A wait that would not leave time for another request is not taken.
Delay(asked) ==
    LET wanted == IF asked = NoHeader THEN 2 ^ attempt ELSE asked IN
    IF wanted > LongestWait THEN LongestWait ELSE wanted
AffordableMutant(delay, left) == TRUE
Affordable(delay, left) == delay < left

Asks(t) == chat = "ask" /\ t \in 0..Left
EndWith(what) == chat' = what /\ UNCHANGED <<attempt, last>>
Retry(what, delay, t) ==
    IF attempt = MaxRetries \/ Left - t <= 0 \/ ~Affordable(delay, Left - t)
    THEN elapsed' = elapsed + t /\ EndWith(what)
    ELSE /\ \E late \in 0..Oversleep : elapsed' = elapsed + t + delay + late
         /\ attempt' = attempt + 1
         /\ last' = what /\ UNCHANGED chat

\* The deadline is looked at before every request but the first.
OutOfTime ==
    /\ chat = "ask" /\ attempt > 0 /\ Left <= 0
    /\ chat' = last /\ UNCHANGED <<elapsed, attempt, last, answer>>

Served(t, choices) ==
    /\ Asks(t) /\ elapsed' = elapsed + t
    /\ EndWith(IF choices THEN "reply" ELSE "error")
    /\ answer' = "served"

\* A status worth another request, and one that is not.
Busy(t, code, asked) ==
    /\ Asks(t) /\ code \in {429, 503}
    /\ Retry(Kind(code), Delay(asked), t)
    /\ answer' = Kind(code)

Denied(t) ==
    /\ Asks(t) /\ elapsed' = elapsed + t
    /\ EndWith("error") /\ answer' = "error"

\* A timeout or a connection that breaks, and a body that cannot be read.
Broken(t, transient) ==
    /\ Asks(t)
    /\ IF transient THEN Retry("error", Delay(NoHeader), t)
       ELSE elapsed' = elapsed + t /\ EndWith("error")
    /\ answer' = "error"

ChatNext ==
    \/ OutOfTime
    \/ \E t \in 0..Timeout :
         \/ \E choices \in BOOLEAN : Served(t, choices)
         \/ \E code \in {429, 503}, asked \in Asked \cup {NoHeader} : Busy(t, code, asked)
         \/ Denied(t)
         \/ \E transient \in BOOLEAN : Broken(t, transient)

ChatSpec == ChatInit /\ [][ChatNext]_chatVars

\* However often a call is refused and asks again, it is over by its deadline,
\* and it says it was rate limited exactly when that was the last answer it
\* got: a block is recorded for nothing else (chat, _http_failure).
ChatKeepsItsTime ==
    /\ elapsed <= Timeout + Oversleep /\ attempt <= MaxRetries
    /\ chat = "limited" => answer = "limited"
    /\ chat \in {"error", "reply"} => answer # "limited"
=============================================================================
