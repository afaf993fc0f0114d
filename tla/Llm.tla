-------------------------------- MODULE Llm --------------------------------
(***************************************************************************)
(* The agents of a run and the quota of the models they ask: calls that    *)
(* are answered, refused or answered with something unusable, the batches  *)
(* of the extractor, what is filed of every call, the block that a run     *)
(* leaves on a model and the one it finds.                                 *)
(* src/python/jester/llm.py, llm_quota.py, roles.py                        *)
(***************************************************************************)
EXTENDS Naturals, FiniteSets, Sequences

CONSTANTS Runs,        \* processes: a treatment, `jester rescore --pending`
          RoleOrder,   \* the roles, in the order a run settles them
          Serves(_),   \* the roles of a process
          Key(_),      \* quota_key of a role: provider/model, or NoKey
          NoKey,
          N,           \* comments of a batch
          Waits429,    \* what a 429 may ask to wait, 0 when it does not say
          DefaultWait, \* the wait then
          ClockBound, CallBound, LlmRunBound

Roles == {RoleOrder[i] : i \in DOMAIN RoleOrder}
Keys == {Key(r) : r \in Roles} \ {NoKey}
Comments == 1..N

ASSUME LlmAssumption ==
    /\ RoleOrder \in Seq(Roles) /\ N \in Nat \ {0} /\ DefaultWait \in Nat \ {0} /\ Waits429 \subseteq Nat
    /\ \A p \in Runs : Serves(p) \subseteq Roles

VARIABLES time,
          block,   \* llm_quota: until when a model is out of quota
          work,    \* where a process is: "idle", "work", "settle"
          paused,  \* the roles it found blocked
          agent,   \* what each of its agents counted
          filed,   \* llm_calls: rows without an error, and rows with one
          used,    \* ghost: replies that were used
          batch,   \* comments the extractor still asks for, one at a time
          drafts,  \* what the extractor wrote for each comment
          llmRuns

llmVars == <<time, block, work, paused, agent, filed, used, batch, drafts, llmRuns>>
counters == <<agent, filed, used>>

Fresh == [calls |-> 0, fallbacks |-> 0, limited |-> FALSE, retryAfter |-> 0]

\* A draft is named by the comment it is about.
Undrafted == 0
Standin == N + 1
NoDrafts == [c \in Comments |-> Undrafted]

LlmInit ==
    /\ time = 0 /\ llmRuns = 0
    /\ block = [k \in Keys |-> 0]
    /\ work = [p \in Runs |-> "idle"] /\ paused = [p \in Runs |-> {}]
    /\ agent = [p \in Runs |-> [r \in Roles |-> Fresh]]
    /\ filed = [p \in Runs |-> [r \in Roles |-> [ok |-> 0, failed |-> 0]]]
    /\ used = [p \in Runs |-> [r \in Roles |-> 0]]
    /\ batch = [p \in Runs |-> {}] /\ drafts = [p \in Runs |-> NoDrafts]

Blocked(r) == Key(r) # NoKey /\ block[Key(r)] > time

\* The jobs whose model is known to be out of quota do not ask it, unless
\* the run was told --force.
StartRun(p, force) ==
    /\ work[p] = "idle" /\ llmRuns < LlmRunBound
    /\ llmRuns' = llmRuns + 1
    /\ paused' = [paused EXCEPT ![p] = IF force THEN {} ELSE {r \in Serves(p) : Blocked(r)}]
    /\ work' = [work EXCEPT ![p] = "work"]
    /\ agent' = [agent EXCEPT ![p] = [r \in Roles |-> Fresh]]
    /\ filed' = [filed EXCEPT ![p] = [r \in Roles |-> [ok |-> 0, failed |-> 0]]]
    /\ used' = [used EXCEPT ![p] = [r \in Roles |-> 0]]
    /\ drafts' = [drafts EXCEPT ![p] = NoDrafts]
    /\ UNCHANGED <<time, block, batch>>

-----------------------------------------------------------------------------
(* One call (_obj) and what is made of the reply                           *)

\* A job stops asking when its model ran out, except for the comments of a
\* batch it is asking for one at a time.
MayAsk(p, r) == /\ work[p] = "work" /\ r \in Serves(p) \ paused[p]
                /\ agent[p][r].calls < CallBound

Count(p, r, a, f, u) ==
    /\ agent' = [agent EXCEPT ![p][r] = a]
    /\ filed' = [filed EXCEPT ![p][r] = f]
    /\ used' = [used EXCEPT ![p][r] = @ + u]

\* The row of a call, and that of one whose reply was refused after it.
FiledOk(f) == [f EXCEPT !.ok = @ + 1]
FiledFailed(f) == [f EXCEPT !.failed = @ + 1]

\* The reply is used, and its call is filed without an error.
Used(p, r) == LET now == agent[p][r] f == filed[p][r] IN
    Count(p, r, [now EXCEPT !.calls = @ + 1], FiledOk(f), 1)

\* No reply or not an object; or an object that is refused after its call was
\* filed, whose row is then marked failed. The stand-in answers.
Failed(p, r) == LET now == agent[p][r] f == filed[p][r] IN
    Count(p, r, [now EXCEPT !.calls = @ + 1, !.fallbacks = @ + 1],
          FiledFailed(f), 0)

\* A rate limit that outlasted the retries; the longest wait is kept.
Limit(p, r, wait) == LET now == agent[p][r] f == filed[p][r] IN
    Count(p, r, [now EXCEPT !.calls = @ + 1, !.fallbacks = @ + 1, !.limited = TRUE,
                          !.retryAfter = IF wait > @ THEN wait ELSE @],
          FiledFailed(f), 0)

\* synthesize and score: an idea or a score from the model, or a stand-in's.
Ask(p, r) ==
    /\ MayAsk(p, r) /\ r # "extractor" /\ ~agent[p][r].limited
    /\ Used(p, r) \/ Failed(p, r) \/ \E wait \in Waits429 : Limit(p, r, wait)
    /\ UNCHANGED <<time, block, work, paused, batch, drafts, llmRuns>>

InOrderMutant(items) == TRUE
\* The items of a batch reply carry the position of the comment they are
\* about, or nothing usable (0): a reply that is reordered, or not of N items, is refused whole.
InOrder(items) == \A c \in Comments : items[c] = c
Drafted(items) == [c \in Comments |-> items[c]]

\* Drafts are never zipped onto the wrong comments.
OneByOne(p) == batch' = [batch EXCEPT ![p] = Comments] /\ UNCHANGED drafts

ExtractBatch(p, items) ==
    /\ MayAsk(p, "extractor") /\ batch[p] = {} /\ ~agent[p]["extractor"].limited
    /\ IF InOrder(items)
       THEN Used(p, "extractor") /\ drafts' = [drafts EXCEPT ![p] = Drafted(items)] /\ UNCHANGED batch
       ELSE Failed(p, "extractor") /\ OneByOne(p)
    /\ UNCHANGED <<time, block, work, paused, llmRuns>>

\* A batch without a reply is asked for one comment at a time; one that met
\* the limit is not, and its comments get the stand-in's drafts.
BatchLost(p) ==
    /\ MayAsk(p, "extractor") /\ batch[p] = {} /\ ~agent[p]["extractor"].limited
    /\ \/ Failed(p, "extractor") /\ OneByOne(p)
       \/ /\ \E wait \in Waits429 : Limit(p, "extractor", wait)
          /\ drafts' = [drafts EXCEPT ![p] = [c \in Comments |-> Standin]] /\ UNCHANGED batch
    /\ UNCHANGED <<time, block, work, paused, llmRuns>>

\* The row of a comment is made of what was drafted for it.
ToNugget(p, c, d) == drafts' = [drafts EXCEPT ![p][c] = d]

ExtractOne(p, c) ==
    /\ MayAsk(p, "extractor") /\ c \in batch[p] /\ \A d \in batch[p] : c <= d
    /\ batch' = [batch EXCEPT ![p] = @ \ {c}]
    /\ \/ Used(p, "extractor") /\ ToNugget(p, c, c)
       \/ /\ Failed(p, "extractor") \/ \E wait \in Waits429 : Limit(p, "extractor", wait)
          /\ ToNugget(p, c, Standin)
    /\ UNCHANGED <<time, block, work, paused, llmRuns>>

-----------------------------------------------------------------------------
(* The end of a run (settle), and the clock                                *)

RanOut(p) == {r \in Serves(p) : Key(r) # NoKey /\ agent[p][r].limited}
Answered(p) == {Key(r) : r \in {r \in Serves(p) \ RanOut(p) :
                  Key(r) # NoKey /\ agent[p][r].calls > agent[p][r].fallbacks}}
Cleared(p) == Answered(p) \ {Key(r) : r \in RanOut(p)}
WaitOfMutant(p, r) == agent[p][r].retryAfter
WaitOf(p, r) == IF agent[p][r].retryAfter = 0 THEN DefaultWait ELSE agent[p][r].retryAfter

\* Of two jobs that ran out of one model, the last one's wait is recorded.
LastLimited(p, k) ==
    LET limited == {i \in DOMAIN RoleOrder : RoleOrder[i] \in RanOut(p) /\ Key(RoleOrder[i]) = k} IN
    {i \in limited : \A j \in limited : j <= i}

Settle(p) ==
    /\ work[p] = "work" /\ batch[p] = {}
    /\ block' = [k \in Keys |-> IF LastLimited(p, k) # {}
                                THEN time + WaitOf(p, RoleOrder[CHOOSE i \in LastLimited(p, k) : TRUE])
                                ELSE IF k \in Cleared(p) THEN 0 ELSE block[k]]
    /\ work' = [work EXCEPT ![p] = "idle"]
    /\ UNCHANGED <<time, paused, counters, batch, drafts, llmRuns>>

\* A process that is killed does not settle.
RunKilled(p) ==
    /\ work[p] = "work"
    /\ work' = [work EXCEPT ![p] = "idle"] /\ batch' = [batch EXCEPT ![p] = {}]
    /\ UNCHANGED <<time, block, paused, counters, drafts, llmRuns>>

LlmTick ==
    /\ time < ClockBound /\ time' = time + 1
    /\ UNCHANGED <<block, work, paused, counters, batch, drafts, llmRuns>>

LlmNext ==
    \/ \E p \in Runs, force \in BOOLEAN : StartRun(p, force)
    \/ \E p \in Runs, r \in Roles : Ask(p, r)
    \/ \E p \in Runs : \E items \in [Comments -> 0..N] : ExtractBatch(p, items)
    \/ \E p \in Runs : BatchLost(p)
    \/ \E p \in Runs, c \in Comments : ExtractOne(p, c)
    \/ \E p \in Runs : Settle(p)
    \/ \E p \in Runs : RunKilled(p)
    \/ LlmTick

LlmSpec == LlmInit /\ [][LlmNext]_llmVars

-----------------------------------------------------------------------------
(* What must hold                                                          *)

\* A draft is about the comment it is written for, or the stand-in's, however
\* a batch reply came back (extract_batch: the echo check).
DraftOfItsComment == \A p \in Runs, c \in Comments : drafts[p][c] \in {Undrafted, Standin, c}

\* The calls that did not end in a stand-in are the replies that were used,
\* and the rows filed without an error are theirs: `calls > fallbacks`, by
\* which a block is cleared, says that the model answered (settle, _reject).
AnsweredIsReal ==
    \A p \in Runs, r \in Roles :
        /\ agent[p][r].calls - agent[p][r].fallbacks = used[p][r]
        /\ filed[p][r].ok = used[p][r]

\* What a run makes of a role's replies is what they were.
RepliesAreTrue == DraftOfItsComment /\ AnsweredIsReal

\* A model that ran out for one job of a run is blocked when the run is over,
\* though another job of the run had answers from it; and no run blocks a
\* model that none of its jobs ran out of (settle).
SettledStands ==
    [][\A p \in Runs, k \in Keys :
         work[p] = "work" /\ work'[p] = "idle" /\ batch[p] = {} /\ block' # block =>
            /\ (\E r \in RanOut(p) : Key(r) = k) => block'[k] > time
            /\ (\A r \in RanOut(p) : Key(r) # k) => block'[k] <= block[k]]_llmVars
=============================================================================
