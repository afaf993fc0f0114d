------------------------------ MODULE Pipeline ------------------------------
(***************************************************************************)
(* The Go worker and the Python runs over one database: module Fetch fills *)
(* the queue that module RunProcess drains, and both write the skip-list.  *)
(* Neither waits for the other.                                            *)
(***************************************************************************)
EXTENDS Fetch, RunProcess

pipelineVars == <<batches, skip, fetchOnly, runOnly>>

PipelineInit == FetchInit /\ RunInit
PipelineNext ==
    \/ FetchNext /\ UNCHANGED runOnly
    \/ RunNext /\ UNCHANGED fetchOnly
PipelineSpec == PipelineInit /\ [][PipelineNext]_pipelineVars

(* Both schedules tick for ever (FetchFair, RunFair), and a thread that is   *)
(* tried for ever opens in the end.                                          *)
PipelineFair ==
    /\ \A f \in Fetcher :
          /\ WF_pipelineVars(FetcherNext(f) /\ UNCHANGED runOnly)
          /\ \A t \in Thread :
                SF_pipelineVars(/\ \E v \in visit[f] : v.thread = t /\ FetchThread(f, v)
                                /\ UNCHANGED runOnly)
    /\ \A p \in Process :
          /\ WF_pipelineVars(Reap(p) /\ UNCHANGED fetchOnly)
          /\ WF_pipelineVars(RunStep(p) /\ UNCHANGED fetchOnly)
          /\ WF_pipelineVars(~Owned(p) /\ Age(p) /\ UNCHANGED fetchOnly)
PipelineFairSpec == PipelineSpec /\ PipelineFair

----------------------------------------------------------------------------
(* Properties *)

InPending(c) == \E b \in Pending : c \in batches[b].comments

WhereIs(c) ==
    CASE InPending(c) -> "queued"
      [] ~InPending(c) /\ c \in Queued -> "settled"
      [] c \in InHand \ Queued -> "held"
      [] OTHER -> "upstream"

AnsweredFor == {c \in Comment : Kept1(c)}

(* Whatever interleaves, crashes or fails, a comment is never lost between   *)
(* the two programs and never goes back: the pipeline implements Custody.    *)
Promise == INSTANCE Custody WITH place <- [c \in Comment |-> WhereIs(c)], kept <- AnsweredFor
KeepsCustody == Promise!CustodySpec

(* Every comment that is written and passes the first prefilter is answered  *)
(* for in the end, and off the queue.                                        *)
EveryCommentSettles ==
    \A c \in Kept : c \in posted ~> (WhereIs(c) = "settled" /\ c \in AnsweredFor)
=============================================================================
