-------------------------------- MODULE Queue --------------------------------
(***************************************************************************)
(* The two tables the Go worker and the Python pipeline share: the queue   *)
(* ingest_batch, and the fingerprint skip-list ingested_comments.  Every   *)
(* operator here is one committed statement.                               *)
(***************************************************************************)
EXTENDS Naturals, Sequences, FiniteSets

CONSTANTS Comment,   \* comments, by fingerprint
          Thread,    \* discussion threads
          ThreadOf   \* the thread a comment belongs to

ASSUME QueueAssumption == IsFiniteSet(Comment) /\ ThreadOf \in [Comment -> Thread]

VARIABLES batches,  \* ingest_batch, by row id
          skip      \* ingested_comments

Batch == [comments : SUBSET Comment, status : {"pending", "done"}]

Pending == {b \in DOMAIN batches : batches[b].status = "pending"}
Done == DOMAIN batches \ Pending
InThread(t) == {c \in Comment : ThreadOf[c] = t}

EnqueueBatch(cs) == batches' = Append(batches, [comments |-> cs, status |-> "pending"])
MarkProcessed(b) == batches' = [batches EXCEPT ![b].status = "done"]
MarkIngested(cs) == skip' = skip \cup cs

QueueTypeOK == batches \in Seq(Batch) /\ skip \subseteq Comment
=============================================================================
