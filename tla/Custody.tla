------------------------------- MODULE Custody -------------------------------
(***************************************************************************)
(* What ingestion and the pipeline promise together for a comment: it goes *)
(* forward from the platform to a worker's hands, to the queue, and out of *)
(* the queue only once the archive kept its text or the prefilter counted  *)
(* it out.                                                                 *)
(***************************************************************************)
CONSTANT Comment

VARIABLES place,  \* where a comment is
          kept    \* comments the archive or the prefilter answered for

custodyVars == <<place, kept>>
At(x) == {c \in Comment : place[c] = x}
Move(cs, x) == place' = [c \in Comment |-> IF c \in cs THEN x ELSE place[c]]

CustodyInit == place = [c \in Comment |-> "upstream"] /\ kept = {}

Hold == \E c \in At("upstream") : Move({c}, "held") /\ UNCHANGED kept
Hand == \E cs \in SUBSET At("held") : Move(cs, "queued") /\ UNCHANGED kept
(* Other comments with the same text are answered for too.                  *)
Keep == \E c \in At("queued") : \E cs \in SUBSET Comment :
            kept' = kept \cup cs \cup {c} /\ UNCHANGED place
Settle == \E cs \in SUBSET (At("queued") \cap kept) : Move(cs, "settled") /\ UNCHANGED kept

CustodyNext == Hold \/ Hand \/ Keep \/ Settle
CustodySpec == CustodyInit /\ [][CustodyNext]_custodyVars
=============================================================================
