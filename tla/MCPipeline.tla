----------------------------- MODULE MCPipeline -----------------------------
(* Comments a and b of one thread say the same thing.                        *)
EXTENDS Pipeline
CONSTANTS a, b, t1
OneThread == [x \in Comment |-> t1]
Texts == [x \in Comment |-> "same"]
Empty == <<>>
=============================================================================
