------------------------------ MODULE MCFetch ------------------------------
(* Two threads: a, b and c (which the prefilter drops) in t1, d in t2.       *)
EXTENDS Fetch
CONSTANTS a, b, c, d, t1, t2
Home == [x \in Comment |-> IF x = d THEN t2 ELSE t1]
=============================================================================
