--------------------------- MODULE MCIdeaArchive ---------------------------
(* Parity: the odd nuggets are thread 1, the even ones thread 2, so four     *)
(* nuggets are two groups, one of which can be merged into the other's idea. *)
(* OneThread with a cap of two gives two slices, the second one of three.    *)
EXTENDS IdeaArchive, TLC

Parity == [n \in Nugget |-> n % 2]
OneThread == [n \in Nugget |-> 1]
WorkerSymmetry == Permutations(Worker)
=============================================================================
