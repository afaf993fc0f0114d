----------------------------- MODULE MCJournal -----------------------------
(* An editor may write while nothing runs, and between the readings of the  *)
(* file by an export; not in the instants between other commands' readings. *)
EXTENDS Journal, TLC

Slow == {"idle", "export-read", "export-hash", "export-write", "approve-record", "post-send", "post-record"}
Symmetric == Permutations(Text) \cup Permutations(Body)
=============================================================================
