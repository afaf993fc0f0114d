------------------------------ MODULE MCSchema ------------------------------
(***************************************************************************)
(* The tables and builds of the small instances of Schema: the second      *)
(* build adds a column in place to one table and reshapes both, and the    *)
(* third reshapes them again.                                              *)
(***************************************************************************)
EXTENDS Schema

TableShapes == [b \in 1..Builds |-> [t \in Tables |-> {<<"key", b>>, <<"tag", 0>>}]]
AlteredIn == [b \in 1..Builds |-> [t \in Tables |-> IF b = 1 THEN {} ELSE {<<"tag", 0>>}]]
OneVersion == [b \in 1..Builds |-> 1]
=============================================================================
