------------------------------- MODULE MCPlan -------------------------------
(* Three sources, in the order of their names, for a plan on its own. *)
EXTENDS Plan
MCPlanned == <<"a", "b", "h">>
=============================================================================
