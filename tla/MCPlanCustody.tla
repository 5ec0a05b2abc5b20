---------------------------- MODULE MCPlanCustody ----------------------------
(***************************************************************************)
(* Two files of one case with the same content, two workers, each command    *)
(* claimed twice before it is dead.                                          *)
(***************************************************************************)
EXTENDS PlanCustody

CONSTANTS f1, f2, c1, x, w1, w2

SameContent == [f \in Files |-> x]
=============================================================================
