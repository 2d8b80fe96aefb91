---------------------------- MODULE MCPlanItems -----------------------------
(* Symmetry of the items for TLC.                                          *)
EXTENDS PlanItems, TLC

Perms == Permutations(Items)
=============================================================================
