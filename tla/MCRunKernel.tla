---------------------------- MODULE MCRunKernel ----------------------------
(* A small instance of RunKernel for TLC. *)
EXTENDS RunKernel, TLC

NoPlan      == [active |-> FALSE, open |-> Unknown, blocked |-> 0]
ClosedPlan  == [active |-> TRUE, open |-> 0, blocked |-> 0]
BlockedPlan == [active |-> TRUE, open |-> 1, blocked |-> 1]
PlansMC     == {NoPlan, ClosedPlan, BlockedPlan}

Symmetry == Permutations(Calls)
=============================================================================
