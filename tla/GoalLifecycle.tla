---------------------------- MODULE GoalLifecycle ----------------------------
(***************************************************************************)
(* What the goal ledger promises to its users, whatever process they are   *)
(* in: one ledger, changed by one tool or command at a time.               *)
(***************************************************************************)
EXTENDS GoalLedger

VARIABLE ledger

Init == ledger = EmptyLedger

Next == Mutation(ledger, ledger')

Spec == Init /\ [][Next]_ledger
=============================================================================
