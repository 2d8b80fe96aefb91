---------------------------- MODULE MCGateReuse -----------------------------
(* Symmetry of verify_project calls, writers and contents for TLC.         *)
EXTENDS GateReuse, TLC

Perms == Permutations(Gates) \cup Permutations(Writers) \cup Permutations(Visible)
           \cup Permutations(Ignored)
=============================================================================
