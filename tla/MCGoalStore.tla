---------------------------- MODULE MCGoalStore ----------------------------
(* Symmetry of processes and goal ids for TLC.                             *)
EXTENDS GoalStore, TLC

Perms == Permutations(Ids) \cup Permutations(Procs)
=============================================================================
