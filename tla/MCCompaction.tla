---------------------------- MODULE MCCompaction ----------------------------
(* A small instance of Compaction for TLC: one model with a large window,  *)
(* of which its server has less, and one with a small window.              *)
EXTENDS Compaction, TLC

CONSTANTS m1, m2, large, small

SafeMC     == (large :> 5) @@ (small :> 3)
MarginMC   == (1 :> 1) @@ (3 :> 1)
DeclaredMC == (m1 :> large) @@ (m2 :> small)
ServedMC   == (m1 :> small) @@ (m2 :> small)

Symmetry == Permutations(Calls)
=============================================================================
