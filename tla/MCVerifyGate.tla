---------------------------- MODULE MCVerifyGate ----------------------------
(* A small instance of VerifyGate for TLC. *)
EXTENDS VerifyGate, TLC

Perms == Permutations(Calls)
=============================================================================
