---------------------------- MODULE MCRunCapsule ----------------------------
(* A small instance of RunCapsule for TLC. *)
EXTENDS RunCapsule
=============================================================================
