--------------------------- MODULE MCContinuation ---------------------------
(* Two producers, the first of which goes first.                           *)
EXTENDS ContinuationHistory, TLC

CONSTANTS goal, compact

MCProducers == {goal, compact}
MCPriority  == goal :> 500 @@ compact :> 400
Perms == Permutations(Flushes) \cup Permutations(Sessions)
=============================================================================
