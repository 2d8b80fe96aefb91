----------------------------- MODULE MCResearch -----------------------------
(* Small instances of Research for TLC.                                    *)
EXTENDS Research, TLC

(* A card that covers the claim comes with a conflict or without one; what *)
(* a search or a read finds is recorded by the web tools.                  *)
Nothing == [queries |-> {}, reads |-> {}, validation |-> {}, ok |-> FALSE, covers |-> {}, opens |-> {}, closes |-> {}]
ProposalsMC ==
  {[Nothing EXCEPT !.closes = Claims],
   [Nothing EXCEPT !.validation = Urls, !.ok = TRUE, !.covers = Claims, !.opens = Claims]}
NotesMC == [page : Urls, covers : {Claims}]

AllocatedMC == [searches |-> 2, reads |-> 1, validation |-> 1]
ShareMC     == [searches |-> 1, reads |-> 0, validation |-> 0]

Symmetry == Permutations(Queries) \cup Permutations(Branches) \cup Permutations(Procs) \cup Permutations(Ops)
=============================================================================
