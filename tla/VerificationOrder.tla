-------------------------- MODULE VerificationOrder --------------------------
(***************************************************************************)
(* The execution clock of the verification gate                            *)
(* (harness/lib/verification-order.ts, class VerificationOrderClock).      *)
(*                                                                         *)
(* The host may run the tool calls of one assistant message concurrently,  *)
(* so the order of the transcript says nothing about the order of the file *)
(* system.  The clock stamps the start and the end of every call and lets  *)
(* a passing gate count only when it started after the last source         *)
(* mutation ended and no mutation is pending.                              *)
(*                                                                         *)
(* A clock is a record and each method an operator from clock to clock:    *)
(* two handlers call several methods in one step, which is then function   *)
(* application.  Every method is total; the code's early returns (`null`)  *)
(* leave the clock as it was.                                              *)
(***************************************************************************)
EXTENDS Naturals, Sequences, FiniteSets

CONSTANTS Calls,         \* the ids of tool calls
          MaxPending,    \* 512 in the code
          MaxCompleted   \* 2048 in the code

ASSUME CallsFinite   == IsFiniteSet(Calls)
ASSUME ClockCapacity == MaxPending \in Nat \ {0} /\ MaxCompleted \in Nat \ {0}

Kinds == {"source_mutation", "verification", "other"}

NotPending == [kind |-> "none", started |-> 0]

(* pending maps a call to its kind and start stamp; boundary 0 stands for  *)
(* a latestMutationBoundary of null, which no stamp ever equals.           *)
Clocks == [sequence: Nat, boundary: Nat, pendingMutations: Nat,
           pending: [Calls -> [kind: Kinds \cup {"none"}, started: Nat]],
           completed: Seq(Calls)]

NewClock == [sequence |-> 0, boundary |-> 0, pendingMutations |-> 0,
             pending |-> [c \in Calls |-> NotPending], completed |-> <<>>]

IsPending(clk, c)      == clk.pending[c].kind # "none"
HasCompleted(clk, c)   == \E i \in 1..Len(clk.completed) : clk.completed[i] = c
HasPendingMutations(clk) == clk.pendingMutations > 0
KindFor(clk, c)        == clk.pending[c].kind

PendingCalls(p) == {c \in Calls : p[c].kind # "none"}

(* A Map keeps insertion order and a start stamp is fresh, so the oldest   *)
(* entry is the one with the least stamp.                                  *)
IsOldest(p, c) == /\ c \in PendingCalls(p)
                  /\ \A d \in PendingCalls(p) : p[c].started =< p[d].started

(* Mutant: a map that is never trimmed.                                    *)
TrimPendingNever(p) == p

(* A method adds one entry, so the `while` of trim() turns at most once.   *)
TrimPending(p) ==
  IF Cardinality(PendingCalls(p)) > MaxPending
    THEN [p EXCEPT ![CHOOSE c \in Calls : IsOldest(p, c)] = NotPending]
    ELSE p

Complete(clk, c) ==
  LET s == Append(clk.completed, c)
  IN  IF Len(s) > MaxCompleted THEN Tail(s) ELSE s

CanStart(clk, c)  == ~ IsPending(clk, c) /\ ~ HasCompleted(clk, c)
CanSettle(clk, c) == IsPending(clk, c) /\ ~ HasCompleted(clk, c)

(* Mutant: every settled call is taken off the count, mutation or not.     *)
OneMutationLessForAny(clk, c) ==
  IF clk.pendingMutations > 0 THEN clk.pendingMutations - 1 ELSE 0

(* pendingMutations = Math.max(0, pendingMutations - 1) for a mutation.    *)
OneMutationLess(clk, c) ==
  IF KindFor(clk, c) = "source_mutation" /\ clk.pendingMutations > 0
    THEN clk.pendingMutations - 1
    ELSE clk.pendingMutations

Start(clk, c, kind) ==
  IF CanStart(clk, c)
    THEN [clk EXCEPT
            !.sequence = @ + 1,
            !.pending = TrimPending([@ EXCEPT ![c] =
                          [kind |-> kind, started |-> clk.sequence + 1]]),
            !.pendingMutations = IF kind = "source_mutation" THEN @ + 1 ELSE @]
    ELSE clk

(* A call refused before its implementation ran: the boundary stays.       *)
Prevent(clk, c) ==
  IF CanSettle(clk, c)
    THEN [clk EXCEPT !.pending[c] = NotPending,
                     !.completed = Complete(clk, c),
                     !.pendingMutations = OneMutationLess(clk, c)]
    ELSE clk

Finish(clk, c) ==
  IF CanSettle(clk, c)
    THEN [clk EXCEPT !.pending[c] = NotPending,
                     !.completed = Complete(clk, c),
                     !.sequence = @ + 1,
                     !.pendingMutations = OneMutationLess(clk, c),
                     !.boundary = IF KindFor(clk, c) = "source_mutation"
                                    THEN clk.sequence + 1 ELSE @]
    ELSE clk

(* Mutant: the boundary is not compared with the start of the gate.        *)
VerificationOrderedByCount(clk, c) ==
  KindFor(clk, c) = "verification" /\ clk.pendingMutations = 0

(* verificationOrdered of the outcome finish() returns for a gate.         *)
VerificationOrdered(clk, c) ==
  /\ KindFor(clk, c) = "verification"
  /\ clk.pendingMutations = 0
  /\ clk.pending[c].started > clk.boundary
=============================================================================
