------------------------------ MODULE GateProofs -----------------------------
(***************************************************************************)
(* Proofs about the verification gate: type correctness, and the three     *)
(* safety invariants GreenIsFresh, HandoffSound and NoGreenWhileOwed, for  *)
(* any set of calls and any capacity of the clock; and about the reuse of  *)
(* its results, for any number of concurrent calls and writers.            *)
(***************************************************************************)
EXTENDS VerifyGate, GateReuse, TLAPS, FiniteSetTheorems, WellFoundedInduction

(* A call that wrote, as far as a gate result could still depend on it.    *)
HasWritten(c) == c \in stale \/ \E g \in Calls : c \in since[g]

(* A call the gate has still to hear of, from an end event or turn_end.    *)
Unreported(c) == /\ c \in turnCalls /\ ~ HasCompleted(clock, c)
                 /\ turnPhase = "open" \/ c \in todo

(* How far a call has got agrees with the events seen of it.               *)
CallsInv ==
  \A c \in Calls :
    /\ phase[c] = "idle" => c \notin turnCalls /\ ~ IsPending(clock, c)
    /\ phase[c] \in {"issued", "running"} => c \in turnCalls /\ turnPhase = "open"
    /\ c \in ended => phase[c] \in {"returned", "refused"}
    /\ HasWritten(c) => phase[c] \in {"running", "returned"} /\ IsMutation(c)
    /\ since[c] # {} => phase[c] \in {"running", "returned"}
    /\ c \in preventedBeforeStart => phase[c] = "refused"
    /\ c \in started => phase[c] # "idle"
    /\ IsPending(clock, c) =>
         KindFor(clock, c) \in {StartKind(tool[c]), ClassifyStart(tool[c])}
    /\ IsPending(clock, c) /\ c \notin started =>
         c \notin turnCalls \/ (turnPhase = "ending" /\ c \notin todo)
    /\ HasCompleted(clock, c) =>
         c \in started /\ (c \in ended \/ phase[c] = "refused")
    /\ IsPending(clock, c) => ~ HasCompleted(clock, c)

(* pendingMutations counts at least the mutations that are owed.           *)
CountInv ==
  /\ clock.pendingMutations >= Cardinality(owed)
  /\ \A c \in Calls : KindFor(clock, c) = "source_mutation" => c \in owed
  /\ \A c \in started \ ended :
       c \in turnCalls /\ IsMutation(c) /\ phase[c] # "refused" => c \in owed
  /\ verifiedOk => clock.pendingMutations = 0
  /\ mutationEpochBaseline.live => clock.pendingMutations > 0

(* A pending gate run that a write overtook cannot be accepted: the write  *)
(* has moved the boundary past its start, or is still owed, or is unseen.  *)
OrderInv ==
  /\ clock.boundary =< clock.sequence
  /\ \A c \in Calls : IsPending(clock, c) => clock.pending[c].started =< clock.sequence
  /\ turnPhase = "open" =>
       \A g \in started \cap turnCalls : \A c \in since[g] :
         KindFor(clock, g) = "verification" =>
           \/ clock.pending[g].started =< clock.boundary
           \/ c \in owed
           \/ Unseen(c)

(* The baseline comes back unless a mutation of its epoch counts.          *)
Restorable == mutationEpochBaseline.live /\ ~ mutationEpochChanged

(* The green, the one that may be restored, and the two mutated bits, for  *)
(* every stale write but those of failed edits.                            *)
GreenInv ==
  \A c \in stale \ failedEdits :
    /\ verifiedOk => Unseen(c)
    /\ Restorable /\ mutationEpochBaseline.verifiedOk => c \in owed \/ Unseen(c)
    /\ mutated \/ Unreported(c)
    /\ Restorable => mutationEpochBaseline.mutated \/ c \in owed \/ Unreported(c)

IInv == TypeOK /\ CallsInv /\ CountInv /\ OrderInv /\ GreenInv

-----------------------------------------------------------------------------
(* The clock.                                                              *)

(* Every nonempty set of stamps has a least one, so trim() finds an oldest *)
(* entry to drop.                                                          *)
LEMMA LeastStamp ==
  ASSUME NEW S \in SUBSET Nat, S # {}
  PROVE  \E x \in S : \A y \in S : x =< y
<1> DEFINE Less == {ss \in Nat \X Nat : ss[1] < ss[2]}
<1>1. IsWellFoundedOn(Less, Nat)
  BY NatLessThanWellFounded DEF OpToRel
<1>2. PICK x \in S : \A y \in S : ~ (<<y, x>> \in Less)
  <2> HIDE DEF Less
  <2> QED BY <1>1, WFMin, Zenon
<1>3. \A y \in S : y < x => <<y, x>> \in Less
  OBVIOUS
<1> HIDE DEF Less
<1>4. \A y \in S : ~ (y < x)
  BY <1>2, <1>3
<1> QED BY <1>4

(* The entries of a map of pending calls.                                  *)
Pendings == [Calls -> [kind: Kinds \cup {"none"}, started: Nat]]

(* trim() drops at most one entry, and one when the map has one too many.  *)
LEMMA TrimFacts ==
  ASSUME NEW p \in Pendings, Cardinality(PendingCalls(p)) =< MaxPending + 1
  PROVE  /\ TrimPending(p) \in Pendings
         /\ \A d \in Calls : TrimPending(p)[d] \in {p[d], NotPending}
         /\ Cardinality(PendingCalls(TrimPending(p))) =< MaxPending
<1>1. NotPending \in [kind: Kinds \cup {"none"}, started: Nat]
  BY DEF NotPending
<1>2. IsFiniteSet(PendingCalls(p)) /\ Cardinality(PendingCalls(p)) \in Nat
  BY CallsFinite, FS_Subset, FS_CardinalityType DEF PendingCalls
<1>3. CASE Cardinality(PendingCalls(p)) =< MaxPending
  BY <1>2, <1>3, ClockCapacity DEF TrimPending
<1>4. CASE Cardinality(PendingCalls(p)) > MaxPending
  <2> DEFINE oldest == CHOOSE c \in Calls : IsOldest(p, c)
  <2>1. PendingCalls(p) # {}
    BY <1>4, FS_EmptySet, ClockCapacity
  <2>2. \E c \in Calls : IsOldest(p, c)
    <3> DEFINE S == {p[c].started : c \in PendingCalls(p)}
    <3>0. \A c \in PendingCalls(p) : p[c].started \in Nat
      BY DEF Pendings, PendingCalls
    <3>1. S \in SUBSET Nat /\ S # {}
      BY <2>1, <3>0
    <3>2. PICK x \in S : \A y \in S : x =< y
      BY <3>1, LeastStamp
    <3>3. PICK c \in PendingCalls(p) : x = p[c].started
      BY <3>2
    <3>4. \A d \in PendingCalls(p) : p[c].started =< p[d].started
      BY <3>2, <3>3
    <3> QED BY <3>4, <3>3 DEF IsOldest, PendingCalls
  <2>3. oldest \in Calls /\ oldest \in PendingCalls(p)
    BY <2>2 DEF IsOldest
  <2>4. TrimPending(p) = [p EXCEPT ![oldest] = NotPending]
    BY <1>2, <1>4, ClockCapacity DEF TrimPending
  <2> HIDE DEF oldest
  <2>5. PendingCalls([p EXCEPT ![oldest] = NotPending]) = PendingCalls(p) \ {oldest}
    BY <2>3 DEF PendingCalls, Pendings, NotPending
  <2>6. Cardinality(PendingCalls(p) \ {oldest}) = Cardinality(PendingCalls(p)) - 1
    BY <1>2, <2>3, FS_RemoveElement
  <2>7. [p EXCEPT ![oldest] = NotPending] \in Pendings
    BY <1>1 DEF Pendings
  <2>8. \A d \in Calls : [p EXCEPT ![oldest] = NotPending][d] \in {p[d], NotPending}
    BY DEF Pendings
  <2>9. Cardinality(PendingCalls(TrimPending(p))) = Cardinality(PendingCalls(p)) - 1
    BY <2>4, <2>5, <2>6, Zenon
  <2> QED BY <1>2, <2>4, <2>7, <2>8, <2>9, ClockCapacity
<1> QED BY <1>2, <1>3, <1>4, ClockCapacity
LEMMA CompletedFacts ==
  ASSUME NEW clk \in Clocks, NEW c \in Calls, Len(clk.completed) =< MaxCompleted
  PROVE  /\ Complete(clk, c) \in Seq(Calls)
         /\ Len(Complete(clk, c)) =< MaxCompleted
         /\ \A i \in 1..Len(Complete(clk, c)) :
              Complete(clk, c)[i] = c \/ HasCompleted(clk, Complete(clk, c)[i])
<1> DEFINE s == Append(clk.completed, c)
<1>1. clk.completed \in Seq(Calls)
  BY DEF Clocks
<1>2. /\ s \in Seq(Calls) /\ Len(s) = Len(clk.completed) + 1
      /\ \A i \in 1..Len(s) : s[i] = c \/ HasCompleted(clk, s[i])
  BY <1>1 DEF HasCompleted
<1> HIDE DEF s
<1>3. CASE Len(s) > MaxCompleted
  <2>1. /\ Tail(s) \in Seq(Calls) /\ Len(Tail(s)) = Len(s) - 1
        /\ \A i \in 1..Len(Tail(s)) : i + 1 \in 1..Len(s) /\ Tail(s)[i] = s[i + 1]
    BY <1>2, <1>3, ClockCapacity
  <2>2. Complete(clk, c) = Tail(s)
    BY <1>3 DEF Complete, s
  <2> QED BY <1>1, <1>2, <2>1, <2>2, ClockCapacity
<1>4. CASE ~ (Len(s) > MaxCompleted)
  <2>1. Complete(clk, c) = s
    BY <1>4 DEF Complete, s
  <2> QED BY <1>1, <1>2, <1>4, <2>1, ClockCapacity
<1> QED BY <1>3, <1>4

(* A clock within its bounds.                                              *)
GoodClock(clk) == /\ clk \in Clocks
                  /\ Cardinality(PendingCalls(clk.pending)) =< MaxPending
                  /\ Len(clk.completed) =< MaxCompleted

(* start() adds the call, counts a mutation and may trim another entry.    *)
LEMMA StartFacts ==
  ASSUME NEW clk, GoodClock(clk), NEW c \in Calls, NEW kind \in Kinds
  PROVE  /\ GoodClock(Start(clk, c, kind))
         /\ Start(clk, c, kind).completed = clk.completed
         /\ Start(clk, c, kind).boundary = clk.boundary
         /\ Start(clk, c, kind).sequence =
              IF CanStart(clk, c) THEN clk.sequence + 1 ELSE clk.sequence
         /\ Start(clk, c, kind).pendingMutations =
              IF CanStart(clk, c) /\ kind = "source_mutation"
                THEN clk.pendingMutations + 1 ELSE clk.pendingMutations
         /\ \A d \in Calls :
              \/ Start(clk, c, kind).pending[d] \in {clk.pending[d], NotPending}
              \/ /\ d = c /\ CanStart(clk, c)
                 /\ Start(clk, c, kind).pending[d] =
                      [kind |-> kind, started |-> clk.sequence + 1]
<1> DEFINE entry == [kind |-> kind, started |-> clk.sequence + 1]
           p == [clk.pending EXCEPT ![c] = entry]
<1>1. /\ clk.pending \in Pendings /\ clk.sequence \in Nat /\ clk.boundary \in Nat
      /\ clk.pendingMutations \in Nat /\ clk.completed \in Seq(Calls)
  BY DEF GoodClock, Clocks, Pendings
<1>2. CASE ~ CanStart(clk, c)
  BY <1>1, <1>2 DEF Start, GoodClock
<1>3. CASE CanStart(clk, c)
  <2>1. entry \in [kind: Kinds \cup {"none"}, started: Nat] /\ p \in Pendings
    BY <1>1 DEF Pendings
  <2>2. PendingCalls(p) = PendingCalls(clk.pending) \cup {c}
    BY <1>1 DEF PendingCalls, Pendings, Kinds
  <2>3. IsFiniteSet(PendingCalls(clk.pending))
    BY CallsFinite, FS_Subset DEF PendingCalls
  <2>4. Cardinality(PendingCalls(clk.pending)) \in Nat
    BY <2>3, FS_CardinalityType
  <2>5. Cardinality(PendingCalls(clk.pending) \cup {c}) =< MaxPending + 1
    <3> DEFINE S == PendingCalls(clk.pending)
    <3>1. IsFiniteSet(S) /\ Cardinality(S) \in Nat /\ Cardinality(S) =< MaxPending
      BY <2>3, <2>4 DEF GoodClock
    <3> HIDE DEF S
    <3>2. Cardinality(S \cup {c}) = IF c \in S THEN Cardinality(S) ELSE Cardinality(S) + 1
      BY <3>1, FS_AddElement
    <3>3. Cardinality(S \cup {c}) =< MaxPending + 1
      BY <3>1, <3>2, ClockCapacity
    <3> QED BY <3>3 DEF S
  <2>6. Cardinality(PendingCalls(p)) =< MaxPending + 1
    BY <2>2, <2>5, Zenon
  <2> HIDE DEF p
  <2>7. /\ TrimPending(p) \in Pendings
        /\ \A d \in Calls : TrimPending(p)[d] \in {p[d], NotPending}
        /\ Cardinality(PendingCalls(TrimPending(p))) =< MaxPending
    BY <2>1, <2>6, TrimFacts
  <2>8. \A d \in Calls : p[d] = IF d = c THEN entry ELSE clk.pending[d]
    BY <1>1 DEF p, Pendings
  <2>9. Start(clk, c, kind) =
          [sequence |-> clk.sequence + 1, boundary |-> clk.boundary,
           pendingMutations |-> IF kind = "source_mutation"
                                  THEN clk.pendingMutations + 1
                                  ELSE clk.pendingMutations,
           pending |-> TrimPending(p), completed |-> clk.completed]
    BY <1>3 DEF Start, GoodClock, Clocks, p
  <2>10. GoodClock(Start(clk, c, kind))
    BY <1>1, <2>7, <2>9 DEF GoodClock, Clocks, Pendings
  <2> QED BY <1>3, <2>7, <2>8, <2>9, <2>10
<1> QED BY <1>2, <1>3

(* What prevent() and finish() have in common: the entry goes, the call is *)
(* completed, and a mutation is counted once less.                         *)
Settled(clk, c, seq, bound) ==
  [sequence |-> seq, boundary |-> bound,
   pendingMutations |-> OneMutationLess(clk, c),
   pending |-> [clk.pending EXCEPT ![c] = NotPending],
   completed |-> Complete(clk, c)]

LEMMA SettleFacts ==
  ASSUME NEW clk, GoodClock(clk), NEW c \in Calls, NEW seq \in Nat, NEW bound \in Nat
  PROVE  /\ GoodClock(Settled(clk, c, seq, bound))
         /\ \A d \in Calls : Settled(clk, c, seq, bound).pending[d] =
              IF d = c THEN NotPending ELSE clk.pending[d]
         /\ \A d \in Calls : HasCompleted(Settled(clk, c, seq, bound), d) =>
              d = c \/ HasCompleted(clk, d)
<1> DEFINE clkAfter == Settled(clk, c, seq, bound)
           p == [clk.pending EXCEPT ![c] = NotPending]
<1>1. /\ clk \in Clocks /\ clk.pending \in Pendings /\ clk.pendingMutations \in Nat
      /\ Cardinality(PendingCalls(clk.pending)) =< MaxPending
      /\ Len(clk.completed) =< MaxCompleted
  BY DEF GoodClock, Clocks, Pendings
<1>2. NotPending \in [kind: Kinds \cup {"none"}, started: Nat]
  BY DEF NotPending
<1>3. p \in Pendings /\ \A d \in Calls : p[d] = IF d = c THEN NotPending ELSE clk.pending[d]
  BY <1>1, <1>2 DEF Pendings
<1> HIDE DEF p
<1>4. PendingCalls(p) \subseteq PendingCalls(clk.pending)
  BY <1>1, <1>3 DEF PendingCalls, NotPending
<1>5. Cardinality(PendingCalls(p)) =< MaxPending
  <2>1. IsFiniteSet(PendingCalls(clk.pending))
    BY CallsFinite, FS_Subset DEF PendingCalls
  <2>2. /\ Cardinality(PendingCalls(p)) =< Cardinality(PendingCalls(clk.pending))
        /\ IsFiniteSet(PendingCalls(p))
    BY <1>4, <2>1, FS_Subset
  <2>3. /\ Cardinality(PendingCalls(p)) \in Nat
        /\ Cardinality(PendingCalls(clk.pending)) \in Nat
    BY <2>1, <2>2, FS_CardinalityType
  <2> QED BY <1>1, <2>2, <2>3, ClockCapacity
<1>6. /\ Complete(clk, c) \in Seq(Calls) /\ Len(Complete(clk, c)) =< MaxCompleted
      /\ \A i \in 1..Len(Complete(clk, c)) :
           Complete(clk, c)[i] = c \/ HasCompleted(clk, Complete(clk, c)[i])
  BY <1>1, CompletedFacts
<1>7. OneMutationLess(clk, c) \in Nat
  BY <1>1 DEF OneMutationLess
<1>8. /\ clkAfter.pending = p /\ clkAfter.completed = Complete(clk, c)
      /\ clkAfter.sequence = seq /\ clkAfter.boundary = bound
      /\ clkAfter.pendingMutations = OneMutationLess(clk, c)
  BY DEF p, Settled
<1> HIDE DEF clkAfter
<1>9. GoodClock(clkAfter)
  <2>1. clkAfter \in Clocks
    BY <1>3, <1>6, <1>7 DEF Clocks, Pendings, p, Settled, clkAfter
  <2> QED BY <1>5, <1>6, <1>8, <2>1 DEF GoodClock
<1>10. \A d \in Calls : HasCompleted(clkAfter, d) => d = c \/ HasCompleted(clk, d)
  BY <1>6, <1>8 DEF HasCompleted
<1> QED BY <1>3, <1>8, <1>9, <1>10 DEF clkAfter

LEMMA PreventFacts ==
  ASSUME NEW clk, GoodClock(clk), NEW c \in Calls
  PROVE  /\ GoodClock(Prevent(clk, c))
         /\ Prevent(clk, c).sequence = clk.sequence
         /\ Prevent(clk, c).boundary = clk.boundary
         /\ Prevent(clk, c).pendingMutations =
              IF CanSettle(clk, c) THEN OneMutationLess(clk, c) ELSE clk.pendingMutations
         /\ \A d \in Calls : Prevent(clk, c).pending[d] =
              IF d = c /\ CanSettle(clk, c) THEN NotPending ELSE clk.pending[d]
         /\ \A d \in Calls : HasCompleted(Prevent(clk, c), d) =>
              (d = c /\ CanSettle(clk, c)) \/ HasCompleted(clk, d)
<1>1. CASE ~ CanSettle(clk, c)
  BY <1>1 DEF Prevent
<1>2. CASE CanSettle(clk, c)
  <2>1. clk.sequence \in Nat /\ clk.boundary \in Nat /\ clk \in Clocks
    BY DEF GoodClock, Clocks
  <2>2. Prevent(clk, c) = Settled(clk, c, clk.sequence, clk.boundary)
    BY <1>2, <2>1 DEF Prevent, Clocks, Settled
  <2>3. /\ GoodClock(Settled(clk, c, clk.sequence, clk.boundary))
        /\ \A d \in Calls : Settled(clk, c, clk.sequence, clk.boundary).pending[d] =
             IF d = c THEN NotPending ELSE clk.pending[d]
        /\ \A d \in Calls : HasCompleted(Settled(clk, c, clk.sequence, clk.boundary), d) =>
             d = c \/ HasCompleted(clk, d)
    BY <2>1, SettleFacts
  <2> QED BY <1>2, <2>2, <2>3 DEF Settled
<1> QED BY <1>1, <1>2

LEMMA FinishFacts ==
  ASSUME NEW clk, GoodClock(clk), NEW c \in Calls
  PROVE  /\ GoodClock(Finish(clk, c))
         /\ Finish(clk, c).sequence =
              IF CanSettle(clk, c) THEN clk.sequence + 1 ELSE clk.sequence
         /\ Finish(clk, c).boundary =
              IF CanSettle(clk, c) /\ KindFor(clk, c) = "source_mutation"
                THEN clk.sequence + 1 ELSE clk.boundary
         /\ Finish(clk, c).pendingMutations =
              IF CanSettle(clk, c) THEN OneMutationLess(clk, c) ELSE clk.pendingMutations
         /\ \A d \in Calls : Finish(clk, c).pending[d] =
              IF d = c /\ CanSettle(clk, c) THEN NotPending ELSE clk.pending[d]
         /\ \A d \in Calls : HasCompleted(Finish(clk, c), d) =>
              (d = c /\ CanSettle(clk, c)) \/ HasCompleted(clk, d)
<1>1. CASE ~ CanSettle(clk, c)
  BY <1>1 DEF Finish
<1>2. CASE CanSettle(clk, c)
  <2> DEFINE bound == IF KindFor(clk, c) = "source_mutation"
                        THEN clk.sequence + 1 ELSE clk.boundary
  <2>1. clk.sequence + 1 \in Nat /\ bound \in Nat /\ clk \in Clocks
    BY DEF GoodClock, Clocks
  <2>2. Finish(clk, c) = Settled(clk, c, clk.sequence + 1, bound)
    BY <1>2, <2>1 DEF Finish, Clocks, Settled
  <2>3. /\ GoodClock(Settled(clk, c, clk.sequence + 1, bound))
        /\ \A d \in Calls : Settled(clk, c, clk.sequence + 1, bound).pending[d] =
             IF d = c THEN NotPending ELSE clk.pending[d]
        /\ \A d \in Calls : HasCompleted(Settled(clk, c, clk.sequence + 1, bound), d) =>
             d = c \/ HasCompleted(clk, d)
    <3> HIDE DEF bound
    <3> QED BY <2>1, SettleFacts
  <2> QED BY <1>2, <2>2, <2>3 DEF Settled
<1> QED BY <1>1, <1>2

-----------------------------------------------------------------------------
(* The invariant holds at the start.                                       *)
LEMMA InitIInv == Init => IInv
<1> SUFFICES ASSUME Init PROVE IInv
  OBVIOUS
<1>1. /\ NewClock \in Clocks /\ PendingCalls(NewClock.pending) = {}
      /\ Len(NewClock.completed) = 0
      /\ \A c \in Calls : /\ ~ IsPending(NewClock, c) /\ ~ HasCompleted(NewClock, c)
                           /\ KindFor(NewClock, c) = "none"
  BY DEF NewClock, Clocks, NotPending, PendingCalls, IsPending, HasCompleted, KindFor
<1>2. Cardinality({}) = 0
  BY FS_EmptySet
<1>3. TypeOK
  <2>1. SessionCap \in Nat
    BY FiresLimit, GateFlag DEF SessionCap
  <2>2. NoBaseline \in Baselines
    BY FiresLimit DEF NoBaseline, Baselines
  <2>3. /\ clock \in Clocks /\ Cardinality(PendingCalls(clock.pending)) =< MaxPending
        /\ Len(clock.completed) =< MaxCompleted
    BY <1>1, <1>2, ClockCapacity DEF Init
  <2>4. 0 \in 0..MaxFires /\ 0 \in 0..SessionCap
    BY <2>1, FiresLimit
  <2> QED BY <2>2, <2>3, <2>4 DEF Init, TypeOK, Phases, AllTools
<1>4. CallsInv
  BY <1>1 DEF Init, CallsInv, HasWritten, IsPending
<1>5. CountInv
  BY <1>1, <1>2 DEF Init, CountInv, NewClock, NoBaseline
<1>6. OrderInv
  BY <1>1 DEF Init, OrderInv, NewClock
<1>7. GreenInv
  BY DEF Init, GreenInv, NoBaseline
<1> QED BY <1>3, <1>4, <1>5, <1>6, <1>7 DEF IInv

(* Steps that leave the clock, the epoch and the tree alone.               *)
LEMMA IssueIInv ==
  ASSUME IInv, NEW c \in Calls, NEW t \in Tools, Issue(c, t)
  PROVE  IInv'
<1> USE DEF vars, clockVars, stVars, treeVars, hostVars
<1>1. t \in AllTools
  BY ToolsKnown
<1>2. TypeOK'
  BY <1>1 DEF IInv, TypeOK, Issue, Phases, SessionCap
<1>3. CallsInv'
  BY DEF IInv, TypeOK, CallsInv, Issue, HasWritten, IsMutation, IsPending, KindFor
<1>4. CountInv'
  BY DEF IInv, TypeOK, CallsInv, CountInv, Issue, IsMutation, KindFor
<1>5. OrderInv'
  BY DEF IInv, TypeOK, CallsInv, OrderInv, Issue, Unseen, KindFor, IsPending
<1>6. GreenInv'
  BY DEF IInv, TypeOK, CallsInv, GreenInv, Issue, Restorable, Unseen, Unreported
<1> QED BY <1>2, <1>3, <1>4, <1>5, <1>6 DEF IInv

LEMMA RunIInv ==
  ASSUME IInv, NEW c \in Calls, Run(c)
  PROVE  IInv'
<1> USE DEF vars, clockVars, stVars, treeVars, hostVars
<1>2. TypeOK'
  BY DEF IInv, TypeOK, Run, Phases, SessionCap
<1>3. CallsInv'
  BY DEF IInv, TypeOK, CallsInv, Run, HasWritten, IsMutation, IsPending, KindFor
<1>4. CountInv'
  BY DEF IInv, TypeOK, CallsInv, CountInv, Run, IsMutation, KindFor
<1>5. OrderInv'
  BY DEF IInv, TypeOK, CallsInv, OrderInv, Run, Unseen, KindFor, IsPending
<1>6. GreenInv'
  BY DEF IInv, TypeOK, CallsInv, GreenInv, Run, Restorable, Unseen, Unreported
<1> QED BY <1>2, <1>3, <1>4, <1>5, <1>6 DEF IInv

LEMMA ReturnIInv ==
  ASSUME IInv, NEW c \in Calls, Return(c)
  PROVE  IInv'
<1> USE DEF vars, clockVars, stVars, treeVars, hostVars
<1>2. TypeOK'
  BY DEF IInv, TypeOK, Return, Phases, SessionCap
<1>3. CallsInv'
  BY DEF IInv, TypeOK, CallsInv, Return, HasWritten, IsMutation, IsPending, KindFor
<1>4. CountInv'
  BY DEF IInv, TypeOK, CallsInv, CountInv, Return, IsMutation, KindFor
<1>5. OrderInv'
  BY DEF IInv, TypeOK, CallsInv, OrderInv, Return, Unseen, KindFor, IsPending
<1>6. GreenInv'
  BY DEF IInv, TypeOK, CallsInv, GreenInv, Return, Restorable, Unseen, Unreported
<1> QED BY <1>2, <1>3, <1>4, <1>5, <1>6 DEF IInv

(* A write: an observed writer is owed, an unobserved one unseen, and what *)
(* is owed forbids a green.                                                *)
LEMMA WriteIInv ==
  ASSUME IInv, NEW c \in Calls, Write(c)
  PROVE  IInv'
<1> USE DEF vars, clockVars, stVars, treeVars, hostVars
<1>1. /\ c \in turnCalls /\ turnPhase = "open" /\ c \notin ended
      /\ ~ HasCompleted(clock, c)
  BY DEF IInv, TypeOK, CallsInv, Write
<1>2. c \in started => c \in owed
  BY <1>1 DEF IInv, TypeOK, CountInv, Write
<1>3. (c \in owed \/ Unseen(c)) /\ Unreported(c)
  BY <1>1, <1>2 DEF Unseen, Unreported
<1>4. owed # {} => ~ verifiedOk
  <2>1. IsFiniteSet(owed) /\ Cardinality(owed) \in Nat
    BY CallsFinite, FS_Subset, FS_CardinalityType DEF IInv, TypeOK
  <2>2. Cardinality(owed) = 0 => owed = {}
    BY <2>1, FS_EmptySet
  <2> QED BY <2>1, <2>2 DEF IInv, TypeOK, CountInv, Clocks
<1>5. /\ stale' = stale \cup {c}
      /\ UNCHANGED <<clockVars, stVars, hostVars, failedEdits, owed>>
      /\ \A g \in Calls : \/ since'[g] = since[g]
                          \/ GateRuns(g) /\ since'[g] = since[g] \cup {c}
  BY DEF Write
<1>6. TypeOK'
  <2>1. since' \in [Calls -> SUBSET Calls]
    BY DEF IInv, TypeOK, Write
  <2> QED BY <1>5, <2>1 DEF IInv, TypeOK, SessionCap
<1>7. CallsInv'
  <2>1. \A d \in Calls : HasWritten(d)' => HasWritten(d) \/ d = c
    BY <1>5 DEF HasWritten
  <2>2. \A g \in Calls : since'[g] # {} => since[g] # {} \/ GateRuns(g)
    BY <1>5
  <2>3. phase[c] = "running" /\ IsMutation(c)
    BY DEF Write
  <2> QED BY <1>5, <2>1, <2>2, <2>3 DEF IInv, CallsInv, GateRuns, IsMutation, IsPending, KindFor
<1>8. CountInv'
  BY <1>5 DEF IInv, TypeOK, CountInv, IsMutation, KindFor
<1>9. OrderInv'
  <2>1. \A g \in Calls : \A d \in since'[g] : d \in since[g] \/ d = c
    BY <1>5
  <2>2. \A d \in Calls : Unseen(d)' <=> Unseen(d)
    BY <1>5 DEF Unseen
  <2> QED BY <1>3, <1>5, <2>1, <2>2 DEF IInv, TypeOK, OrderInv, KindFor, IsPending
<1>10. GreenInv'
  <2>1. \A d \in Calls : (Unseen(d)' <=> Unseen(d)) /\ (Unreported(d)' <=> Unreported(d))
    BY <1>5 DEF Unseen, Unreported, HasCompleted
  <2>2. Restorable' <=> Restorable
    BY <1>5 DEF Restorable
  <2> QED BY <1>3, <1>4, <1>5, <2>1, <2>2 DEF IInv, TypeOK, GreenInv
<1> QED BY <1>6, <1>7, <1>8, <1>9, <1>10 DEF IInv

-----------------------------------------------------------------------------
(* What a settled call does to the count of owed mutations.                *)
LEMMA OwedCard ==
  ASSUME IInv, NEW c \in Calls
  PROVE  /\ Cardinality(owed) \in Nat /\ (Cardinality(owed) = 0 => owed = {})
         /\ Cardinality(owed \cup {c}) \in Nat
         /\ Cardinality(owed \cup {c}) =< Cardinality(owed) + 1
         /\ Cardinality(owed \ {c}) \in Nat
         /\ c \in owed => Cardinality(owed \ {c}) = Cardinality(owed) - 1
         /\ c \notin owed => Cardinality(owed \ {c}) = Cardinality(owed)
<1>1. IsFiniteSet(owed)
  BY CallsFinite, FS_Subset DEF IInv, TypeOK
<1>2. Cardinality(owed) \in Nat /\ (Cardinality(owed) = 0 => owed = {})
  BY <1>1, FS_CardinalityType, FS_EmptySet
<1>3. /\ Cardinality(owed \cup {c}) = IF c \in owed THEN Cardinality(owed)
                                                   ELSE Cardinality(owed) + 1
      /\ IsFiniteSet(owed \cup {c})
  BY <1>1, FS_AddElement
<1>4. /\ Cardinality(owed \ {c}) = IF c \in owed THEN Cardinality(owed) - 1
                                                ELSE Cardinality(owed)
      /\ IsFiniteSet(owed \ {c})
  BY <1>1, FS_RemoveElement
<1>5. Cardinality(owed \ {c}) \in Nat
  BY <1>4, FS_CardinalityType
<1> QED BY <1>2, <1>3, <1>4, <1>5

(* The clock of a typed state is good.                                     *)
LEMMA ClockIsGood ==
  ASSUME TypeOK PROVE GoodClock(clock) /\ clock.sequence \in Nat
                      /\ clock.boundary \in Nat /\ clock.pendingMutations \in Nat
BY DEF TypeOK, GoodClock, Clocks

LEMMA TurnEndBeginIInv ==
  ASSUME IInv, TurnEndBegin
  PROVE  IInv'
<1> USE DEF vars, clockVars, stVars, treeVars, hostVars
<1>2. TypeOK'
  BY DEF IInv, TypeOK, TurnEndBegin, SessionCap
<1>3. CallsInv'
  BY DEF IInv, TypeOK, CallsInv, TurnEndBegin, HasWritten, IsMutation, IsPending, KindFor
<1>4. CountInv'
  BY DEF IInv, TypeOK, CountInv, TurnEndBegin, IsMutation, KindFor
<1>5. OrderInv'
  BY DEF IInv, TypeOK, OrderInv, TurnEndBegin, KindFor, IsPending
<1>6. GreenInv'
  BY DEF IInv, TypeOK, GreenInv, TurnEndBegin, Restorable, Unseen, Unreported
<1> QED BY <1>2, <1>3, <1>4, <1>5, <1>6 DEF IInv

LEMMA TurnEndFinishIInv ==
  ASSUME IInv, NEW planPhaseActive \in BOOLEAN, TurnEndFinish(planPhaseActive)
  PROVE  IInv'
<1> USE DEF vars, clockVars, stVars, treeVars, hostVars
<1>1. SessionCap \in Nat
  BY FiresLimit, GateFlag DEF SessionCap
<1>2. TypeOK'
  <2>1. /\ fires \in 0..MaxFires /\ sessionFires \in 0..SessionCap
        /\ nagAwaitingEvidence \in BOOLEAN
    BY DEF IInv, TypeOK
  <2>2. /\ fires' \in 0..MaxFires /\ sessionFires' \in 0..SessionCap
        /\ nagAwaitingEvidence' \in BOOLEAN
    <3> DEFINE wrappingUp == turnCalls = {}
    <3>1. CASE Nags(wrappingUp, planPhaseActive)
      <4>1. /\ fires' = fires + 1 /\ sessionFires' = sessionFires + 1
            /\ nagAwaitingEvidence' = TRUE
        BY <3>1 DEF TurnEndFinish
      <4>2. fires < MaxFires /\ sessionFires < SessionCap
        BY <3>1 DEF Nags
      <4> QED BY <1>1, <2>1, <4>1, <4>2, FiresLimit
    <3>2. CASE ~ Nags(wrappingUp, planPhaseActive)
      <4>1. /\ fires' = fires /\ sessionFires' = sessionFires
            /\ nagAwaitingEvidence' = (nagAwaitingEvidence /\ wrappingUp)
        BY <3>2 DEF TurnEndFinish
      <4> QED BY <2>1, <4>1
    <3> QED BY <3>1, <3>2
  <2>3. SessionCap' = SessionCap
    BY DEF SessionCap
  <2> QED BY <2>2, <2>3 DEF IInv, TypeOK, TurnEndFinish
<1>3. CallsInv'
  BY DEF IInv, TypeOK, CallsInv, TurnEndFinish, HasWritten, IsMutation, IsPending, KindFor
<1>4. CountInv'
  BY DEF IInv, TypeOK, CountInv, TurnEndFinish, IsMutation, KindFor
<1>5. OrderInv'
  BY DEF IInv, TypeOK, OrderInv, TurnEndFinish, KindFor, IsPending
<1>6. GreenInv'
  BY DEF IInv, TypeOK, GreenInv, TurnEndFinish, Restorable, Unseen, Unreported
<1> QED BY <1>2, <1>3, <1>4, <1>5, <1>6 DEF IInv

LEMMA SessionStartIInv ==
  ASSUME IInv, SessionStart
  PROVE  IInv'
<1> USE DEF vars, clockVars, stVars, treeVars, hostVars
<1>1. /\ NewClock \in Clocks /\ PendingCalls(NewClock.pending) = {}
      /\ Len(NewClock.completed) = 0
      /\ \A c \in Calls : /\ ~ IsPending(NewClock, c) /\ ~ HasCompleted(NewClock, c)
                           /\ KindFor(NewClock, c) = "none"
  BY DEF NewClock, Clocks, NotPending, PendingCalls, IsPending, HasCompleted, KindFor
<1>2. Cardinality({}) = 0
  BY FS_EmptySet
<1>3. TypeOK'
  <2>1. SessionCap \in Nat
    BY FiresLimit, GateFlag DEF SessionCap
  <2>2. NoBaseline \in Baselines
    BY FiresLimit DEF NoBaseline, Baselines
  <2>3. /\ clock' \in Clocks /\ Cardinality(PendingCalls(clock'.pending)) =< MaxPending
        /\ Len(clock'.completed) =< MaxCompleted
    BY <1>1, <1>2, ClockCapacity DEF SessionStart
  <2>4. 0 \in 0..MaxFires /\ 0 \in 0..SessionCap
    BY <2>1, FiresLimit
  <2> QED BY <2>2, <2>3, <2>4 DEF IInv, TypeOK, SessionStart, SessionCap
<1>4. CallsInv'
  BY <1>1 DEF IInv, TypeOK, CallsInv, HasWritten, SessionStart, IsMutation
<1>5. CountInv'
  BY <1>1, <1>2 DEF IInv, TypeOK, CountInv, SessionStart, NewClock, NoBaseline, IsMutation
<1>6. OrderInv'
  BY <1>1 DEF IInv, TypeOK, OrderInv, SessionStart, NewClock
<1>7. GreenInv'
  BY DEF IInv, TypeOK, GreenInv, SessionStart, NoBaseline
<1> QED BY <1>3, <1>4, <1>5, <1>6, <1>7 DEF IInv

(* turn_end registers an unseen mutation: its write is owed from now on.   *)
LEMMA TurnEndCallIInv ==
  ASSUME IInv, NEW c \in Calls, TurnEndCall(c)
  PROVE  IInv'
<1> USE DEF vars, clockVars, stVars, treeVars, hostVars
<1> DEFINE kind == ClassifyStart(tool[c])
<1>1. kind \in Kinds
  BY DEF ClassifyStart, Kinds
<1>2. GoodClock(clock) /\ clock.pendingMutations \in Nat /\ clock.sequence \in Nat
  BY ClockIsGood DEF IInv
<1>3. CASE HasCompleted(clock, c)
  <2>1. /\ clock' = clock /\ owed' = owed /\ mutated' = mutated
        /\ verifiedOk' = verifiedOk /\ fires' = fires
    BY <1>3 DEF TurnEndCall, IInv, TypeOK
  <2>2. c \in started
    BY <1>3 DEF IInv, CallsInv
  <2>3. TypeOK'
    BY <2>1 DEF IInv, TypeOK, TurnEndCall, SessionCap
  <2>4. CallsInv'
    BY <2>1, <2>2 DEF IInv, TypeOK, CallsInv, TurnEndCall, HasWritten, IsMutation, IsPending, KindFor
  <2>5. CountInv'
    BY <2>1 DEF IInv, TypeOK, CountInv, TurnEndCall, IsMutation, KindFor
  <2>6. OrderInv'
    BY <2>1 DEF IInv, TypeOK, OrderInv, TurnEndCall, KindFor, IsPending
  <2>7. GreenInv'
    BY <1>3, <2>1, <2>2 DEF IInv, TypeOK, GreenInv, TurnEndCall, Restorable, Unseen,
                            Unreported
  <2> QED BY <2>3, <2>4, <2>5, <2>6, <2>7 DEF IInv
<1>4. CASE ~ HasCompleted(clock, c)
  <2> DEFINE clkAfter == Start(clock, c, kind)
  <2>1. /\ clock' = clkAfter
        /\ owed' = (IF kind = "source_mutation" THEN owed \cup {c} ELSE owed)
        /\ mutated' = (mutated \/ kind = "source_mutation")
        /\ verifiedOk' = (verifiedOk /\ kind = "other")
        /\ fires' = (IF kind = "source_mutation" THEN 0 ELSE fires)
    BY <1>4 DEF TurnEndCall
  <2>2. /\ GoodClock(clkAfter) /\ clkAfter.completed = clock.completed
        /\ clkAfter.boundary = clock.boundary
        /\ clkAfter.sequence =
             IF CanStart(clock, c) THEN clock.sequence + 1 ELSE clock.sequence
        /\ clkAfter.pendingMutations =
             IF CanStart(clock, c) /\ kind = "source_mutation"
               THEN clock.pendingMutations + 1 ELSE clock.pendingMutations
        /\ \A d \in Calls :
             \/ clkAfter.pending[d] \in {clock.pending[d], NotPending}
             \/ /\ d = c /\ CanStart(clock, c)
                /\ clkAfter.pending[d] = [kind |-> kind, started |-> clock.sequence + 1]
    BY <1>1, <1>2, StartFacts
  <2> HIDE DEF clkAfter
  <2>3. \A d \in Calls : HasCompleted(clkAfter, d) <=> HasCompleted(clock, d)
    BY <2>2 DEF HasCompleted
  <2>4. TypeOK'
    BY <2>1, <2>2, FiresLimit DEF IInv, TypeOK, TurnEndCall, SessionCap, GoodClock
  <2>5. CallsInv'
    <3>1. UNCHANGED <<phase, turnCalls, ended, since, stale, preventedBeforeStart, started,
                      tool, turnPhase>> /\ todo' = todo \ {c} /\ turnPhase = "ending"
      BY DEF TurnEndCall
    <3>2. /\ \A d \in Calls : HasWritten(d)' <=> HasWritten(d)
          /\ phase[c] # "idle"
      BY <3>1 DEF HasWritten, IInv, TypeOK, CallsInv, TurnEndCall
    <3> QED BY <1>1, <1>4, <2>1, <2>2, <2>3, <3>1, <3>2 DEF IInv, CallsInv, IsMutation,
               IsPending, KindFor, NotPending
  <2>6. CountInv'
    <3>1. IsPending(clock, c) /\ kind = "source_mutation" => c \in owed
      BY DEF IInv, CallsInv, CountInv, StartKind, ClassifyStart
    <3>2. clkAfter.pendingMutations >= Cardinality(owed')
      <4>1. clock.pendingMutations >= Cardinality(owed)
        BY DEF IInv, CountInv
      <4>2. /\ Cardinality(owed) \in Nat /\ Cardinality(owed \cup {c}) \in Nat
            /\ Cardinality(owed \cup {c}) =< Cardinality(owed) + 1
        BY OwedCard
      <4>3. CASE kind # "source_mutation"
        BY <2>1, <2>2, <4>1, <4>3
      <4>4. CASE kind = "source_mutation" /\ CanStart(clock, c)
        BY <1>2, <2>1, <2>2, <4>1, <4>2, <4>4
      <4>5. CASE kind = "source_mutation" /\ ~ CanStart(clock, c)
        <5>1. c \in owed
          BY <1>4, <3>1, <4>5 DEF CanStart
        <5>2. owed' = owed
          BY <2>1, <5>1
        <5> QED BY <2>2, <4>1, <4>5, <5>2
      <4> QED BY <4>3, <4>4, <4>5
    <3>3. \A d \in Calls : KindFor(clkAfter, d) = "source_mutation" => d \in owed'
      BY <2>1, <2>2 DEF IInv, CountInv, KindFor, NotPending
    <3>4. \A d \in started \ ended :
            d \in turnCalls /\ IsMutation(d) /\ phase[d] # "refused" => d \in owed'
      BY <2>1 DEF IInv, CountInv
    <3>5. verifiedOk' => clkAfter.pendingMutations = 0
      BY <2>1, <2>2 DEF IInv, CountInv
    <3>6. mutationEpochBaseline.live => clkAfter.pendingMutations > 0
      BY <1>2, <2>2 DEF IInv, CountInv
    <3> QED BY <2>1, <3>2, <3>3, <3>4, <3>5, <3>6 DEF CountInv, TurnEndCall, IsMutation
  <2>7. OrderInv'
    <3>1. clock.boundary \in Nat /\ \A d \in Calls : clock.pending[d].started \in Nat
      BY DEF IInv, TypeOK, Clocks
    <3>2. clkAfter.boundary =< clkAfter.sequence
      BY <1>2, <2>2, <3>1 DEF IInv, OrderInv
    <3>3. \A d \in Calls : IsPending(clkAfter, d) => clkAfter.pending[d].started =< clkAfter.sequence
      BY <1>2, <2>2, <3>1 DEF IInv, OrderInv, IsPending, NotPending
    <3> QED BY <2>1, <3>2, <3>3 DEF OrderInv, TurnEndCall
  <2>8. GreenInv'
    BY <1>4, <2>1, <2>3 DEF IInv, TypeOK, CallsInv, GreenInv, TurnEndCall, Restorable, Unseen,
         Unreported, HasWritten, IsMutation
  <2> QED BY <2>4, <2>5, <2>6, <2>7, <2>8 DEF IInv
<1> QED BY <1>3, <1>4

(* settleMutationEpoch either keeps what it is given, or, when no mutation *)
(* is pending and none of the epoch counted, brings the baseline back.     *)
LEMMA SettleCases ==
  ASSUME NEW clk, NEW counts, NEW mut, NEW ok, NEW f,
         SettleMutationEpoch(clk, counts, mut, ok, f)
  PROVE  \/ /\ HasPendingMutations(clk)
            /\ mutated' = mut /\ verifiedOk' = ok /\ fires' = f
            /\ mutationEpochChanged' = (mutationEpochChanged \/ counts)
            /\ mutationEpochBaseline' = mutationEpochBaseline
         \/ /\ ~ HasPendingMutations(clk)
            /\ mutationEpochBaseline.live /\ ~ mutationEpochChanged /\ ~ counts
            /\ mutated' = mutationEpochBaseline.mutated
            /\ verifiedOk' = mutationEpochBaseline.verifiedOk
            /\ fires' = mutationEpochBaseline.fires
            /\ mutationEpochChanged' = FALSE /\ mutationEpochBaseline' = NoBaseline
         \/ /\ ~ HasPendingMutations(clk)
            /\ ~ mutationEpochBaseline.live \/ mutationEpochChanged \/ counts
            /\ mutated' = mut /\ verifiedOk' = ok /\ fires' = f
            /\ mutationEpochChanged' = FALSE /\ mutationEpochBaseline' = NoBaseline
BY DEF SettleMutationEpoch

(* A refusal settles a call that wrote nothing.                            *)
LEMMA ToolPreventedIInv ==
  ASSUME IInv, NEW c \in Calls, ToolPrevented(c)
  PROVE  IInv'
<1> USE DEF vars, clockVars, stVars, treeVars, hostVars
<1> DEFINE clkAfter == Prevent(clock, c)
<1>1. /\ GoodClock(clock) /\ clock.pendingMutations \in Nat /\ clock.sequence \in Nat
      /\ clock.boundary \in Nat
  BY ClockIsGood DEF IInv
<1>2. /\ clock' = clkAfter /\ phase' = [phase EXCEPT ![c] = "refused"]
      /\ phase[c] = "issued" /\ turnPhase = "open"
      /\ UNCHANGED <<sessionFires, nagAwaitingEvidence, treeVars, tool, started, ended,
                      turnCalls, todo, turnPhase>>
  BY DEF ToolPrevented
<1>3. /\ GoodClock(clkAfter) /\ clkAfter.sequence = clock.sequence
      /\ clkAfter.boundary = clock.boundary
      /\ clkAfter.pendingMutations =
           IF CanSettle(clock, c) THEN OneMutationLess(clock, c) ELSE clock.pendingMutations
      /\ \A d \in Calls : clkAfter.pending[d] =
           IF d = c /\ CanSettle(clock, c) THEN NotPending ELSE clock.pending[d]
      /\ \A d \in Calls : HasCompleted(clkAfter, d) =>
           (d = c /\ CanSettle(clock, c)) \/ HasCompleted(clock, d)
  BY <1>1, PreventFacts
<1> HIDE DEF clkAfter
<1>4. ~ HasWritten(c) /\ c \in turnCalls /\ c \notin ended /\ since[c] = {}
  BY <1>2 DEF IInv, CallsInv
<1>5. IsPending(clock, c) => c \in started
  BY <1>2, <1>4 DEF IInv, CallsInv
<1>6. CASE ~ CanSettle(clock, c)
  <2>1. /\ preventedBeforeStart' \subseteq preventedBeforeStart \cup {c}
        /\ UNCHANGED <<mutated, verifiedOk, fires, mutationEpochBaseline,
                        mutationEpochChanged, owed>>
    BY <1>6 DEF ToolPrevented, RememberPrevented
  <2>2. TypeOK'
    BY <1>2, <1>3, <2>1 DEF IInv, TypeOK, GoodClock, SessionCap, Phases
  <2>3. CallsInv'
    BY <1>2, <1>3, <1>4, <1>6, <2>1 DEF IInv, TypeOK, CallsInv, HasWritten, IsMutation, IsPending, KindFor
  <2>4. CountInv'
    BY <1>2, <1>3, <1>6, <2>1 DEF IInv, TypeOK, CountInv, IsMutation, KindFor
  <2>5. OrderInv'
    BY <1>2, <1>3, <1>6, <2>1 DEF IInv, TypeOK, OrderInv, Unseen, KindFor, IsPending
  <2>6. GreenInv'
    BY <1>2, <1>3, <1>6, <2>1 DEF IInv, TypeOK, GreenInv, Restorable, Unseen,
         Unreported
  <2> QED BY <2>2, <2>3, <2>4, <2>5, <2>6 DEF IInv
<1>7. CASE CanSettle(clock, c)
  <2>1. /\ preventedBeforeStart' = preventedBeforeStart /\ owed' = owed \ {c}
        /\ KindFor(clock, c) = "source_mutation" =>
             SettleMutationEpoch(clkAfter, FALSE, mutated, verifiedOk, fires)
        /\ KindFor(clock, c) # "source_mutation" =>
             UNCHANGED <<mutated, verifiedOk, fires, mutationEpochBaseline,
                         mutationEpochChanged>>
    BY <1>7 DEF ToolPrevented, clkAfter
  <2>2. c \in started
    BY <1>5, <1>7 DEF CanSettle
  <2>3. \A d \in Calls : IsPending(clkAfter, d) => IsPending(clock, d) /\ d # c
    BY <1>3, <1>7 DEF IsPending, NotPending
  <2>4. /\ \A d \in Calls : Unseen(d)' <=> Unseen(d)
        /\ \A d \in Calls : HasWritten(d) /\ d \in owed => d \in owed'
    BY <1>2, <1>4, <2>1 DEF Unseen
  <2>5. \A d \in Calls : HasWritten(d) /\ Unreported(d) => Unreported(d)'
    BY <1>2, <1>3, <1>4 DEF Unreported
  <2>6. /\ clock.pendingMutations >= Cardinality(owed) /\ Cardinality(owed) \in Nat
        /\ Cardinality(owed') \in Nat
        /\ c \in owed => Cardinality(owed') = Cardinality(owed) - 1
        /\ c \notin owed => Cardinality(owed') = Cardinality(owed)
        /\ KindFor(clock, c) = "source_mutation" => c \in owed
    BY <2>1, OwedCard DEF IInv, CountInv
  <2>7. clkAfter.pendingMutations >= Cardinality(owed')
    BY <1>1, <1>3, <1>7, <2>6 DEF OneMutationLess
  <2>8. /\ mutated' \in BOOLEAN /\ verifiedOk' \in BOOLEAN /\ fires' \in 0..MaxFires
        /\ mutationEpochBaseline' \in Baselines /\ mutationEpochChanged' \in BOOLEAN
        /\ verifiedOk' => clkAfter.pendingMutations = 0
        /\ mutationEpochBaseline'.live => clkAfter.pendingMutations > 0
        /\ GreenInv'
    <3>0. /\ stale' = stale /\ failedEdits' = failedEdits
          /\ \A d \in stale \ failedEdits :
               /\ verifiedOk => Unseen(d)'
               /\ Restorable /\ mutationEpochBaseline.verifiedOk => d \in owed' \/ Unseen(d)'
               /\ mutated \/ Unreported(d)'
               /\ Restorable => mutationEpochBaseline.mutated \/ d \in owed' \/ Unreported(d)'
      BY <1>2, <2>4, <2>5 DEF IInv, TypeOK, GreenInv, HasWritten
    <3>1. CASE KindFor(clock, c) # "source_mutation"
      <4>1. clkAfter.pendingMutations = clock.pendingMutations
        BY <1>3, <1>7, <3>1 DEF OneMutationLess
      <4>2. UNCHANGED <<mutated, verifiedOk, fires, mutationEpochBaseline,
                        mutationEpochChanged>>
        BY <2>1, <3>1
      <4>3. GreenInv'
        BY <3>0, <4>2 DEF GreenInv, Restorable
      <4> QED BY <4>1, <4>2, <4>3 DEF IInv, TypeOK, CountInv
    <3>2. CASE KindFor(clock, c) = "source_mutation"
      <4>0. SettleMutationEpoch(clkAfter, FALSE, mutated, verifiedOk, fires)
        BY <2>1, <3>2
      <4>1. /\ clkAfter.pendingMutations \in Nat
            /\ clock.pendingMutations = 0 => clkAfter.pendingMutations = 0
        BY <1>1, <1>3, <1>7 DEF OneMutationLess
      <4>2. ~ HasPendingMutations(clkAfter) => owed' = {}
        <5> SUFFICES ASSUME ~ HasPendingMutations(clkAfter) PROVE owed' = {}
          OBVIOUS
        <5>1. Cardinality(owed') = 0
          BY <2>6, <2>7, <4>1 DEF HasPendingMutations
        <5>2. IsFiniteSet(owed')
          BY <2>1, CallsFinite, FS_Subset DEF IInv, TypeOK
        <5> QED BY <5>1, <5>2, FS_EmptySet
      <4>4. NoBaseline \in Baselines /\ ~ NoBaseline.live
        BY FiresLimit DEF NoBaseline, Baselines
      <4>5. /\ mutationEpochBaseline.mutated \in BOOLEAN /\ mutationEpochBaseline \in Baselines
            /\ mutationEpochBaseline.verifiedOk \in BOOLEAN
            /\ mutationEpochBaseline.fires \in 0..MaxFires
        BY DEF IInv, TypeOK, Baselines
      <4>6. /\ HasPendingMutations(clkAfter) => clkAfter.pendingMutations > 0
            /\ ~ HasPendingMutations(clkAfter) => clkAfter.pendingMutations = 0
        BY <4>1 DEF HasPendingMutations
      <4> HIDE DEF HasPendingMutations
      <4> DEFINE restore == mutationEpochBaseline.live /\ ~ mutationEpochChanged
      <4>7. CASE HasPendingMutations(clkAfter)
        <5>1. /\ mutated' = mutated /\ verifiedOk' = verifiedOk /\ fires' = fires
              /\ mutationEpochChanged' = mutationEpochChanged
              /\ mutationEpochBaseline' = mutationEpochBaseline
          BY <4>0, <4>7, SettleCases DEF IInv, TypeOK
        <5>2. GreenInv'
          BY <3>0, <5>1 DEF GreenInv, Restorable
        <5> QED BY <4>1, <4>6, <4>7, <5>1, <5>2 DEF IInv, TypeOK, CountInv
      <4>8. CASE ~ HasPendingMutations(clkAfter) /\ restore
        <5>1. /\ mutated' = mutationEpochBaseline.mutated
              /\ verifiedOk' = mutationEpochBaseline.verifiedOk
              /\ fires' = mutationEpochBaseline.fires
              /\ mutationEpochChanged' = FALSE /\ mutationEpochBaseline' = NoBaseline
          BY <4>0, <4>8, SettleCases
        <5>2. GreenInv'
          BY <3>0, <4>2, <4>4, <4>5, <4>8, <5>1 DEF GreenInv, Restorable
        <5> QED BY <4>4, <4>5, <4>6, <4>8, <5>1, <5>2
      <4>9. CASE ~ HasPendingMutations(clkAfter) /\ ~ restore
        <5>1. /\ mutated' = mutated /\ verifiedOk' = verifiedOk /\ fires' = fires
              /\ mutationEpochChanged' = FALSE /\ mutationEpochBaseline' = NoBaseline
          BY <4>0, <4>9, SettleCases
        <5>2. GreenInv'
          BY <3>0, <4>4, <5>1 DEF GreenInv, Restorable
        <5> QED BY <4>4, <4>6, <4>9, <5>1, <5>2 DEF IInv, TypeOK
      <4> QED BY <4>7, <4>8, <4>9
    <3> QED BY <3>1, <3>2
  <2>9. TypeOK'
    BY <1>2, <1>3, <2>1, <2>8 DEF IInv, TypeOK, GoodClock, SessionCap, Phases
  <2>10. CallsInv'
    BY <1>2, <1>3, <1>4, <2>1, <2>2, <2>3
       DEF IInv, TypeOK, CallsInv, HasWritten, IsMutation, IsPending, KindFor
  <2>11. CountInv'
    <3>1. \A d \in Calls : KindFor(clkAfter, d) = "source_mutation" => d \in owed'
      BY <1>3, <1>7, <2>1 DEF IInv, CountInv, KindFor, NotPending
    <3> QED BY <1>2, <2>1, <2>7, <2>8, <3>1 DEF IInv, TypeOK, CountInv, IsMutation
  <2>12. OrderInv'
    <3>1. \A d \in Calls : d # c => clkAfter.pending[d] = clock.pending[d]
      BY <1>3
    <3>2. \A d \in Calls : KindFor(clkAfter, d) = "verification" => d # c
      BY <1>3, <1>7 DEF KindFor, NotPending
    <3>3. /\ \A d \in Calls : IsPending(clkAfter, d) =>
               clkAfter.pending[d].started =< clkAfter.sequence
          /\ clkAfter.boundary =< clkAfter.sequence
      BY <1>3, <2>3, <3>1 DEF IInv, OrderInv
    <3>4. \A g \in Calls : \A d \in since[g] : d \in Calls /\ HasWritten(d)
      BY DEF IInv, TypeOK, HasWritten
    <3> QED BY <1>2, <1>3, <2>4, <3>1, <3>2, <3>3, <3>4 DEF IInv, TypeOK, OrderInv, KindFor
  <2> QED BY <2>8, <2>9, <2>10, <2>11, <2>12 DEF IInv
<1> QED BY <1>6, <1>7

(* A start disarms the green and remembers it; the call has written        *)
(* nothing yet, so no write changes its standing.                          *)
LEMMA ToolExecutionStartIInv ==
  ASSUME IInv, NEW c \in Calls, ToolExecutionStart(c)
  PROVE  IInv'
<1> USE DEF vars, clockVars, stVars, treeVars, hostVars
<1> DEFINE kind      == StartKind(tool[c])
           running   == Start(clock, c, kind)
           refusal   == c \in preventedBeforeStart
           prevented == refusal /\ CanSettle(running, c)
           mutation  == kind = "source_mutation"
<1>1. /\ GoodClock(clock) /\ clock.pendingMutations \in Nat /\ clock.sequence \in Nat
      /\ clock.boundary \in Nat /\ kind \in Kinds
  BY ClockIsGood DEF IInv, StartKind, ClassifyStart, Kinds
<1>2. /\ phase[c] \in {"issued", "refused"} /\ turnPhase = "open"
      /\ c \in turnCalls /\ c \notin started /\ c \notin ended /\ ~ HasWritten(c)
      /\ ~ IsPending(clock, c) /\ ~ HasCompleted(clock, c) /\ CanStart(clock, c)
      /\ refusal => phase[c] = "refused"
  BY DEF ToolExecutionStart, IInv, CallsInv, CanStart
<1>3. /\ GoodClock(running) /\ running.completed = clock.completed
      /\ running.boundary = clock.boundary
      /\ running.sequence = clock.sequence + 1
      /\ running.pendingMutations =
           IF mutation THEN clock.pendingMutations + 1 ELSE clock.pendingMutations
      /\ \A d \in Calls :
           \/ running.pending[d] \in {clock.pending[d], NotPending}
           \/ d = c /\ running.pending[d] = [kind |-> kind, started |-> clock.sequence + 1]
  BY <1>1, <1>2, StartFacts
<1>4. /\ clock' = IF refusal THEN Prevent(running, c) ELSE running
      /\ owed' = IF mutation /\ ~ prevented THEN owed \cup {c} ELSE owed
      /\ started' = started \cup {c} /\ preventedBeforeStart' = preventedBeforeStart \ {c}
      /\ UNCHANGED <<sessionFires, nagAwaitingEvidence, treeVars, tool, phase, ended,
                      turnCalls, todo, turnPhase>>
  BY <1>2 DEF ToolExecutionStart
<1>5. /\ GoodClock(Prevent(running, c)) /\ Prevent(running, c).sequence = running.sequence
      /\ Prevent(running, c).boundary = running.boundary
      /\ Prevent(running, c).pendingMutations =
           IF CanSettle(running, c) THEN OneMutationLess(running, c)
                                    ELSE running.pendingMutations
      /\ \A d \in Calls : Prevent(running, c).pending[d] =
           IF d = c /\ CanSettle(running, c) THEN NotPending ELSE running.pending[d]
      /\ \A d \in Calls : HasCompleted(Prevent(running, c), d) =>
           (d = c /\ CanSettle(running, c)) \/ HasCompleted(running, d)
  BY <1>3, PreventFacts
<1>6. \A d \in Calls : HasCompleted(running, d) <=> HasCompleted(clock, d)
  BY <1>3 DEF HasCompleted
<1>7. CanSettle(running, c) => KindFor(running, c) = kind
  BY <1>2, <1>3 DEF CanSettle, IsPending, KindFor, NotPending
<1>8. OneMutationLess(running, c) =
        IF KindFor(running, c) = "source_mutation" /\ running.pendingMutations > 0
          THEN running.pendingMutations - 1 ELSE running.pendingMutations
  BY DEF OneMutationLess
<1>9. /\ GoodClock(clock') /\ clock'.sequence = clock.sequence + 1
      /\ clock'.boundary = clock.boundary
      /\ clock'.pendingMutations = IF mutation /\ ~ prevented
           THEN clock.pendingMutations + 1 ELSE clock.pendingMutations
      /\ \A d \in Calls :
           \/ clock'.pending[d] \in {clock.pending[d], NotPending}
           \/ d = c /\ clock'.pending[d] = [kind |-> kind, started |-> clock.sequence + 1]
                   /\ ~ prevented
      /\ \A d \in Calls : HasCompleted(clock', d) => HasCompleted(clock, d) \/ (d = c /\ prevented)
  <2>1. CASE ~ refusal
    BY <1>3, <1>4, <1>6, <2>1
  <2>2. CASE refusal /\ ~ CanSettle(running, c)
    <3> HIDE DEF running, kind
    <3> QED BY <1>3, <1>4, <1>5, <1>6, <2>2
  <2>3. CASE refusal /\ CanSettle(running, c)
    <3> HIDE DEF running, kind
    <3>1. clock'.pendingMutations = clock.pendingMutations
      BY <1>1, <1>3, <1>4, <1>5, <1>7, <1>8, <2>3
    <3> QED BY <1>3, <1>4, <1>5, <1>6, <2>3, <3>1
  <2> QED BY <2>1, <2>2, <2>3
<1>10. /\ ~ mutation => UNCHANGED <<mutated, verifiedOk, fires, mutationEpochBaseline,
                                    mutationEpochChanged>>
       /\ mutation /\ prevented /\ ~ HasPendingMutations(clock) =>
            /\ UNCHANGED <<mutated, verifiedOk, fires>>
            /\ mutationEpochBaseline' = NoBaseline /\ mutationEpochChanged' = FALSE
       /\ mutation /\ prevented /\ HasPendingMutations(clock) =>
            SettleMutationEpoch(clock', FALSE, mutated, FALSE, 0)
       /\ mutation /\ ~ prevented =>
            /\ verifiedOk' = FALSE /\ fires' = 0 /\ mutated' = mutated
            /\ IF ~ HasPendingMutations(clock)
                 THEN /\ mutationEpochBaseline' =
                           [mutated |-> mutated, verifiedOk |-> verifiedOk,
                            fires |-> fires, live |-> TRUE]
                      /\ mutationEpochChanged' = FALSE
                 ELSE UNCHANGED <<mutationEpochBaseline, mutationEpochChanged>>
  BY <1>2 DEF ToolExecutionStart
<1> HIDE DEF kind, running, refusal, prevented, mutation
<1>11. /\ stale' = stale /\ failedEdits' = failedEdits /\ since' = since
       /\ \A d \in Calls : HasWritten(d) => (Unseen(d)' <=> Unseen(d))
       /\ \A d \in owed : d \in owed'
  BY <1>2, <1>4 DEF Unseen
<1>12. \A d \in Calls : HasWritten(d) /\ Unreported(d) => Unreported(d)'
  BY <1>2, <1>4, <1>9 DEF Unreported
<1>13. clock'.pendingMutations >= Cardinality(owed')
  <2>1. /\ clock.pendingMutations >= Cardinality(owed) /\ Cardinality(owed) \in Nat
        /\ Cardinality(owed \cup {c}) \in Nat
        /\ Cardinality(owed \cup {c}) =< Cardinality(owed) + 1
    BY OwedCard DEF IInv, CountInv
  <2>2. CASE mutation /\ ~ prevented
    BY <1>1, <1>4, <1>9, <2>1, <2>2
  <2>3. CASE ~ (mutation /\ ~ prevented)
    BY <1>4, <1>9, <2>1, <2>3
  <2> QED BY <2>2, <2>3
<1>14. /\ mutated' \in BOOLEAN /\ verifiedOk' \in BOOLEAN /\ fires' \in 0..MaxFires
       /\ mutationEpochBaseline' \in Baselines /\ mutationEpochChanged' \in BOOLEAN
       /\ verifiedOk' => clock'.pendingMutations = 0
       /\ mutationEpochBaseline'.live => clock'.pendingMutations > 0
       /\ GreenInv'
  <2>0. /\ NoBaseline \in Baselines /\ ~ NoBaseline.live
        /\ 0 \in 0..MaxFires
        /\ [mutated |-> mutated, verifiedOk |-> verifiedOk, fires |-> fires,
            live |-> TRUE] \in Baselines
    BY FiresLimit DEF NoBaseline, Baselines, IInv, TypeOK
  <2>5. /\ mutated \in BOOLEAN /\ verifiedOk \in BOOLEAN /\ fires \in 0..MaxFires
        /\ mutationEpochBaseline \in Baselines /\ mutationEpochChanged \in BOOLEAN
        /\ verifiedOk => clock.pendingMutations = 0
        /\ mutationEpochBaseline.live => clock.pendingMutations > 0
    BY DEF IInv, TypeOK, CountInv
  <2>6. \A d \in stale \ failedEdits :
          /\ verifiedOk => Unseen(d)'
          /\ Restorable /\ mutationEpochBaseline.verifiedOk => d \in owed' \/ Unseen(d)'
          /\ mutated \/ Unreported(d)'
          /\ Restorable => mutationEpochBaseline.mutated \/ d \in owed' \/ Unreported(d)'
    BY <1>11, <1>12 DEF IInv, TypeOK, GreenInv, HasWritten
  <2>1. CASE ~ mutation
    <3>1. clock'.pendingMutations = clock.pendingMutations
      BY <1>9, <2>1
    <3>2. UNCHANGED <<mutated, verifiedOk, fires, mutationEpochBaseline, mutationEpochChanged>>
      BY <1>10, <2>1
    <3>3. GreenInv'
      BY <1>11, <2>6, <3>2 DEF GreenInv, Restorable
    <3> QED BY <2>5, <3>1, <3>2, <3>3
  <2>2. CASE mutation /\ prevented /\ ~ HasPendingMutations(clock)
    <3>1. clock'.pendingMutations = clock.pendingMutations
      BY <1>9, <2>2
    <3>2. /\ UNCHANGED <<mutated, verifiedOk, fires>>
          /\ mutationEpochBaseline' = NoBaseline /\ mutationEpochChanged' = FALSE
      BY <1>10, <2>2
    <3>3. mutationEpochBaseline' \in Baselines /\ ~ mutationEpochBaseline'.live
      BY <2>0, <3>2
    <3>4. GreenInv'
      BY <1>11, <2>6, <3>2, <3>3 DEF GreenInv, Restorable
    <3> QED BY <2>5, <3>1, <3>2, <3>3, <3>4
  <2>3. CASE mutation /\ prevented /\ HasPendingMutations(clock)
    <3>1. clock'.pendingMutations = clock.pendingMutations /\ HasPendingMutations(clock')
      BY <1>9, <2>3 DEF HasPendingMutations
    <3>2. SettleMutationEpoch(clock', FALSE, mutated, FALSE, 0)
      BY <1>10, <2>3
    <3>3. /\ mutated' = mutated /\ verifiedOk' = FALSE /\ fires' = 0
          /\ mutationEpochChanged' = mutationEpochChanged
          /\ mutationEpochBaseline' = mutationEpochBaseline
      BY <3>1, <3>2 DEF SettleMutationEpoch, IInv, TypeOK
    <3>4. GreenInv'
      BY <1>11, <2>6, <3>3 DEF GreenInv, Restorable
    <3> QED BY <2>0, <2>5, <3>1, <3>3, <3>4
  <2>4. CASE mutation /\ ~ prevented
    <3>1. clock'.pendingMutations > 0
      BY <1>1, <1>9, <2>4
    <3>2. mutated' = mutated /\ verifiedOk' = FALSE /\ fires' = 0
      BY <1>10, <2>4
    <3>3. CASE HasPendingMutations(clock)
      <4>1. UNCHANGED <<mutationEpochBaseline, mutationEpochChanged>>
        BY <1>10, <2>4, <3>3
      <4>2. GreenInv'
        BY <1>11, <2>6, <3>2, <4>1 DEF GreenInv, Restorable
      <4> QED BY <2>0, <2>5, <3>1, <3>2, <4>1, <4>2
    <3>4. CASE ~ HasPendingMutations(clock)
      <4>1. /\ mutationEpochBaseline' =
                 [mutated |-> mutated, verifiedOk |-> verifiedOk, fires |-> fires, live |-> TRUE]
            /\ mutationEpochChanged' = FALSE
        BY <1>10, <2>4, <3>4
      <4>2. /\ mutationEpochBaseline'.mutated = mutated /\ mutationEpochBaseline'.live
            /\ mutationEpochBaseline'.verifiedOk = verifiedOk
            /\ mutationEpochBaseline' \in Baselines
        BY <2>0, <4>1
      <4>3. GreenInv'
        BY <1>11, <2>6, <3>2, <4>1, <4>2 DEF GreenInv, Restorable
      <4> QED BY <2>0, <2>5, <3>1, <3>2, <4>1, <4>2, <4>3
    <3> QED BY <3>3, <3>4
  <2> QED BY <2>1, <2>2, <2>3, <2>4
<1>15. /\ kind = StartKind(tool[c]) /\ (prevented => c \in preventedBeforeStart)
       /\ kind = "source_mutation" <=> IsMutation(c)
  BY DEF kind, refusal, prevented, StartKind, ClassifyStart, IsMutation
<1>16. TypeOK'
  BY <1>4, <1>9, <1>14 DEF IInv, TypeOK, GoodClock, SessionCap
<1>17. CallsInv'
  <2> SUFFICES ASSUME NEW d \in Calls
               PROVE  /\ phase[d] = "idle" => d \notin turnCalls /\ ~ IsPending(clock', d)
                      /\ d \in preventedBeforeStart' => phase[d] = "refused"
                      /\ d \in started' => phase[d] # "idle"
                      /\ IsPending(clock', d) =>
                           KindFor(clock', d) \in {StartKind(tool[d]), ClassifyStart(tool[d])}
                      /\ IsPending(clock', d) /\ d \notin started' =>
                           d \notin turnCalls \/ (turnPhase = "ending" /\ d \notin todo)
                      /\ HasCompleted(clock', d) =>
                           d \in started' /\ (d \in ended \/ phase[d] = "refused")
                      /\ IsPending(clock', d) => ~ HasCompleted(clock', d)
    BY <1>4 DEF IInv, CallsInv, HasWritten, IsMutation
  <2>1. /\ phase[d] = "idle" => d \notin turnCalls /\ ~ IsPending(clock, d)
        /\ d \in preventedBeforeStart => phase[d] = "refused"
        /\ d \in started => phase[d] # "idle"
        /\ IsPending(clock, d) =>
             KindFor(clock, d) \in {StartKind(tool[d]), ClassifyStart(tool[d])}
        /\ IsPending(clock, d) /\ d \notin started =>
             d \notin turnCalls \/ (turnPhase = "ending" /\ d \notin todo)
        /\ HasCompleted(clock, d) =>
             d \in started /\ (d \in ended \/ phase[d] = "refused")
        /\ IsPending(clock, d) => ~ HasCompleted(clock, d)
    BY DEF IInv, CallsInv
  <2>2. d # c => (IsPending(clock', d) => IsPending(clock, d) /\ KindFor(clock', d) = KindFor(clock, d))
    BY <1>9 DEF IsPending, KindFor, NotPending
  <2>3. IsPending(clock', c) => KindFor(clock', c) = kind /\ ~ HasCompleted(clock', c)
    BY <1>2, <1>9 DEF IsPending, KindFor, NotPending
  <2> QED BY <1>2, <1>4, <1>9, <1>15, <2>1, <2>2, <2>3
<1>18. CountInv'
  <2>1. \A d \in Calls : KindFor(clock', d) = "source_mutation" => d \in owed'
    BY <1>4, <1>9 DEF IInv, CountInv, KindFor, NotPending, mutation
  <2>2. \A d \in started' \ ended' :
          d \in turnCalls /\ IsMutation(d) /\ phase[d] # "refused" => d \in owed'
    BY <1>2, <1>4, <1>15 DEF IInv, CountInv, IsMutation, mutation, prevented, refusal
  <2> QED BY <1>4, <1>13, <1>14, <2>1, <2>2 DEF CountInv, IsMutation
<1>19. OrderInv'
  <2>1. clock'.boundary =< clock'.sequence
    BY <1>1, <1>9 DEF IInv, OrderInv
  <2>2. \A d \in Calls : clock.pending[d].started \in Nat
    BY DEF IInv, TypeOK, Clocks
  <2>3. \A d \in Calls : IsPending(clock', d) => clock'.pending[d].started =< clock'.sequence
    BY <1>1, <1>9, <2>2 DEF IInv, OrderInv, IsPending, NotPending
  <2>4. \A d \in started' \cap turnCalls :
          KindFor(clock', d) = "verification" /\ since[d] # {}
          => /\ d \in started /\ KindFor(clock, d) = "verification"
             /\ clock'.pending[d] = clock.pending[d]
    BY <1>2, <1>4, <1>9 DEF KindFor, NotPending, IInv, TypeOK, CallsInv
  <2>5. \A d \in Calls : \A e \in since[d] : Unseen(e) => Unseen(e)'
    BY <1>11 DEF IInv, TypeOK, HasWritten
  <2> QED BY <1>2, <1>4, <1>9, <1>11, <2>1, <2>3, <2>4, <2>5 DEF IInv, TypeOK, OrderInv, KindFor
<1> QED BY <1>14, <1>16, <1>17, <1>18, <1>19 DEF IInv

(* An end: a gate that a write overtook is not ordered, and a mutation     *)
(* that does not count is an edit that failed.                             *)
LEMMA ToolExecutionEndIInv ==
  ASSUME IInv, NEW c \in Calls, NEW isError \in PossibleErrors(c),
         ToolExecutionEnd(c, isError)
  PROVE  IInv'
<1> USE DEF vars, clockVars, stVars, treeVars, hostVars
<1> DEFINE clkAfter  == Finish(clock, c)
           kind   == KindFor(clock, c)
           counts == kind = "source_mutation" /\ MutationCounts(c, isError)
           valid  == ~ isError /\ VerificationOrdered(clock, c)
<1>1. /\ GoodClock(clock) /\ clock.pendingMutations \in Nat /\ clock.sequence \in Nat
      /\ clock.boundary \in Nat
  BY ClockIsGood DEF IInv
<1>2. /\ phase[c] \in {"returned", "refused"} /\ turnPhase = "open"
      /\ c \in turnCalls /\ c \notin ended
      /\ ended' = ended \cup {c} /\ clock' = clkAfter
      /\ owed' = IF CanSettle(clock, c) THEN owed \ {c} ELSE owed
      /\ since' = [since EXCEPT ![c] = {}]
      /\ UNCHANGED <<sessionFires, nagAwaitingEvidence, preventedBeforeStart, tool,
                      phase, started, turnCalls, todo, turnPhase>>
  BY DEF ToolExecutionEnd
<1>3. /\ GoodClock(clkAfter)
      /\ clkAfter.sequence = IF CanSettle(clock, c) THEN clock.sequence + 1 ELSE clock.sequence
      /\ clkAfter.boundary = IF CanSettle(clock, c) /\ kind = "source_mutation"
                            THEN clock.sequence + 1 ELSE clock.boundary
      /\ clkAfter.pendingMutations =
           IF CanSettle(clock, c) THEN OneMutationLess(clock, c) ELSE clock.pendingMutations
      /\ \A d \in Calls : clkAfter.pending[d] =
           IF d = c /\ CanSettle(clock, c) THEN NotPending ELSE clock.pending[d]
      /\ \A d \in Calls : HasCompleted(clkAfter, d) =>
           (d = c /\ CanSettle(clock, c)) \/ HasCompleted(clock, d)
  BY <1>1, FinishFacts
<1> HIDE DEF clkAfter
<1>31. /\ since' \in [Calls -> SUBSET Calls]
       /\ \A d \in Calls : since'[d] = IF d = c THEN {} ELSE since[d]
       /\ \A d \in Calls : (d = c => since'[d] = {}) /\ (d # c => since'[d] = since[d])
  BY <1>2 DEF IInv, TypeOK
<1>32. \A d \in Calls : Unseen(d)' <=> Unseen(d)
  BY <1>2 DEF Unseen
<1>4. CASE ~ CanSettle(clock, c)
  <2>1. UNCHANGED <<mutated, verifiedOk, fires, mutationEpochBaseline,
                    mutationEpochChanged, stale, failedEdits>>
    BY <1>4 DEF ToolExecutionEnd
  <2>2. TypeOK'
    BY <1>2, <1>3, <1>4, <1>31, <2>1 DEF IInv, TypeOK, GoodClock, SessionCap
  <2>3. CallsInv'
    <3>1. \A d \in Calls : HasWritten(d)' => HasWritten(d)
      BY <1>31, <2>1 DEF HasWritten
    <3> QED BY <1>2, <1>3, <1>4, <1>31, <3>1 DEF IInv, TypeOK, CallsInv, IsMutation, IsPending,
                                              KindFor
  <2>4. CountInv'
    BY <1>2, <1>3, <1>4, <2>1 DEF IInv, TypeOK, CountInv, IsMutation, KindFor
  <2>5. OrderInv'
    BY <1>2, <1>3, <1>4, <1>31, <1>32, <2>1 DEF IInv, TypeOK, OrderInv, KindFor, IsPending
  <2>6. GreenInv'
    BY <1>2, <1>3, <1>4, <2>1 DEF IInv, TypeOK, GreenInv, Restorable, Unseen, Unreported
  <2> QED BY <2>2, <2>3, <2>4, <2>5, <2>6 DEF IInv
<1>5. CASE CanSettle(clock, c)
  <2>1. IsPending(clock, c) /\ ~ HasCompleted(clock, c)
    BY <1>5 DEF CanSettle
  <2>2. /\ c \in started /\ kind \in Kinds
        /\ kind = "source_mutation" <=> IsMutation(c)
    BY <1>2, <2>1 DEF IInv, CallsInv, StartKind, ClassifyStart, IsMutation, Kinds
  <2>3. /\ owed' = owed \ {c} /\ \A d \in Calls : IsPending(clkAfter, d) =>
                                    IsPending(clock, d) /\ d # c
    BY <1>2, <1>3, <1>5 DEF IsPending, NotPending
  <2>4. /\ clock.pendingMutations >= Cardinality(owed) /\ Cardinality(owed) \in Nat
        /\ Cardinality(owed') \in Nat
        /\ c \in owed => Cardinality(owed') = Cardinality(owed) - 1
        /\ c \notin owed => Cardinality(owed') = Cardinality(owed)
        /\ kind = "source_mutation" => c \in owed
        /\ Cardinality(owed) = 0 => owed = {}
    BY <2>3, OwedCard DEF IInv, CountInv
  <2>5. clkAfter.pendingMutations >= Cardinality(owed') /\ clkAfter.pendingMutations \in Nat
    BY <1>1, <1>3, <1>5, <2>4 DEF OneMutationLess
  <2>6. /\ stale' = stale \/ (kind = "verification" /\ valid /\ stale' = since[c])
        /\ failedEdits \subseteq failedEdits' /\ failedEdits' \subseteq failedEdits \cup {c}
        /\ kind = "source_mutation" /\ ~ counts => c \in failedEdits'
    <3>1. CASE kind = "other"
      BY <1>5, <3>1 DEF ToolExecutionEnd
    <3>2. CASE kind = "verification"
      BY <1>5, <3>2 DEF ToolExecutionEnd
    <3>3. CASE kind = "source_mutation"
      <4>1. /\ stale' = stale
            /\ failedEdits' = IF isError /\ tool[c] = "edit"
                                THEN failedEdits \cup {c} ELSE failedEdits
        BY <1>5, <3>3 DEF ToolExecutionEnd
      <4>2. tool[c] \in {"edit", "shell"}
        BY <2>2, <3>3 DEF IsMutation, ClassifyStart
      <4> QED BY <3>3, <4>1, <4>2 DEF MutationCounts
    <3> QED BY <2>2, <3>1, <3>2, <3>3 DEF Kinds
  <2>7. \A d \in Calls : HasWritten(d)' => HasWritten(d)
    BY <1>31, <2>6 DEF HasWritten
  <2>8. /\ \A d \in Calls : Unreported(d) => Unreported(d)' \/ d = c
        /\ \A d \in owed : d \in owed' \/ d = c
        /\ HasWritten(c) => kind = "source_mutation"
    BY <1>2, <1>3, <2>2, <2>3 DEF Unreported, IInv, CallsInv
  <2>9. /\ mutated' \in BOOLEAN /\ verifiedOk' \in BOOLEAN /\ fires' \in 0..MaxFires
        /\ mutationEpochBaseline' \in Baselines /\ mutationEpochChanged' \in BOOLEAN
        /\ verifiedOk' => clkAfter.pendingMutations = 0
        /\ mutationEpochBaseline'.live => clkAfter.pendingMutations > 0
        /\ GreenInv'
    <3>1. /\ mutated \in BOOLEAN /\ verifiedOk \in BOOLEAN /\ fires \in 0..MaxFires
          /\ mutationEpochBaseline \in Baselines /\ mutationEpochChanged \in BOOLEAN
          /\ verifiedOk => clock.pendingMutations = 0
          /\ mutationEpochBaseline.live => clock.pendingMutations > 0
      BY DEF IInv, TypeOK, CountInv
    <3>2. \A d \in stale \ failedEdits' :
            \/ d = c /\ kind = "source_mutation" /\ counts
            \/ /\ verifiedOk => Unseen(d)'
               /\ Restorable /\ mutationEpochBaseline.verifiedOk => d \in owed' \/ Unseen(d)'
               /\ mutated \/ Unreported(d)'
               /\ Restorable => mutationEpochBaseline.mutated \/ d \in owed' \/ Unreported(d)'
      BY <1>32, <2>6, <2>8 DEF IInv, TypeOK, GreenInv, HasWritten
    <3>4. CASE kind = "other"
      <4>1. UNCHANGED <<mutated, verifiedOk, fires, mutationEpochBaseline,
                        mutationEpochChanged, stale>>
        BY <1>5, <3>4 DEF ToolExecutionEnd
      <4>2. clkAfter.pendingMutations = clock.pendingMutations
        BY <1>3, <1>5, <3>4 DEF OneMutationLess
      <4>3. GreenInv'
        BY <3>2, <3>4, <4>1 DEF GreenInv, Restorable
      <4> QED BY <3>1, <4>1, <4>2, <4>3
    <3>5. CASE kind = "verification"
      <4>1. /\ verifiedOk' = valid /\ stale' = IF valid THEN since[c] ELSE stale
            /\ UNCHANGED <<mutated, fires, mutationEpochBaseline, mutationEpochChanged>>
        BY <1>5, <3>5 DEF ToolExecutionEnd
      <4>2. clkAfter.pendingMutations = clock.pendingMutations
        BY <1>3, <1>5, <3>5 DEF OneMutationLess
      <4>3. valid => /\ clock.pendingMutations = 0
                     /\ clock.pending[c].started > clock.boundary
        BY DEF VerificationOrdered
      <4>4. clock.pending[c].started \in Nat
        BY DEF IInv, TypeOK, Clocks
      <4>5. valid => owed = {}
        BY <2>4, <4>3
      <4>6. valid => \A d \in since[c] : Unseen(d)
        BY <1>1, <1>2, <2>2, <3>5, <4>3, <4>4, <4>5 DEF IInv, OrderInv
      <4>8. valid \in BOOLEAN
        BY DEF VerificationOrdered
      <4> HIDE DEF valid
      <4>9. CASE valid
        <5>1. verifiedOk' = TRUE /\ stale' = since[c]
          BY <4>1, <4>8, <4>9
        <5>2. ~ mutationEpochBaseline'.live
          BY <3>1, <4>1, <4>3, <4>9
        <5>3. \A d \in since[c] : Unseen(d)' /\ Unreported(d)'
          <6>1. \A d \in since[c] : d \in Calls /\ Unseen(d) /\ d # c
            BY <2>2, <4>6, <4>9 DEF IInv, TypeOK, Unseen
          <6>2. \A d \in since[c] : Unreported(d)
            BY <1>2, <6>1 DEF IInv, CallsInv, Unreported, Unseen
          <6> QED BY <1>32, <2>8, <6>1, <6>2
        <5>4. GreenInv'
          BY <5>1, <5>2, <5>3 DEF GreenInv, Restorable
        <5> QED BY <3>1, <4>1, <4>2, <4>3, <4>9, <5>1, <5>2, <5>4
      <4>10. CASE ~ valid
        <5>1. verifiedOk' = FALSE /\ stale' = stale
          BY <4>1, <4>8, <4>10
        <5>2. GreenInv'
          BY <3>2, <3>5, <4>1, <5>1 DEF GreenInv, Restorable
        <5> QED BY <3>1, <4>1, <4>2, <5>1, <5>2
      <4> QED BY <4>9, <4>10
    <3>6. CASE kind = "source_mutation"
      <4>1. /\ SettleMutationEpoch(clkAfter, counts, mutated \/ counts,
                                   verifiedOk /\ ~ counts, fires)
            /\ stale' = stale
        BY <1>5, <3>6 DEF ToolExecutionEnd, clkAfter
      <4>2. ~ verifiedOk
        BY <2>4, <3>1, <3>6, FS_EmptySet DEF IInv, CountInv
      <4>3. ~ HasPendingMutations(clkAfter) => owed' = {}
        <5> SUFFICES ASSUME ~ HasPendingMutations(clkAfter) PROVE owed' = {}
          OBVIOUS
        <5>1. Cardinality(owed') = 0
          BY <2>4, <2>5 DEF HasPendingMutations
        <5>2. IsFiniteSet(owed')
          BY <2>3, CallsFinite, FS_Subset DEF IInv, TypeOK
        <5> QED BY <5>1, <5>2, FS_EmptySet
      <4>5. NoBaseline \in Baselines /\ ~ NoBaseline.live
        BY FiresLimit DEF NoBaseline, Baselines
      <4>6. /\ mutationEpochBaseline.mutated \in BOOLEAN
            /\ mutationEpochBaseline.verifiedOk \in BOOLEAN
            /\ mutationEpochBaseline.fires \in 0..MaxFires
        BY <3>1 DEF Baselines
      <4>7. /\ HasPendingMutations(clkAfter) => clkAfter.pendingMutations > 0
            /\ ~ HasPendingMutations(clkAfter) => clkAfter.pendingMutations = 0
        BY <2>5 DEF HasPendingMutations
      <4>8. counts \in BOOLEAN
        BY DEF MutationCounts
      <4> DEFINE restore == mutationEpochBaseline.live /\ ~ mutationEpochChanged /\ ~ counts
      <4> HIDE DEF HasPendingMutations, counts
      <4>9. CASE HasPendingMutations(clkAfter)
        <5>1. /\ mutated' = (mutated \/ counts) /\ verifiedOk' = FALSE /\ fires' = fires
              /\ mutationEpochChanged' = (mutationEpochChanged \/ counts)
              /\ mutationEpochBaseline' = mutationEpochBaseline
          BY <4>1, <4>2, <4>9, SettleCases
        <5>2. GreenInv'
          BY <3>2, <4>1, <5>1 DEF GreenInv, Restorable
        <5> QED BY <3>1, <4>7, <4>8, <4>9, <5>1, <5>2
      <4>10. CASE ~ HasPendingMutations(clkAfter) /\ restore
        <5>1. /\ mutated' = mutationEpochBaseline.mutated
              /\ verifiedOk' = mutationEpochBaseline.verifiedOk
              /\ fires' = mutationEpochBaseline.fires
              /\ mutationEpochChanged' = FALSE /\ mutationEpochBaseline' = NoBaseline
          BY <4>1, <4>10 DEF SettleMutationEpoch
        <5>2. GreenInv'
          BY <3>2, <4>1, <4>3, <4>5, <4>10, <5>1 DEF GreenInv, Restorable
        <5> QED BY <4>5, <4>6, <4>7, <4>10, <5>1, <5>2
      <4>11. CASE ~ HasPendingMutations(clkAfter) /\ ~ restore
        <5>1. /\ mutated' = (mutated \/ counts) /\ verifiedOk' = FALSE /\ fires' = fires
              /\ mutationEpochChanged' = FALSE /\ mutationEpochBaseline' = NoBaseline
          BY <4>1, <4>2, <4>11, SettleCases
        <5>2. GreenInv'
          BY <3>2, <4>1, <4>5, <5>1 DEF GreenInv, Restorable
        <5> QED BY <3>1, <4>5, <4>7, <4>8, <4>11, <5>1, <5>2
      <4> QED BY <4>9, <4>10, <4>11
    <3> QED BY <2>2, <3>4, <3>5, <3>6 DEF Kinds
  <2>10. TypeOK'
    <3>1. stale' \subseteq Calls /\ failedEdits' \subseteq Calls /\ owed' \subseteq Calls
      BY <2>3, <2>6 DEF IInv, TypeOK
    <3> QED BY <1>2, <1>3, <1>31, <2>9, <3>1 DEF IInv, TypeOK, GoodClock, SessionCap
  <2>11. CallsInv'
    BY <1>2, <1>3, <1>31, <2>2, <2>3, <2>7 DEF IInv, TypeOK, CallsInv, IsMutation, IsPending,
                                               KindFor
  <2>12. CountInv'
    <3>1. \A d \in Calls : KindFor(clkAfter, d) = "source_mutation" => d \in owed'
      BY <1>3, <1>5, <2>3 DEF IInv, CountInv, KindFor, NotPending
    <3> QED BY <1>2, <2>3, <2>5, <2>9, <3>1 DEF IInv, TypeOK, CountInv, IsMutation
  <2>13. OrderInv'
    <3>1. \A d \in Calls : clock.pending[d].started \in Nat
      BY DEF IInv, TypeOK, Clocks
    <3>2. \A d \in Calls : IsPending(clkAfter, d) => clkAfter.pending[d] = clock.pending[d]
      BY <1>3, <2>3
    <3>3. clkAfter.boundary =< clkAfter.sequence
      BY <1>1, <1>3 DEF IInv, OrderInv
    <3>4. \A d \in Calls : IsPending(clkAfter, d) => clkAfter.pending[d].started =< clkAfter.sequence
      BY <1>1, <1>3, <2>3, <3>1, <3>2 DEF IInv, OrderInv
    <3>5. \A g \in started \cap turnCalls : \A d \in since'[g] :
            KindFor(clkAfter, g) = "verification" =>
              clkAfter.pending[g].started =< clkAfter.boundary \/ d \in owed' \/ Unseen(d)'
      <4> SUFFICES ASSUME NEW g \in Calls, g \in started \cap turnCalls, NEW d \in since'[g],
                          KindFor(clkAfter, g) = "verification"
                   PROVE  \/ clkAfter.pending[g].started =< clkAfter.boundary
                          \/ d \in owed' \/ Unseen(d)'
        BY DEF IInv, TypeOK
      <4>1. IsPending(clkAfter, g) /\ IsPending(clock, g) /\ KindFor(clock, g) = "verification"
        BY <2>3, <3>2 DEF IsPending, KindFor
      <4>2. g # c /\ d \in since[g] /\ d \in Calls
        BY <1>31, <2>3, <4>1 DEF IInv, TypeOK
      <4>3. clock.pending[g].started =< clock.boundary \/ d \in owed \/ Unseen(d)
        BY <1>2, <4>1, <4>2 DEF IInv, OrderInv
      <4>4. CASE kind = "source_mutation"
        BY <1>1, <1>3, <1>5, <3>1, <3>2, <4>1, <4>4 DEF IInv, OrderInv
      <4>5. CASE kind # "source_mutation"
        <5>1. clkAfter.boundary = clock.boundary
          BY <1>3, <4>5
        <5>2. d # c
          BY <2>8, <4>2, <4>5 DEF HasWritten
        <5> QED BY <1>32, <2>8, <3>2, <4>1, <4>2, <4>3, <5>1, <5>2
      <4> QED BY <4>4, <4>5
    <3> QED BY <1>2, <3>3, <3>4, <3>5 DEF OrderInv
  <2> QED BY <2>9, <2>10, <2>11, <2>12, <2>13 DEF IInv
<1> QED BY <1>4, <1>5

-----------------------------------------------------------------------------
(* Stuttering steps.                                                       *)
LEMMA StutterIInv == IInv /\ UNCHANGED vars => IInv'
<1> SUFFICES ASSUME IInv, UNCHANGED vars PROVE IInv'
  OBVIOUS
<1> USE DEF vars, clockVars, stVars, treeVars, hostVars
<1>1. TypeOK'
  BY DEF IInv, TypeOK, SessionCap
<1>2. CallsInv'
  BY DEF IInv, CallsInv, HasWritten, IsMutation
<1>3. CountInv' /\ OrderInv' /\ GreenInv'
  BY DEF IInv, CountInv, OrderInv, GreenInv, IsMutation, Restorable, Unseen,
         Unreported
<1> QED BY <1>1, <1>2, <1>3 DEF IInv

LEMMA NextIInv == IInv /\ [Next]_vars => IInv'
<1> SUFFICES ASSUME IInv, [Next]_vars PROVE IInv'
  OBVIOUS
<1>1. ASSUME NEW c \in Calls, NEW t \in Tools, Issue(c, t) PROVE IInv'
  BY <1>1, IssueIInv
<1>2. ASSUME NEW c \in Calls, Run(c) PROVE IInv'
  BY <1>2, RunIInv
<1>3. ASSUME NEW c \in Calls, Write(c) PROVE IInv'
  BY <1>3, WriteIInv
<1>4. ASSUME NEW c \in Calls, Return(c) PROVE IInv'
  BY <1>4, ReturnIInv
<1>5. ASSUME NEW c \in Calls, ToolPrevented(c) PROVE IInv'
  BY <1>5, ToolPreventedIInv
<1>6. ASSUME NEW c \in Calls, ToolExecutionStart(c) PROVE IInv'
  BY <1>6, ToolExecutionStartIInv
<1>7. ASSUME NEW c \in Calls, NEW e \in PossibleErrors(c), ToolExecutionEnd(c, e) PROVE IInv'
  BY <1>7, ToolExecutionEndIInv
<1>8. ASSUME NEW c \in Calls, TurnEndCall(c) PROVE IInv'
  BY <1>8, TurnEndCallIInv
<1>9. ASSUME TurnEndBegin PROVE IInv'
  BY <1>9, TurnEndBeginIInv
<1>10. ASSUME NEW p \in BOOLEAN, TurnEndFinish(p) PROVE IInv'
  BY <1>10, TurnEndFinishIInv
<1>11. ASSUME SessionStart PROVE IInv'
  BY <1>11, SessionStartIInv
<1> QED BY <1>1, <1>2, <1>3, <1>4, <1>5, <1>6, <1>7, <1>8, <1>9, <1>10, <1>11, StutterIInv
        DEF Next

(* The inductive invariant holds in every reachable state.                 *)
THEOREM Invariance == Spec => []IInv
<1>1. Init => IInv
  BY InitIInv
<1>2. IInv /\ [Next]_vars => IInv'
  BY NextIInv
<1> QED BY <1>1, <1>2, PTL DEF Spec

(* Every variable keeps its type and no collection outgrows its bound.     *)
THEOREM TypeCorrect == Spec => []TypeOK
<1>1. IInv => TypeOK
  BY DEF IInv
<1> QED BY <1>1, Invariance, PTL

(* Under a green, whoever wrote since the accepted gate began is either    *)
(* unannounced yet or an edit that reported a failure.                     *)
THEOREM GreenIsFreshAlways == Spec => []GreenIsFresh
<1>1. IInv => GreenIsFresh
  BY DEF IInv, GreenInv, GreenIsFresh
<1> QED BY <1>1, Invariance, PTL

(* Between turns an unverified tree is warned about, unless failed edits   *)
(* alone wrote to it.                                                      *)
THEOREM HandoffSoundAlways == Spec => []HandoffSound
<1>1. IInv => HandoffSound
  <2> SUFFICES ASSUME IInv, turnPhase = "open", turnCalls = {},
                      ~ (stale \subseteq failedEdits)
               PROVE  mutated /\ ~ verifiedOk
    BY DEF HandoffSound, Warns
  <2>1. PICK c \in stale \ failedEdits : TRUE
    OBVIOUS
  <2>2. ~ Unseen(c) /\ ~ Unreported(c)
    BY DEF Unseen, Unreported
  <2> QED BY <2>1, <2>2 DEF IInv, GreenInv
<1> QED BY <1>1, Invariance, PTL

(* A mutation that has not settled forbids a green.                        *)
THEOREM NoGreenWhileOwedAlways == Spec => []NoGreenWhileOwed
<1>1. IInv => NoGreenWhileOwed
  <2> SUFFICES ASSUME IInv, verifiedOk, owed # {} PROVE FALSE
    BY DEF NoGreenWhileOwed
  <2>1. IsFiniteSet(owed)
    BY CallsFinite, FS_Subset DEF IInv, TypeOK
  <2>2. Cardinality(owed) \in Nat /\ Cardinality(owed) # 0
    BY <2>1, FS_CardinalityType, FS_EmptySet
  <2> QED BY <2>2 DEF IInv, CountInv
<1> QED BY <1>1, Invariance, PTL
-----------------------------------------------------------------------------
(* Reuse of a result.                                                      *)

(* An epoch is never ahead of changeEpoch, and a reused result ends a call.*)
EpochInv ==
  /\ \A g \in Gates : /\ epoch[g] =< changeEpoch
                      /\ reused[g] => pc[g] = "done"
  /\ lastGate.epoch =< changeEpoch

(* Unless a writer wrote late, what a call fingerprinted is what it found, *)
(* ignored files included.                                                 *)
CallInv ==
  /\ tree.visible \in seen
  /\ \A g \in Gates :
       /\ fingerprint[g] # Unknown =>
            pc[g] \notin {"idle", "begun"} /\ fingerprint[g] \in seen
       /\ pc[g] = "printed" /\ fingerprint[g] # Unknown =>
            /\ found[g] \in Trees /\ found[g].visible = fingerprint[g]
            /\ Current(g) /\ ~ lateWrite => found[g].ignored = tree.ignored

(* A gate that was not cut short saw the fingerprinted tree, or a gate has *)
(* written since and the fingerprint will never come back.                 *)
TestInv ==
  \A g \in Gates :
    /\ pc[g] \in {"checking", "checked"} => fingerprint[g] # Unknown
    /\ /\ pc[g] \in {"tested", "checking", "checked"}
       /\ testedOn[g] # NoTree /\ Current(g) /\ ~ lateWrite /\ fingerprint[g] # Unknown
       => /\ testedOn[g].ignored = tree.ignored
          /\ testedOn[g].visible = fingerprint[g] \/ tree.visible # fingerprint[g]
          /\ pc[g] = "checked" /\ after[g] = fingerprint[g] =>
               testedOn[g].visible = fingerprint[g]

ReuseInv == ReuseTypeOK /\ EpochInv /\ CallInv /\ TestInv /\ RecordCoversTree /\ ReuseSound

-----------------------------------------------------------------------------
(* The initial states satisfy the inductive invariant.                     *)
LEMMA InitReuseInv == ReuseInit => ReuseInv
<1> SUFFICES ASSUME ReuseInit PROVE ReuseInv
  OBVIOUS
<1>1. ReuseTypeOK
  <2>1. tree \in Trees /\ tree.visible \in Visible
    BY DEF ReuseInit, Trees
  <2>2. 0 \in 0..MaxEpoch
    BY EpochBound
  <2>3. NoGate \in [live: BOOLEAN, epoch: 0..MaxEpoch, fingerprint: Prints,
                   testedOn: Trees \cup {NoTree}]
    BY <2>2 DEF NoGate, Prints
  <2> QED BY <2>1, <2>2, <2>3 DEF ReuseInit, ReuseTypeOK, Prints, Steps
<1>2. EpochInv /\ ReuseSound
  BY DEF ReuseInit, EpochInv, ReuseSound, NoGate
<1>3. CallInv /\ TestInv
  BY DEF ReuseInit, CallInv, TestInv
<1>4. RecordCoversTree
  BY DEF ReuseInit, RecordCoversTree, RecordIsCurrent, NoGate
<1> QED BY <1>1, <1>2, <1>3, <1>4 DEF ReuseInv

(* Begin: the call has found nothing yet.                                  *)
LEMMA BeginReuseInv ==
  ASSUME ReuseInv, NEW g \in Gates, Begin(g)
  PROVE  ReuseInv'
<1>1. ReuseTypeOK'
  BY DEF ReuseInv, ReuseTypeOK, Begin, Advance, world, Steps
<1>2. EpochInv'
  BY DEF ReuseInv, ReuseTypeOK, EpochInv, Begin, Advance, world, Steps
<1>3. CallInv'
  BY DEF ReuseInv, CallInv, Begin, Advance, world, Current
<1>4. TestInv'
  BY DEF ReuseInv, TestInv, Begin, Advance, world, Current
<1>5. RecordCoversTree'
  BY DEF ReuseInv, RecordCoversTree, RecordIsCurrent, Begin, Advance, world, Current
<1>6. ReuseSound'
  BY DEF ReuseInv, EpochInv, ReuseSound, Begin, Advance, world
<1>. QED BY <1>1, <1>2, <1>3, <1>4, <1>5, <1>6 DEF ReuseInv

(* Fingerprint: what is found is what is fingerprinted.                  *)
LEMMA FingerprintReuseInv ==
  ASSUME ReuseInv, NEW g \in Gates, NEW b \in BOOLEAN, Fingerprint(g, b)
  PROVE  ReuseInv'
<1>1. ReuseTypeOK'
  BY DEF ReuseInv, ReuseTypeOK, Fingerprint, Advance, world, Trees, Prints, Steps
<1>2. EpochInv'
  BY DEF ReuseInv, EpochInv, Fingerprint, Advance, world, Trees, Prints, Steps
<1>3. CallInv'
  BY DEF ReuseInv, ReuseTypeOK, CallInv, Fingerprint, Advance, world, Current
<1>4. TestInv'
  BY DEF ReuseInv, TestInv, Fingerprint, Advance, world, Current
<1>5. RecordCoversTree'
  BY DEF ReuseInv, RecordCoversTree, RecordIsCurrent, Fingerprint, Advance, world
<1>6. ReuseSound'
  BY DEF ReuseInv, EpochInv, ReuseSound, Fingerprint, Advance, world
<1>. QED BY <1>1, <1>2, <1>3, <1>4, <1>5, <1>6 DEF ReuseInv

(* Decide: a reused result is about the recorded fingerprint and the     *)
(* ignored files of this epoch.                                          *)
LEMMA DecideReuseInv ==
  ASSUME ReuseInv, NEW g \in Gates, NEW b \in BOOLEAN, Decide(g, b)
  PROVE  ReuseInv'
<1>1. ReuseTypeOK'
  BY DEF ReuseInv, ReuseTypeOK, Decide, Advance, world, Reusable, Steps
<1>2. EpochInv'
  BY DEF ReuseInv, ReuseTypeOK, EpochInv, Decide, Advance, world, Reusable, Steps
<1>3. CallInv'
  BY DEF ReuseInv, ReuseTypeOK, CallInv, Decide, Advance, world, Current
<1>4. TestInv'
  BY DEF ReuseInv, TestInv, Decide, Advance, world, Reusable, Current
<1>5. RecordCoversTree'
  BY DEF ReuseInv, RecordCoversTree, RecordIsCurrent, Decide, Advance, world, Reusable
<1>6. ReuseSound'
  <2> SUFFICES ASSUME NEW h \in Gates, reused'[h], epoch[h] = changeEpoch, ~ lateWrite
               PROVE  testedOn'[h] \in {found'[h], NoTree}
    BY DEF ReuseSound, Decide, world
  <2>1. CASE h # g
    BY <2>1 DEF ReuseInv, ReuseTypeOK, ReuseSound, Decide, world
  <2>2. CASE h = g
    <3>1. Reusable(g) /\ pc[g] = "printed" /\ testedOn'[g] = lastGate.testedOn /\ found'[g] = found[g]
      BY <2>2 DEF ReuseInv, ReuseTypeOK, Decide, Advance
    <3>2. found[g] \in Trees /\ found[g].visible = lastGate.fingerprint
          /\ found[g].ignored = tree.ignored
      BY <2>2, <3>1 DEF ReuseInv, CallInv, Current, Reusable
    <3>3. CASE lastGate.testedOn # NoTree
      <4>1. lastGate.testedOn \in Trees
        BY <3>3 DEF ReuseInv, ReuseTypeOK
      <4>2. /\ lastGate.testedOn.visible = found[g].visible
            /\ lastGate.testedOn.ignored = found[g].ignored
        BY <2>2, <3>1, <3>2, <3>3 DEF ReuseInv, RecordCoversTree, RecordIsCurrent, Reusable
      <4> QED BY <2>2, <3>1, <3>2, <4>1, <4>2 DEF Trees
    <3> QED BY <2>2, <3>1, <3>3
  <2> QED BY <2>1, <2>2
<1>. QED BY <1>1, <1>2, <1>3, <1>4, <1>5, <1>6 DEF ReuseInv

(* Test: the gate sees the fingerprinted tree or one written since.      *)
LEMMA TestReuseInv ==
  ASSUME ReuseInv, NEW g \in Gates, NEW b \in BOOLEAN, Test(g, b)
  PROVE  ReuseInv'
<1>1. ReuseTypeOK'
  BY DEF ReuseInv, ReuseTypeOK, Test, Advance, world, Steps
<1>2. EpochInv'
  BY DEF ReuseInv, EpochInv, Test, Advance, world, Steps
<1>3. CallInv'
  BY DEF ReuseInv, CallInv, Test, Advance, world, Current
<1>4. TestInv'
  BY DEF ReuseInv, ReuseTypeOK, TestInv, Test, Advance, world, Current
<1>5. RecordCoversTree'
  BY DEF ReuseInv, RecordCoversTree, RecordIsCurrent, Test, Advance, world
<1>6. ReuseSound'
  BY DEF ReuseInv, EpochInv, ReuseSound, Test, Advance, world
<1>. QED BY <1>1, <1>2, <1>3, <1>4, <1>5, <1>6 DEF ReuseInv

(* GateWrites: a new content hides the fingerprinted one for good.       *)
LEMMA GateWritesReuseInv ==
  ASSUME ReuseInv, NEW g \in Gates, NEW t \in Trees, GateWrites(g, t)
  PROVE  ReuseInv'
<1>1. ReuseTypeOK'
  BY DEF ReuseInv, ReuseTypeOK, GateWrites, Change, locals, world, Trees
<1>2. EpochInv'
  BY DEF ReuseInv, EpochInv, GateWrites, Change, locals, world, Trees
<1>3. CallInv'
  BY DEF ReuseInv, CallInv, GateWrites, Change, locals, world, Current
<1>4. TestInv'
  BY DEF ReuseInv, CallInv, TestInv, GateWrites, Change, locals, world, Current
<1>5. RecordCoversTree'
  BY DEF ReuseInv, RecordCoversTree, RecordIsCurrent, GateWrites, Change, locals, world
<1>6. ReuseSound'
  BY DEF ReuseInv, ReuseSound, GateWrites, Change, locals, world
<1>. QED BY <1>1, <1>2, <1>3, <1>4, <1>5, <1>6 DEF ReuseInv

(* Ended: the call goes on only with a fingerprint.                      *)
LEMMA EndedReuseInv ==
  ASSUME ReuseInv, NEW g \in Gates, Ended(g)
  PROVE  ReuseInv'
<1>1. ReuseTypeOK'
  BY DEF ReuseInv, ReuseTypeOK, TestInv, Ended, Advance, world, Steps
<1>2. EpochInv'
  BY DEF ReuseInv, EpochInv, Ended, Advance, world, Steps
<1>3. CallInv'
  BY DEF ReuseInv, CallInv, Ended, Advance, world, Current
<1>4. TestInv'
  BY DEF ReuseInv, TestInv, Ended, Advance, world, Current
<1>5. RecordCoversTree'
  BY DEF ReuseInv, RecordCoversTree, RecordIsCurrent, Ended, Advance, world, Current
<1>6. ReuseSound'
  BY DEF ReuseInv, ReuseSound, Ended, Advance, world
<1>. QED BY <1>1, <1>2, <1>3, <1>4, <1>5, <1>6 DEF ReuseInv

(* FingerprintAgain: an equal fingerprint shows the gate saw that tree.  *)
LEMMA FingerprintAgainReuseInv ==
  ASSUME ReuseInv, NEW g \in Gates, NEW b \in BOOLEAN, FingerprintAgain(g, b)
  PROVE  ReuseInv'
<1>1. ReuseTypeOK'
  BY DEF ReuseInv, ReuseTypeOK, FingerprintAgain, Advance, world, Trees, Prints, Steps
<1>2. EpochInv'
  BY DEF ReuseInv, EpochInv, FingerprintAgain, Advance, world, Trees, Prints, Steps
<1>3. CallInv'
  BY DEF ReuseInv, CallInv, FingerprintAgain, Advance, world, Current
<1>4. TestInv'
  BY DEF ReuseInv, ReuseTypeOK, TestInv, FingerprintAgain, Advance, world, Current
<1>5. RecordCoversTree'
  BY DEF ReuseInv, RecordCoversTree, RecordIsCurrent, FingerprintAgain, Advance, world
<1>6. ReuseSound'
  BY DEF ReuseInv, ReuseSound, FingerprintAgain, Advance, world
<1>. QED BY <1>1, <1>2, <1>3, <1>4, <1>5, <1>6 DEF ReuseInv

(* Record: only a result of the current epoch is recorded.               *)
LEMMA RecordReuseInv ==
  ASSUME ReuseInv, NEW g \in Gates, Record(g)
  PROVE  ReuseInv'
<1>1. ReuseTypeOK'
  BY EpochBound
  DEF ReuseInv, ReuseTypeOK, TestInv, Record, Advance, world, Recordable, NoGate, Prints, Steps
<1>2. EpochInv'
  BY DEF ReuseInv, ReuseTypeOK, EpochInv, Record, Advance, world, Recordable, NoGate
<1>3. CallInv'
  BY DEF ReuseInv, CallInv, Record, Advance, world, Recordable, Current
<1>4. TestInv'
  BY DEF ReuseInv, TestInv, Record, Advance, world, Recordable, Current
<1>5. RecordCoversTree'
  <2>1. pc[g] = "checked" /\ fingerprint[g] # Unknown /\ UNCHANGED world
    BY DEF ReuseInv, TestInv, Record, Advance
  <2>2. CASE Recordable(g)
    BY <2>1, <2>2 DEF ReuseInv, TestInv, RecordCoversTree, RecordIsCurrent, Record,
                      Recordable, Current, world
  <2>3. CASE ~ Recordable(g)
    BY <2>3 DEF RecordCoversTree, RecordIsCurrent, Record, NoGate
  <2> QED BY <2>2, <2>3
<1>6. ReuseSound'
  BY DEF ReuseInv, ReuseSound, Record, Advance, world, Recordable
<1>. QED BY <1>1, <1>2, <1>3, <1>4, <1>5, <1>6 DEF ReuseInv

(* GateReturn: the slot is free again.                                       *)
LEMMA GateReturnReuseInv ==
  ASSUME ReuseInv, NEW g \in Gates, GateReturn(g)
  PROVE  ReuseInv'
<1>1. ReuseTypeOK'
  BY EpochBound DEF ReuseInv, ReuseTypeOK, GateReturn, Advance, world, Prints, Steps
<1>2. EpochInv'
  BY DEF ReuseInv, ReuseTypeOK, EpochInv, GateReturn, Advance, world, Prints, Steps
<1>3. CallInv'
  BY DEF ReuseInv, ReuseTypeOK, CallInv, GateReturn, Advance, world, Current
<1>4. TestInv'
  BY DEF ReuseInv, TestInv, GateReturn, Advance, world, Current
<1>5. RecordCoversTree'
  BY DEF ReuseInv, RecordCoversTree, RecordIsCurrent, GateReturn, Advance, world, Current
<1>6. ReuseSound'
  BY DEF ReuseInv, ReuseTypeOK, ReuseSound, GateReturn, Advance, world
<1>. QED BY <1>1, <1>2, <1>3, <1>4, <1>5, <1>6 DEF ReuseInv

(* WriterStart: every call and the record are out of their epoch.        *)
LEMMA WriterStartReuseInv ==
  ASSUME ReuseInv, NEW w \in Writers, WriterStart(w)
  PROVE  ReuseInv'
<1>1. ReuseTypeOK'
  <2>1. changeEpoch' \in 0..MaxEpoch
    BY EpochBound DEF ReuseInv, ReuseTypeOK, WriterStart
  <2> QED BY <2>1 DEF ReuseInv, ReuseTypeOK, WriterStart, locals
<1>2. EpochInv'
  BY DEF ReuseInv, ReuseTypeOK, EpochInv, WriterStart, locals, world
<1>3. CallInv'
  BY DEF ReuseInv, ReuseTypeOK, EpochInv, CallInv, WriterStart, locals, world, Current
<1>4. TestInv'
  BY DEF ReuseInv, ReuseTypeOK, EpochInv, TestInv, WriterStart, locals, world, Current
<1>5. RecordCoversTree'
  BY DEF ReuseInv, ReuseTypeOK, EpochInv, RecordCoversTree, RecordIsCurrent, WriterStart,
         locals
<1>6. ReuseSound'
  BY DEF ReuseInv, ReuseTypeOK, EpochInv, ReuseSound, WriterStart, locals, world
<1>. QED BY <1>1, <1>2, <1>3, <1>4, <1>5, <1>6 DEF ReuseInv

(* WriterWrites: what is current becomes history.                        *)
LEMMA WriterWritesReuseInv ==
  ASSUME ReuseInv, NEW w \in Writers, NEW t \in Trees, WriterWrites(w, t)
  PROVE  ReuseInv'
<1>1. ReuseTypeOK'
  BY DEF ReuseInv, ReuseTypeOK, WriterWrites, Change, locals, world, Trees
<1>2. EpochInv'
  BY DEF ReuseInv, EpochInv, WriterWrites, Change, locals, world, Trees
<1>3. CallInv'
  BY DEF ReuseInv, CallInv, WriterWrites, Change, locals, world, Current
<1>4. TestInv'
  BY DEF ReuseInv, CallInv, TestInv, WriterWrites, Change, locals, world, Current
<1>5. RecordCoversTree'
  BY DEF ReuseInv, RecordCoversTree, RecordIsCurrent, WriterWrites, Change, locals, world
<1>6. ReuseSound'
  BY DEF ReuseInv, ReuseSound, WriterWrites, Change, locals, world
<1>. QED BY <1>1, <1>2, <1>3, <1>4, <1>5, <1>6 DEF ReuseInv

(* WriterEnd: nothing but the set of writers changes.                    *)
LEMMA WriterEndReuseInv ==
  ASSUME ReuseInv, NEW w \in Writers, WriterEnd(w)
  PROVE  ReuseInv'
<1>1. ReuseTypeOK'
  BY DEF ReuseInv, ReuseTypeOK, WriterEnd, locals, world
<1>2. EpochInv'
  BY DEF ReuseInv, EpochInv, WriterEnd, locals, world
<1>3. CallInv'
  BY DEF ReuseInv, CallInv, WriterEnd, locals, world, Current
<1>4. TestInv'
  BY DEF ReuseInv, TestInv, WriterEnd, locals, world, Current
<1>5. RecordCoversTree'
  BY DEF ReuseInv, RecordCoversTree, RecordIsCurrent, WriterEnd, locals, world, Current
<1>6. ReuseSound'
  BY DEF ReuseInv, ReuseSound, WriterEnd, locals, world
<1>. QED BY <1>1, <1>2, <1>3, <1>4, <1>5, <1>6 DEF ReuseInv

(* BeforeAgentStart: a new message outdates everything.                  *)
LEMMA BeforeAgentStartReuseInv ==
  ASSUME ReuseInv, NEW t \in Trees, BeforeAgentStart(t)
  PROVE  ReuseInv'
<1>1. ReuseTypeOK'
  <2>1. changeEpoch' \in 0..MaxEpoch
    BY EpochBound DEF ReuseInv, ReuseTypeOK, BeforeAgentStart
  <2>2. t.visible \in Visible
    BY DEF Trees
  <2> QED BY <2>1, <2>2 DEF ReuseInv, ReuseTypeOK, BeforeAgentStart, Change, locals
<1>2. EpochInv'
  BY DEF ReuseInv, ReuseTypeOK, EpochInv, BeforeAgentStart, Change, locals, world
<1>3. CallInv'
  BY DEF ReuseInv, CallInv, BeforeAgentStart, Change, locals, world
<1>4. TestInv'
  BY DEF ReuseInv, TestInv, BeforeAgentStart, Change, locals, world
<1>5. RecordCoversTree'
  BY DEF ReuseInv, ReuseTypeOK, EpochInv, RecordCoversTree, RecordIsCurrent, BeforeAgentStart,
         Change, locals, world
<1>6. ReuseSound'
  BY DEF ReuseInv, EpochInv, ReuseSound, BeforeAgentStart, Change, locals, world
<1>. QED BY <1>1, <1>2, <1>3, <1>4, <1>5, <1>6 DEF ReuseInv

(* A step that changes nothing.                                            *)
LEMMA StutterReuseInv == ASSUME ReuseInv, UNCHANGED reuseVars PROVE ReuseInv'
  BY DEF ReuseInv, ReuseTypeOK, EpochInv, CallInv, TestInv, RecordCoversTree,
         ReuseSound, Current, RecordIsCurrent, reuseVars, locals, world

(* The inductive step.                                                     *)
LEMMA NextReuseInv == ASSUME ReuseInv, [ReuseNext]_reuseVars PROVE ReuseInv'
<1>1. ASSUME NEW g \in Gates, Begin(g) PROVE ReuseInv' BY <1>1, BeginReuseInv
<1>2. ASSUME NEW g \in Gates, NEW b \in BOOLEAN, Test(g, b) PROVE ReuseInv' BY <1>2, TestReuseInv
<1>3. ASSUME NEW g \in Gates, Ended(g) PROVE ReuseInv' BY <1>3, EndedReuseInv
<1>4. ASSUME NEW g \in Gates, Record(g) PROVE ReuseInv' BY <1>4, RecordReuseInv
<1>5. ASSUME NEW g \in Gates, GateReturn(g) PROVE ReuseInv' BY <1>5, GateReturnReuseInv
<1>6. ASSUME NEW g \in Gates, NEW b \in BOOLEAN,
             Fingerprint(g, b) \/ Decide(g, b) \/ FingerprintAgain(g, b)
      PROVE  ReuseInv'
  BY <1>6, FingerprintReuseInv, DecideReuseInv, FingerprintAgainReuseInv
<1>7. ASSUME NEW g \in Gates, NEW t \in Trees, GateWrites(g, t) PROVE ReuseInv'
  BY <1>7, GateWritesReuseInv
<1>8. ASSUME NEW w \in Writers, WriterStart(w) \/ WriterEnd(w) PROVE ReuseInv'
  BY <1>8, WriterStartReuseInv, WriterEndReuseInv
<1>9. ASSUME NEW w \in Writers, NEW t \in Trees, WriterWrites(w, t) PROVE ReuseInv'
  BY <1>9, WriterWritesReuseInv
<1>10. ASSUME NEW t \in Trees, BeforeAgentStart(t) PROVE ReuseInv'
  BY <1>10, BeforeAgentStartReuseInv
<1>11. CASE UNCHANGED reuseVars BY <1>11, StutterReuseInv
<1>. QED
  BY <1>1, <1>2, <1>3, <1>4, <1>5, <1>6, <1>7, <1>8, <1>9, <1>10, <1>11 DEF ReuseNext

-----------------------------------------------------------------------------
(* The inductive invariant holds in every reachable state.                 *)
THEOREM ReuseInvariance == ReuseSpec => []ReuseInv
<1>1. ReuseInit => ReuseInv BY InitReuseInv
<1>2. ReuseInv /\ [ReuseNext]_reuseVars => ReuseInv' BY NextReuseInv
<1>. QED BY <1>1, <1>2, PTL DEF ReuseSpec

(* A reused answer was found on the very tree the call met                 *)
(* (verify-gate.ts 264-268): neither the gates, which may write, nor the   *)
(* writers, which start and end at any await, can make it stale, unless a  *)
(* writer writes in the epoch of a call that began while it ran.           *)
THEOREM ReuseSoundAlways == ReuseSpec => []ReuseSound
<1>1. ReuseInv => ReuseSound BY DEF ReuseInv
<1>. QED BY <1>1, ReuseInvariance, PTL

(* What may be reused now covers the tree, ignored files included          *)
(* (verify-gate.ts 273-276, tree-fingerprint.ts 14-16).                    *)
THEOREM RecordCoversTreeAlways == ReuseSpec => []RecordCoversTree
<1>1. ReuseInv => RecordCoversTree BY DEF ReuseInv
<1>. QED BY <1>1, ReuseInvariance, PTL
=============================================================================
