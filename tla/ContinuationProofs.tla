------------------------- MODULE ContinuationProofs -------------------------
(***************************************************************************)
(* What the continuation dispatcher keeps for any number of owners,        *)
(* producers, sessions, flushes and turns: one flush at a time, no offer   *)
(* that waits for nothing, one delivery per owner revision, and no more    *)
(* turns than the budget since the user spoke.                             *)
(***************************************************************************)
EXTENDS ContinuationHistory, FiniteSetTheorems, TLAPS

FlushStates == [pc : {"idle", "first", "second", "answered"}, gen : Nat,
                cands : SUBSET Offers, offer : Offers \cup {NoOne}]

Type ==
  /\ revision \in [Owners -> Revisions]
  /\ receipts \in [Sessions -> SUBSET (Owners \X Revisions)]
  /\ run \in {"idle", "begun", "active", "settling", "settled"}
  /\ starting \in {"none", "user", "harness"}
  /\ session \in Sessions \cup {NoOne} /\ live \in BOOLEAN /\ generation \in Nat
  /\ scheduled \in BOOLEAN /\ microtasks \in Nat /\ inFlight \in BOOLEAN
  /\ pending \in SUBSET Offers /\ turnContinuations \in Nat
  /\ harnessStartedRun \in BOOLEAN /\ agentActive \in BOOLEAN
  /\ actionable \in {"closed", "open", "continue"}
  /\ flush \in [Flushes -> FlushStates]
  /\ deliveries \in [Keys -> Nat] /\ sinceUser \in Nat

-----------------------------------------------------------------------------
(* The inductive invariant.                                                *)

Active(f) == flush[f] # NoFlush

\* A flush waits for an answer about an offer, and is no younger than the session.
FlightInv ==
  /\ \A f \in Flushes : Active(f) => flush[f].offer \in Offers /\ flush[f].gen <= generation
  /\ SingleFlight

\* What the flush of the current session still holds may be delivered.
EligibleInv ==
  \A f \in Flushes : Active(f) /\ Current(f) =>
    /\ session # NoOne /\ turnContinuations < MaxTurns
    /\ \A e \in flush[f].cands \cup {flush[f].offer} : Eligible(e)

OfferInv ==
  /\ pending # {} => session # NoOne
  /\ scheduled => microtasks > 0
  /\ NoStrandedOffer

\* The receipts in the files are the deliveries that were made.
ReceiptInv ==
  /\ session # NoOne => delivered = receipts[session]
  /\ \A s \in Sessions, o \in Owners, r \in Revisions :
       deliveries[<<s, o, r>>] = IF <<o, r>> \in receipts[s] THEN 1 ELSE 0

\* Only the user's message gives turns back: the flag that tells whose message
\* starts the next run is missing only before the first turn of a session.
BudgetInv ==
  /\ turnContinuations <= MaxTurns /\ sinceUser <= turnContinuations
  /\ starting = "harness" /\ ~ harnessStartedRun => sinceUser = 0
  /\ run \in {"begun", "active", "settling"} => starting = "none"
  /\ run = "settling" <=> actionable # "closed"

IInv ==
  /\ Type /\ FlightInv /\ EligibleInv /\ OfferInv /\ ReceiptInv /\ BudgetInv /\ RevocationSeen

-----------------------------------------------------------------------------
(* What the parts of a step do.                                            *)

LEMMA TurnsAreNat == MaxTurns \in Nat
  BY Limits

LEMMA NoFlushState == NoFlush \in FlushStates /\ NoFlush.pc = "idle" /\ NoFlush.offer = NoOne
<1>1. NoFlush = [pc |-> "idle", gen |-> 0, cands |-> {}, offer |-> NoOne]
  BY DEF NoFlush
<1> HIDE DEF NoFlush
<1> QED BY <1>1 DEF FlushStates

LEMMA InitHolds == HistoryInit => IInv
<1> SUFFICES ASSUME HistoryInit PROVE IInv
  OBVIOUS
<1>1. Type
  <2>1. 0 \in Revisions
    BY Limits DEF Revisions
  <2>2. flush \in [Flushes -> FlushStates]
    BY NoFlushState DEF HistoryInit, Init
  <2>3. revision \in [Owners -> Revisions] /\ receipts \in [Sessions -> SUBSET (Owners \X Revisions)]
    BY <2>1 DEF HistoryInit, Init
  <2>4. deliveries \in [Keys -> Nat]
    BY DEF HistoryInit
  <2> QED BY <2>2, <2>3, <2>4 DEF Type, HistoryInit, Init
<1>2. \A f \in Flushes : flush[f] = NoFlush
  BY DEF HistoryInit, Init
<1>3. FlightInv /\ EligibleInv /\ RevocationSeen
  <2>1. ~ inFlight
    BY DEF HistoryInit, Init
  <2> QED BY <1>2, <2>1, NoFlushState DEF FlightInv, EligibleInv, SingleFlight, Active, RevocationSeen
<1>4. OfferInv
  BY DEF OfferInv, NoStrandedOffer, HistoryInit, Init
<1>5. ReceiptInv
  <2>1. session = NoOne /\ \A s \in Sessions : receipts[s] = {}
    BY DEF HistoryInit, Init
  <2>2. \A k \in Keys : deliveries[k] = 0
    BY DEF HistoryInit
  <2> QED BY <2>1, <2>2 DEF ReceiptInv, Keys
<1>6. BudgetInv
  BY TurnsAreNat DEF BudgetInv, HistoryInit, Init
<1> QED BY <1>1, <1>3, <1>4, <1>5, <1>6 DEF IInv

LEMMA NoDispatch ==
  ASSUME IInv, HistoryNext, turnContinuations' <= turnContinuations
  PROVE  /\ deliveries' = deliveries
         /\ sinceUser' = IF UserSpeaks \/ generation' # generation THEN 0 ELSE sinceUser
<1>1. Dispatching = {}
  BY DEF Dispatching
<1>2. Cardinality({}) = 0
  BY FS_EmptySet
<1>3. CASE Count({})
  <2>1. deliveries' = [k \in Keys |-> deliveries[k] + Cardinality({f \in {} : KeyOf(f) = k})]
    BY <1>3 DEF Count
  <2>2. \A k \in Keys : {f \in {} : KeyOf(f) = k} = {}
    OBVIOUS
  <2>3. \A k \in Keys : deliveries[k] + Cardinality({f \in {} : KeyOf(f) = k}) = deliveries[k]
    BY <1>2, <2>2 DEF IInv, Type
  <2>4. deliveries' = [k \in Keys |-> deliveries[k]]
    BY <2>1, <2>3
  <2>5. deliveries' = deliveries
    BY <2>4 DEF IInv, Type
  <2>6. sinceUser' = IF UserSpeaks \/ generation' # generation THEN 0 ELSE sinceUser + Cardinality({})
    BY <1>3 DEF Count
  <2>7. sinceUser + Cardinality({}) = sinceUser
    BY <1>2 DEF IInv, Type
  <2> QED BY <2>5, <2>6, <2>7
<1>4. CASE ~ Count({})
  BY <1>1, <1>4 DEF HistoryNext
<1> QED BY <1>3, <1>4

(* An answer that is acted on was positive when it was read.               *)
LEMMA RevocationKept ==
  ASSUME IInv, HistoryNext,
         \A f \in Flushes : flush'[f] = flush[f]
           \/ (flush'[f].pc = "answered" => flush'[f].offer.rev = revision'[flush'[f].offer.owner])
  PROVE  RevocationSeen'
<1> SUFFICES ASSUME NEW f \in Flushes, f \notin overtaken', flush'[f].pc = "answered"
             PROVE  flush'[f].offer.rev = revision'[flush'[f].offer.owner]
  BY DEF RevocationSeen
<1>1. CASE flush'[f] = flush[f]
  <2>1. f \notin overtaken /\ revision' = revision
    BY <1>1 DEF HistoryNext
  <2> QED BY <1>1, <2>1 DEF IInv, RevocationSeen
<1>2. CASE flush'[f] # flush[f]
  BY <1>2
<1> QED BY <1>1, <1>2

LEMMA FlightUnchanged ==
  ASSUME IInv, HistoryNext, UNCHANGED <<flush, inFlight, generation, session, delivered>>,
         turnContinuations' <= turnContinuations, turnContinuations' \in Nat
  PROVE  FlightInv' /\ EligibleInv' /\ RevocationSeen'
<1>1. FlightInv'
  BY DEF IInv, FlightInv, SingleFlight, Active, Current
<1>2. EligibleInv'
  <2>1. turnContinuations < MaxTurns => turnContinuations' < MaxTurns
    BY TurnsAreNat DEF IInv, Type
  <2> QED BY <2>1 DEF IInv, EligibleInv, Active, Current, Eligible, OwnerKey
<1>3. RevocationSeen'
  BY RevocationKept
<1> QED BY <1>1, <1>2, <1>3

\* A step that only one flush takes, and the rest of the dispatcher not.
Alone(f) == \A g \in Flushes \ {f} : flush'[g] = flush[g]

LEMMA AskMakes ==
  ASSUME IInv, NEW f \in Flushes, NEW gen \in Nat, NEW cands \in SUBSET Offers, Ask(f, gen, cands)
  PROVE  /\ flush' \in [Flushes -> FlushStates] /\ Alone(f)
         /\ flush'[f] # NoFlush /\ flush'[f].pc = "first" /\ flush'[f].gen = gen
         /\ flush'[f].cands \subseteq cands /\ flush'[f].offer \in cands
<1>1. PICK e \in Best(cands) :
        flush' = [flush EXCEPT ![f] = [pc |-> "first", gen |-> gen, cands |-> cands \ {e}, offer |-> e]]
  BY DEF Ask
<1> DEFINE new == [pc |-> "first", gen |-> gen, cands |-> cands \ {e}, offer |-> e]
<1>2. e \in cands /\ e \in Offers
  BY DEF Best
<1>3. new \in FlushStates /\ new.pc = "first" /\ new.gen = gen /\ new.cands \subseteq cands
      /\ new.offer = e
  BY <1>2 DEF FlushStates
<1>4. new # NoFlush
  BY <1>3, NoFlushState
<1> HIDE DEF new
<1>5. flush \in [Flushes -> FlushStates]
  BY DEF IInv, Type
<1>6. flush' = [flush EXCEPT ![f] = new]
  BY <1>1 DEF new
<1> QED BY <1>2, <1>3, <1>4, <1>5, <1>6 DEF Alone

(* A flush that begins takes the lock, with offers that may be delivered   *)
(* and turns left; one that does not leaves no offer behind.               *)
LEMMA BeginKeeps ==
  ASSUME IInv, HistoryNext, NEW f \in Flushes, NEW active \in BOOLEAN, flush[f] = NoFlush,
         Begin(f, active),
         UNCHANGED <<generation, session, delivered, revision, turnContinuations>>
  PROVE  /\ FlightInv' /\ EligibleInv' /\ RevocationSeen'
         /\ flush' \in [Flushes -> FlushStates] /\ inFlight' \in BOOLEAN
         /\ pending' \in {pending, {}} /\ ~ scheduled'
         /\ pending' # {} /\ live /\ ~ active => inFlight'
<1>1. CASE UNCHANGED <<pending, flushing>> /\ (Busy \/ ~ live \/ session = NoOne \/ active)
  <2>1. UNCHANGED <<flush, inFlight, pending>>
    BY <1>1 DEF flushing
  <2>2. FlightInv' /\ EligibleInv' /\ RevocationSeen'
    BY <2>1, FlightUnchanged DEF IInv, Type
  <2>3. pending # {} /\ live /\ ~ active => inFlight
    BY <1>1 DEF Busy, IInv, OfferInv
  <2> QED BY <2>1, <2>2, <2>3 DEF Begin, IInv, Type
<1>2. CASE pending' = {} /\ UNCHANGED flushing
  <2>1. UNCHANGED <<flush, inFlight>>
    BY <1>2 DEF flushing
  <2>2. FlightInv' /\ EligibleInv' /\ RevocationSeen'
    BY <2>1, FlightUnchanged DEF IInv, Type
  <2> QED BY <1>2, <2>1, <2>2 DEF Begin, IInv, Type
<1>3. CASE /\ ~ Busy /\ session # NoOne /\ pending' = {} /\ inFlight' = TRUE
           /\ \E cands \in SUBSET {e \in pending : Eligible(e)} :
                ~ Exhausted /\ Ask(f, generation, cands)
  <2>1. PICK cands \in SUBSET {e \in pending : Eligible(e)} :
          ~ Exhausted /\ Ask(f, generation, cands)
    BY <1>3
  <2>2. cands \in SUBSET Offers /\ generation \in Nat
    BY DEF IInv, Type
  <2>3. /\ flush' \in [Flushes -> FlushStates] /\ Alone(f)
        /\ flush'[f] # NoFlush /\ flush'[f].pc = "first" /\ flush'[f].gen = generation
        /\ flush'[f].cands \subseteq cands /\ flush'[f].offer \in cands
    BY <2>1, <2>2, AskMakes
  <2>4. \A g \in Flushes : ~ (Active(g) /\ Current(g))
    BY <1>3 DEF Busy, IInv, FlightInv, SingleFlight, Active
  <2>5. FlightInv'
    <3>1. \A g \in Flushes : (Active(g) /\ Current(g))' <=> g = f
      BY <2>3, <2>4 DEF Active, Current, Alone
    <3>2. \A g \in Flushes : Active(g)' => flush'[g].offer \in Offers /\ flush'[g].gen <= generation'
      BY <2>2, <2>3 DEF Active, Alone, IInv, FlightInv
    <3>3. SingleFlight'
      BY <1>3, <3>1 DEF SingleFlight, Active
    <3> QED BY <3>2, <3>3 DEF FlightInv
  <2>6. EligibleInv'
    <3>1. \A g \in Flushes : (Active(g) /\ Current(g))' => g = f
      BY <2>3, <2>4 DEF Active, Current, Alone
    <3>2. turnContinuations < MaxTurns
      BY <2>1, TurnsAreNat DEF Exhausted, IInv, Type
    <3>3. \A e \in cands : Eligible(e)'
      BY DEF Eligible, OwnerKey
    <3> QED BY <1>3, <2>3, <3>1, <3>2, <3>3 DEF EligibleInv
  <2>7. RevocationSeen'
    BY <2>3, RevocationKept DEF Alone
  <2> QED BY <1>3, <2>3, <2>5, <2>6, <2>7 DEF Begin
<1>4. \/ UNCHANGED <<pending, flushing>> /\ (Busy \/ ~ live \/ session = NoOne \/ active)
      \/ pending' = {} /\ UNCHANGED flushing
      \/ /\ ~ Busy /\ session # NoOne /\ pending' = {} /\ inFlight' = TRUE
         /\ \E cands \in SUBSET {e \in pending : Eligible(e)} :
              ~ Exhausted /\ Ask(f, generation, cands)
  BY DEF Begin
<1> QED BY <1>1, <1>2, <1>3, <1>4

(* The flush goes on, with no other offers than it had.                    *)
LEMMA FlightMoves ==
  ASSUME IInv, NEW f \in Flushes, Active(f), Alone(f), flush'[f] # NoFlush,
         UNCHANGED <<generation, inFlight, session, delivered, turnContinuations>>,
         flush'[f].gen = flush[f].gen, flush'[f].offer \in Offers,
         flush'[f].cands \cup {flush'[f].offer} \subseteq flush[f].cands \cup {flush[f].offer}
  PROVE  FlightInv' /\ EligibleInv'
<1>1. \A g \in Flushes : (Active(g)' <=> Active(g)) /\ flush'[g].gen = flush[g].gen
  BY DEF Active, Alone
<1>2. \A g \in Flushes : Current(g)' <=> Current(g)
  BY <1>1 DEF Current
<1>3. FlightInv'
  <2>1. SingleFlight'
    BY <1>1, <1>2 DEF IInv, FlightInv, SingleFlight, Active
  <2>2. \A g \in Flushes : Active(g)' => flush'[g].offer \in Offers /\ flush'[g].gen <= generation'
    BY <1>1 DEF IInv, FlightInv, Alone
  <2> QED BY <2>1, <2>2 DEF FlightInv
<1>4. EligibleInv'
  <2> SUFFICES ASSUME NEW g \in Flushes, Active(g)', Current(g)'
               PROVE  (/\ session # NoOne /\ turnContinuations < MaxTurns
                       /\ \A e \in flush[g].cands \cup {flush[g].offer} : Eligible(e))'
    BY DEF EligibleInv
  <2>1. /\ session # NoOne /\ turnContinuations < MaxTurns
        /\ \A e \in flush[g].cands \cup {flush[g].offer} : Eligible(e)
    BY <1>1, <1>2 DEF IInv, EligibleInv
  <2>2. flush'[g].cands \cup {flush'[g].offer} \subseteq flush[g].cands \cup {flush[g].offer}
    BY DEF Alone
  <2> QED BY <2>1, <2>2 DEF Eligible, OwnerKey
<1> QED BY <1>3, <1>4

(* The flush of the session ends and gives the lock back; one that a       *)
(* session event cancelled leaves the lock alone.                          *)
LEMMA FlightEnds ==
  ASSUME IInv, NEW f \in Flushes, Active(f), Alone(f), flush'[f] = NoFlush, generation' = generation,
         \/ Current(f) /\ ~ inFlight' /\ inFlight' \in BOOLEAN
         \/ ~ Current(f) /\ UNCHANGED <<inFlight, session, delivered, turnContinuations>>
  PROVE  FlightInv' /\ EligibleInv'
<1>1. \A g \in Flushes : (Active(g)' <=> Active(g) /\ g # f) /\ (g # f => (Current(g)' <=> Current(g)))
  BY DEF Active, Alone, Current
<1>2. \A g \in Flushes : Active(g)' => flush'[g].offer \in Offers /\ flush'[g].gen <= generation'
  BY <1>1 DEF IInv, FlightInv, Alone
<1>3. CASE Current(f) /\ ~ inFlight'
  <2>1. \A g \in Flushes : ~ (Active(g) /\ Current(g))'
    BY <1>1, <1>3 DEF IInv, FlightInv, SingleFlight, Active
  <2> QED BY <1>2, <1>3, <2>1 DEF FlightInv, EligibleInv, SingleFlight, Active
<1>4. CASE ~ Current(f) /\ UNCHANGED <<inFlight, session, delivered, turnContinuations>>
  <2>1. \A g \in Flushes : (Active(g) /\ Current(g))' <=> Active(g) /\ Current(g)
    BY <1>1, <1>4
  <2>2. SingleFlight'
    BY <1>4, <2>1 DEF IInv, FlightInv, SingleFlight, Active
  <2>3. EligibleInv'
    <3> SUFFICES ASSUME NEW g \in Flushes, Active(g)', Current(g)'
                 PROVE  (/\ session # NoOne /\ turnContinuations < MaxTurns
                         /\ \A e \in flush[g].cands \cup {flush[g].offer} : Eligible(e))'
      BY DEF EligibleInv
    <3>1. /\ session # NoOne /\ turnContinuations < MaxTurns
          /\ \A e \in flush[g].cands \cup {flush[g].offer} : Eligible(e)
      BY <2>1 DEF IInv, EligibleInv
    <3>2. flush'[g] = flush[g]
      BY <1>1 DEF Alone
    <3> QED BY <1>4, <3>1, <3>2 DEF Eligible, OwnerKey
  <2> QED BY <1>2, <2>2, <2>3 DEF FlightInv
<1> QED BY <1>3, <1>4

LEMMA ScheduleQueues ==
  ASSUME IInv, NEW wanted \in BOOLEAN, Schedule(wanted)
  PROVE  /\ scheduled' \in BOOLEAN /\ microtasks' \in Nat /\ microtasks <= microtasks'
         /\ scheduled' => microtasks' > 0
         /\ wanted => microtasks' > 0
  BY DEF Schedule, IInv, Type, OfferInv

LEMMA ReturnMakes ==
  ASSUME IInv, NEW f \in Flushes, Return(f)
  PROVE  flush' \in [Flushes -> FlushStates] /\ Alone(f) /\ flush'[f] = NoFlush
  BY NoFlushState DEF Return, Alone, IInv, Type

-----------------------------------------------------------------------------
(* The steps that dispatch nothing.                                        *)

LEMMA SinceUser ==
  ASSUME IInv, HistoryNext, turnContinuations' <= turnContinuations
  PROVE  /\ deliveries' = deliveries /\ deliveries' \in [Keys -> Nat]
         /\ sinceUser' \in {0, sinceUser} /\ sinceUser' \in Nat
  BY NoDispatch DEF IInv, Type

LEMMA BudgetUnchanged ==
  ASSUME IInv, HistoryNext, UNCHANGED <<turnContinuations, starting, harnessStartedRun>>,
         run' \in {"begun", "active", "settling"} => starting = "none",
         run' = "settling" <=> actionable' # "closed"
  PROVE  BudgetInv'
<1>1. sinceUser' \in {0, sinceUser}
  BY SinceUser DEF IInv, Type
<1> QED BY <1>1 DEF BudgetInv, IInv, Type

LEMMA ReceiptsUnchanged ==
  ASSUME IInv, UNCHANGED <<session, delivered, receipts, deliveries>>
  PROVE  ReceiptInv'
  BY DEF IInv, ReceiptInv

LEMMA OfferStep ==
  ASSUME IInv, HistoryNext, NEW o \in Owners, NEW from \in Producers, NEW s \in Sessions, Offer(o, from, s)
  PROVE  IInv'
<1>1. /\ session # NoOne /\ pending' = pending \cup {[owner |-> o, rev |-> revision[o], from |-> from, session |-> s]}
      /\ Schedule(TRUE)
      /\ UNCHANGED <<owners, host, identity, turn, boundary, compacting, flushing, delivered, agentActive>>
  BY DEF Offer
<1>2. UNCHANGED <<revision, receipts, run, starting, session, live, generation, turnContinuations,
                  harnessStartedRun, actionable, inFlight, flush, delivered, agentActive>>
  BY <1>1 DEF owners, host, identity, turn, boundary, flushing
<1>3. FlightInv' /\ EligibleInv' /\ RevocationSeen'
  BY <1>2, FlightUnchanged DEF IInv, Type
<1>4. /\ deliveries' = deliveries /\ deliveries' \in [Keys -> Nat] /\ sinceUser' \in Nat
  BY <1>2, SinceUser DEF IInv, Type
<1>5. scheduled' \in BOOLEAN /\ microtasks' \in Nat /\ microtasks' > 0
  BY <1>1, ScheduleQueues
<1>6. Type'
  <2>1. [owner |-> o, rev |-> revision[o], from |-> from, session |-> s] \in Offers
    BY DEF Offers, IInv, Type
  <2>2. pending' \in SUBSET Offers
    BY <1>1, <2>1 DEF IInv, Type
  <2> QED BY <1>2, <1>4, <1>5, <2>2 DEF IInv, Type
<1>7. OfferInv'
  BY <1>1, <1>2, <1>5 DEF OfferInv, NoStrandedOffer
<1>8. BudgetInv'
  BY <1>2, BudgetUnchanged DEF IInv, BudgetInv
<1> QED BY <1>2, <1>3, <1>4, <1>6, <1>7, <1>8, ReceiptsUnchanged DEF IInv

LEMMA ReviseStep ==
  ASSUME IInv, HistoryNext, NEW o \in Owners, Revise(o)
  PROVE  IInv'
<1>1. /\ revision[o] < MaxRevision /\ revision' = [revision EXCEPT ![o] = @ + 1]
      /\ UNCHANGED <<receipts, host, identity, turn, offered, boundary, compacting, flushing,
                     delivered, agentActive>>
  BY DEF Revise
<1>2. UNCHANGED <<receipts, run, starting, session, live, generation, turnContinuations, scheduled,
                  microtasks, pending, harnessStartedRun, actionable, inFlight, flush, delivered, agentActive>>
  BY <1>1 DEF host, identity, turn, offered, boundary, flushing
<1>3. FlightInv' /\ EligibleInv' /\ RevocationSeen'
  BY <1>2, FlightUnchanged DEF IInv, Type
<1>4. /\ deliveries' = deliveries /\ deliveries' \in [Keys -> Nat] /\ sinceUser' \in Nat
  BY <1>2, SinceUser DEF IInv, Type
<1>5. revision' \in [Owners -> Revisions]
  <2>1. revision[o] + 1 \in Revisions
    BY <1>1, Limits DEF IInv, Type, Revisions
  <2> QED BY <1>1, <2>1 DEF IInv, Type
<1>6. Type'
  BY <1>2, <1>4, <1>5 DEF IInv, Type
<1>7. OfferInv'
  BY <1>2 DEF IInv, OfferInv, NoStrandedOffer
<1>8. BudgetInv'
  BY <1>2, BudgetUnchanged DEF IInv, BudgetInv
<1> QED BY <1>2, <1>3, <1>4, <1>6, <1>7, <1>8, ReceiptsUnchanged DEF IInv

LEMMA FlushStartStep ==
  ASSUME IInv, HistoryNext, NEW f \in Flushes, FlushStart(f)
  PROVE  IInv'
<1>1. /\ microtasks > 0 /\ flush[f] = NoFlush /\ microtasks' = microtasks - 1 /\ Begin(f, agentActive)
      /\ UNCHANGED <<owners, host, identity, turn, boundary, compacting, delivered, agentActive>>
  BY DEF FlushStart
<1>2. UNCHANGED <<revision, receipts, run, starting, session, live, generation, turnContinuations,
                  harnessStartedRun, actionable, delivered, agentActive>>
  BY <1>1 DEF owners, host, identity, turn, boundary
<1>3. /\ FlightInv' /\ EligibleInv' /\ RevocationSeen'
      /\ flush' \in [Flushes -> FlushStates] /\ inFlight' \in BOOLEAN
      /\ pending' \in {pending, {}} /\ ~ scheduled'
      /\ pending' # {} /\ live /\ ~ agentActive => inFlight'
  <2>1. agentActive \in BOOLEAN
    BY DEF IInv, Type
  <2> QED BY <1>1, <1>2, <2>1, BeginKeeps
<1>4. /\ deliveries' = deliveries /\ deliveries' \in [Keys -> Nat] /\ sinceUser' \in Nat
  BY <1>2, SinceUser DEF IInv, Type
<1>5. scheduled' = FALSE /\ microtasks' \in Nat /\ pending' \in SUBSET Offers
  BY <1>1, <1>3 DEF Begin, IInv, Type
<1>6. Type'
  BY <1>2, <1>3, <1>4, <1>5 DEF IInv, Type
<1>7. OfferInv'
  BY <1>2, <1>3 DEF IInv, OfferInv, NoStrandedOffer
<1>8. BudgetInv'
  BY <1>2, BudgetUnchanged DEF IInv, BudgetInv
<1> QED BY <1>2, <1>3, <1>4, <1>6, <1>7, <1>8, ReceiptsUnchanged DEF IInv

LEMMA SettleCompletedStep ==
  ASSUME IInv, HistoryNext, NEW f \in Flushes, SettleCompleted(f)
  PROVE  IInv'
<1>1. /\ run = "active" /\ run' = "settling" /\ flush[f] = NoFlush
      /\ agentActive' = FALSE /\ actionable' = "open" /\ Begin(f, FALSE)
      /\ UNCHANGED microtasks
      /\ UNCHANGED <<owners, starting, identity, turn, compacting, delivered>>
  BY DEF SettleCompleted
<1>2. UNCHANGED <<revision, receipts, starting, session, live, generation, turnContinuations,
                  harnessStartedRun, delivered, microtasks>>
  BY <1>1 DEF owners, identity, turn
<1>3. /\ FlightInv' /\ EligibleInv' /\ RevocationSeen'
      /\ flush' \in [Flushes -> FlushStates] /\ inFlight' \in BOOLEAN
      /\ pending' \in {pending, {}} /\ ~ scheduled'
      /\ pending' # {} /\ live => inFlight'
  BY <1>1, <1>2, BeginKeeps
<1>4. /\ deliveries' = deliveries /\ deliveries' \in [Keys -> Nat] /\ sinceUser' \in Nat
  BY <1>2, SinceUser DEF IInv, Type
<1>5. scheduled' = FALSE /\ pending' \in SUBSET Offers
  BY <1>1, <1>3 DEF Begin, IInv, Type
<1>6. Type'
  BY <1>1, <1>2, <1>3, <1>4, <1>5 DEF IInv, Type
<1>7. OfferInv'
  BY <1>2, <1>3 DEF IInv, OfferInv, NoStrandedOffer
<1>8. BudgetInv'
  BY <1>1, <1>2, BudgetUnchanged DEF IInv, BudgetInv
<1> QED BY <1>2, <1>3, <1>4, <1>6, <1>7, <1>8, ReceiptsUnchanged DEF IInv

(* The handlers that leave the flushes, the offers and the budget alone.   *)
LEMMA QuietHandler ==
  ASSUME IInv, HistoryNext,
         UNCHANGED <<revision, receipts, session, live, generation, turnContinuations, scheduled, microtasks,
                     pending, harnessStartedRun, inFlight, flush, delivered>>,
         run' \in {"idle", "begun", "active", "settling", "settled"}, agentActive' \in BOOLEAN,
         starting' \in {"none", "user", "harness"}, actionable' \in {"closed", "open", "continue"},
         agentActive' = agentActive \/ agentActive' = TRUE,
         BudgetInv'
  PROVE  IInv'
<1>1. FlightInv' /\ EligibleInv' /\ RevocationSeen'
  BY FlightUnchanged DEF IInv, Type
<1>2. /\ deliveries' = deliveries /\ deliveries' \in [Keys -> Nat] /\ sinceUser' \in Nat
  BY SinceUser DEF IInv, Type
<1>3. Type'
  BY <1>2 DEF IInv, Type
<1>4. OfferInv'
  BY DEF IInv, OfferInv, NoStrandedOffer
<1> QED BY <1>1, <1>2, <1>3, <1>4, ReceiptsUnchanged DEF IInv

LEMMA CompactionStep ==
  ASSUME IInv, HistoryNext, SessionBeforeCompact \/ SessionCompact
  PROVE  IInv'
<1>1. UNCHANGED <<owners, host, identity, turnContinuations, harnessStartedRun, offered,
                  boundary, flushing, delivered, agentActive>>
  BY DEF SessionBeforeCompact, SessionCompact
<1>2. UNCHANGED <<revision, receipts, run, starting, session, live, generation, turnContinuations, scheduled,
                  microtasks, pending, harnessStartedRun, inFlight, flush, delivered, actionable, agentActive>>
  BY <1>1 DEF owners, host, identity, offered, boundary, flushing
<1>3. BudgetInv'
  BY <1>2, BudgetUnchanged DEF IInv, BudgetInv
<1> QED BY <1>2, <1>3, QuietHandler DEF IInv, Type

LEMMA UserMessageStep ==
  ASSUME IInv, HistoryNext, UserMessage
  PROVE  IInv'
<1>1. /\ run = "idle" /\ starting' = "user"
      /\ UNCHANGED <<owners, run, identity, turn, offered, boundary, compacting, flushing, delivered, agentActive>>
  BY DEF UserMessage
<1>2. UNCHANGED <<revision, receipts, run, session, live, generation, turnContinuations, scheduled,
                  microtasks, pending, harnessStartedRun, inFlight, flush, delivered, actionable, agentActive>>
  BY <1>1 DEF owners, identity, turn, offered, boundary, flushing
<1>3. sinceUser' \in {0, sinceUser}
  BY <1>2, SinceUser DEF IInv, Type
<1>4. BudgetInv'
  BY <1>1, <1>2, <1>3 DEF IInv, BudgetInv, Type
<1> QED BY <1>1, <1>2, <1>4, QuietHandler DEF IInv, Type

LEMMA AgentStartStep ==
  ASSUME IInv, HistoryNext, AgentStart
  PROVE  IInv'
<1>1. /\ run = "begun" /\ run' = "active" /\ agentActive' = TRUE
      /\ UNCHANGED <<owners, starting, identity, turn, offered, boundary, compacting, flushing, delivered>>
  BY DEF AgentStart
<1>2. UNCHANGED <<revision, receipts, starting, session, live, generation, turnContinuations, scheduled,
                  microtasks, pending, harnessStartedRun, inFlight, flush, delivered, actionable>>
  BY <1>1 DEF owners, identity, turn, offered, boundary, flushing
<1>3. BudgetInv'
  BY <1>1, <1>2, BudgetUnchanged DEF IInv, BudgetInv
<1> QED BY <1>1, <1>2, <1>3, QuietHandler DEF IInv, Type

LEMMA EndBoundaryStep ==
  ASSUME IInv, HistoryNext, EndBoundary
  PROVE  IInv'
<1>1. /\ run = "settling" /\ run' \in {"begun", "active", "settled"} /\ actionable' = "closed"
      /\ UNCHANGED <<owners, starting, identity, turn, offered, awaited, compacting, flushing, delivered,
                     agentActive>>
  BY DEF EndBoundary
<1>2. UNCHANGED <<revision, receipts, starting, session, live, generation, turnContinuations, scheduled,
                  microtasks, pending, harnessStartedRun, inFlight, flush, delivered, agentActive>>
  BY <1>1 DEF owners, identity, turn, offered, flushing
<1>3. BudgetInv'
  BY <1>1, <1>2, BudgetUnchanged DEF IInv, BudgetInv
<1> QED BY <1>1, <1>2, <1>3, QuietHandler DEF IInv, Type

(* The prompt of a run gives the turns back unless the harness wrote it.   *)
LEMMA BeforeAgentStartStep ==
  ASSUME IInv, HistoryNext, BeforeAgentStart
  PROVE  IInv'
<1>1. /\ run = "idle" /\ starting # "none" /\ run' = "begun" /\ starting' = "none"
      /\ harnessStartedRun' = FALSE
      /\ turnContinuations' = IF harnessStartedRun THEN turnContinuations ELSE 0
      /\ UNCHANGED <<owners, identity, offered, boundary, compacting, flushing, delivered, agentActive>>
  BY DEF BeforeAgentStart
<1>2. UNCHANGED <<revision, receipts, session, live, generation, scheduled,
                  microtasks, pending, inFlight, flush, delivered, actionable, agentActive>>
  BY <1>1 DEF owners, identity, offered, boundary, flushing
<1>3. turnContinuations' \in Nat /\ turnContinuations' <= turnContinuations
  BY <1>1 DEF IInv, Type
<1>4. FlightInv' /\ EligibleInv' /\ RevocationSeen'
  BY <1>2, <1>3, FlightUnchanged
<1>5. /\ deliveries' = deliveries /\ deliveries' \in [Keys -> Nat] /\ sinceUser' \in Nat
      /\ sinceUser' \in {0, sinceUser}
  BY <1>3, SinceUser
<1>6. sinceUser' <= turnContinuations'
  <2>1. CASE starting = "user"
    <3>1. UserSpeaks
      BY <1>1, <2>1 DEF UserSpeaks
    <3>2. sinceUser' = 0
      BY <1>3, <3>1, NoDispatch
    <3> QED BY <1>3, <3>2
  <2>2. CASE starting = "harness" /\ ~ harnessStartedRun
    BY <1>3, <1>5, <2>2 DEF IInv, BudgetInv
  <2>3. CASE starting = "harness" /\ harnessStartedRun
    BY <1>1, <1>5, <2>3 DEF IInv, BudgetInv, Type
  <2> QED BY <1>1, <2>1, <2>2, <2>3 DEF IInv, Type
<1>7. BudgetInv'
  BY <1>1, <1>2, <1>3, <1>6, TurnsAreNat DEF IInv, BudgetInv, Type
<1>8. Type'
  BY <1>1, <1>2, <1>3, <1>5 DEF IInv, Type
<1>9. OfferInv'
  BY <1>2 DEF IInv, OfferInv, NoStrandedOffer
<1> QED BY <1>2, <1>4, <1>5, <1>7, <1>8, <1>9, ReceiptsUnchanged DEF IInv

LEMMA SettleStoppedStep ==
  ASSUME IInv, HistoryNext, NEW outcome \in Stops, SettleStopped(outcome)
  PROVE  IInv'
<1>1. /\ run = "active" /\ run' = "settled" /\ agentActive' = FALSE /\ pending' = {}
      /\ UNCHANGED <<owners, starting, identity, turnContinuations, harnessStartedRun,
                     scheduled, microtasks, boundary, flushing, delivered>>
  BY DEF SettleStopped
<1>2. UNCHANGED <<revision, receipts, starting, session, live, generation, turnContinuations, scheduled,
                  microtasks, harnessStartedRun, inFlight, flush, delivered, actionable>>
  BY <1>1 DEF owners, identity, boundary, flushing
<1>3. FlightInv' /\ EligibleInv' /\ RevocationSeen'
  BY <1>2, FlightUnchanged DEF IInv, Type
<1>4. /\ deliveries' = deliveries /\ deliveries' \in [Keys -> Nat] /\ sinceUser' \in Nat
  BY <1>2, SinceUser DEF IInv, Type
<1>5. Type'
  BY <1>1, <1>2, <1>4 DEF IInv, Type
<1>6. OfferInv'
  BY <1>1, <1>2 DEF IInv, OfferInv, NoStrandedOffer
<1>7. BudgetInv'
  BY <1>1, <1>2, BudgetUnchanged DEF IInv, BudgetInv
<1> QED BY <1>2, <1>3, <1>4, <1>5, <1>6, <1>7, ReceiptsUnchanged DEF IInv

LEMMA AgentSettledStep ==
  ASSUME IInv, HistoryNext, NEW outcome \in Stops, AgentSettled(outcome)
  PROVE  IInv'
<1>1. /\ run = "settled" /\ run' = "idle" /\ agentActive' = FALSE
      /\ \/ pending' = {} /\ UNCHANGED <<scheduled, microtasks>>
         \/ UNCHANGED pending /\ Schedule(pending # {})
      /\ UNCHANGED <<owners, starting, identity, turnContinuations, harnessStartedRun,
                     compactionAbort, boundary, compacting, flushing, delivered>>
  BY DEF AgentSettled
<1>2. UNCHANGED <<revision, receipts, starting, session, live, generation, turnContinuations,
                  harnessStartedRun, inFlight, flush, delivered, actionable>>
  BY <1>1 DEF owners, identity, boundary, flushing
<1>3. FlightInv' /\ EligibleInv' /\ RevocationSeen'
  BY <1>2, FlightUnchanged DEF IInv, Type
<1>4. /\ deliveries' = deliveries /\ deliveries' \in [Keys -> Nat] /\ sinceUser' \in Nat
  BY <1>2, SinceUser DEF IInv, Type
<1>5. /\ pending' \in SUBSET Offers /\ (pending' # {} => pending' = pending /\ microtasks' > 0)
      /\ scheduled' \in BOOLEAN /\ microtasks' \in Nat /\ (scheduled' => microtasks' > 0)
  <2>1. CASE pending' = {} /\ UNCHANGED <<scheduled, microtasks>>
    BY <2>1 DEF IInv, Type, OfferInv
  <2>2. CASE UNCHANGED pending /\ Schedule(pending # {})
    <3>1. (pending # {}) \in BOOLEAN
      OBVIOUS
    <3>2. /\ scheduled' \in BOOLEAN /\ microtasks' \in Nat
          /\ scheduled' => microtasks' > 0
          /\ pending # {} => microtasks' > 0
      BY <2>2, <3>1, ScheduleQueues
    <3> QED BY <2>2, <3>2 DEF IInv, Type
  <2> QED BY <1>1, <2>1, <2>2
<1>6. Type'
  BY <1>1, <1>2, <1>4, <1>5 DEF IInv, Type
<1>7. OfferInv'
  BY <1>1, <1>2, <1>5 DEF IInv, OfferInv, NoStrandedOffer
<1>8. BudgetInv'
  BY <1>1, <1>2, BudgetUnchanged DEF IInv, BudgetInv
<1> QED BY <1>2, <1>3, <1>4, <1>6, <1>7, <1>8, ReceiptsUnchanged DEF IInv

(* A session event leaves no flush current, and no offer.                  *)
LEMMA SessionStep ==
  ASSUME IInv, HistoryNext, SessionShutdown \/ \E s \in Sessions : SessionStart(s)
  PROVE  IInv'
<1>1. /\ run = "idle" /\ generation' = generation + 1 /\ live' \in BOOLEAN
      /\ scheduled' = FALSE /\ inFlight' = FALSE /\ pending' = {}
      /\ UNCHANGED <<owners, host, microtasks, boundary, flush, agentActive>>
  BY DEF SessionShutdown, SessionStart
<1>2. \/ UNCHANGED <<session, delivered, turnContinuations, harnessStartedRun>>
      \/ /\ session' \in Sessions /\ delivered' = receipts[session'] /\ turnContinuations' = 0
         /\ harnessStartedRun' = FALSE
  BY DEF SessionShutdown, SessionStart, Restored, turn
<1>3. UNCHANGED <<revision, receipts, run, starting, microtasks, flush, actionable, agentActive>>
  BY <1>1 DEF owners, host, boundary
<1>4. turnContinuations' \in Nat /\ turnContinuations' <= turnContinuations
  BY <1>2 DEF IInv, Type
<1>5. generation' # generation /\ generation' \in Nat /\ generation \in Nat
  BY <1>1 DEF IInv, Type
<1>6. deliveries' = deliveries /\ sinceUser' = 0
  BY <1>4, <1>5, NoDispatch
<1>7. \A f \in Flushes : ~ (Active(f) /\ Current(f))'
  BY <1>1, <1>3, <1>5 DEF IInv, FlightInv, Active, Current, Type, FlushStates
<1>8. FlightInv' /\ EligibleInv' /\ RevocationSeen'
  <2>1. \A f \in Flushes : Active(f)' => flush'[f].offer \in Offers /\ flush'[f].gen <= generation'
    BY <1>1, <1>3, <1>5 DEF IInv, FlightInv, Active, Type, FlushStates
  <2>2. SingleFlight'
    BY <1>1, <1>7 DEF SingleFlight, Active
  <2> QED BY <1>3, <1>7, <2>1, <2>2, RevocationKept DEF FlightInv, EligibleInv
<1>9. Type'
  BY <1>1, <1>2, <1>3, <1>4, <1>5, <1>6 DEF IInv, Type
<1>10. OfferInv'
  BY <1>1 DEF OfferInv, NoStrandedOffer
<1>11. ReceiptInv'
  <2>1. session' # NoOne => delivered' = receipts'[session']
    BY <1>2, <1>3 DEF IInv, ReceiptInv
  <2> QED BY <1>3, <1>6, <2>1 DEF IInv, ReceiptInv
<1>12. BudgetInv'
  BY <1>2, <1>3, <1>4, <1>6, TurnsAreNat DEF IInv, BudgetInv, Type
<1> QED BY <1>8, <1>9, <1>10, <1>11, <1>12 DEF IInv

-----------------------------------------------------------------------------
(* The steps of a flush that has asked.                                    *)

LEMMA InProgress ==
  ASSUME IInv, NEW f \in Flushes, flush[f].pc # "idle"
  PROVE  Active(f) /\ flush[f].offer \in Offers /\ flush[f].cands \in SUBSET Offers /\ flush[f].gen \in Nat
<1>1. Active(f)
  BY NoFlushState DEF Active
<1> QED BY <1>1 DEF IInv, FlightInv, Type, FlushStates

(* A flush that stops, or goes on to the next offer, delivers nothing.     *)
LEMMA StopsOrAsks ==
  ASSUME IInv, HistoryNext, NEW f \in Flushes, flush[f].pc # "idle",
         Cancelled(f) \/ (Current(f) /\ Reject(f)),
         UNCHANGED <<owners, host, identity, turn, compacting, delivered, agentActive>>
  PROVE  IInv'
<1>1. UNCHANGED <<revision, receipts, run, starting, session, live, generation, turnContinuations,
                  harnessStartedRun, delivered, agentActive>>
  BY DEF owners, host, identity, turn
<1>2. Active(f) /\ flush[f].offer \in Offers /\ flush[f].cands \in SUBSET Offers /\ flush[f].gen \in Nat
  BY InProgress
<1>3. /\ deliveries' = deliveries /\ deliveries' \in [Keys -> Nat] /\ sinceUser' \in Nat
  BY <1>1, SinceUser DEF IInv, Type
<1>4. /\ FlightInv' /\ EligibleInv' /\ RevocationSeen' /\ OfferInv'
      /\ flush' \in [Flushes -> FlushStates] /\ inFlight' \in BOOLEAN /\ actionable' = actionable
      /\ scheduled' \in BOOLEAN /\ microtasks' \in Nat /\ pending' = pending
  <2>1. CASE Cancelled(f)
    <3>1. /\ ~ Current(f) /\ Return(f)
          /\ UNCHANGED <<scheduled, microtasks, pending, inFlight, actionable>>
      BY <2>1 DEF Cancelled, offered
    <3>2. flush' \in [Flushes -> FlushStates] /\ Alone(f) /\ flush'[f] = NoFlush
      BY <3>1, ReturnMakes
    <3>3. FlightInv' /\ EligibleInv'
      BY <1>1, <1>2, <3>1, <3>2, FlightEnds
    <3>4. RevocationSeen'
      BY <3>2, NoFlushState, RevocationKept DEF Alone
    <3>5. OfferInv'
      BY <1>1, <3>1 DEF IInv, OfferInv, NoStrandedOffer
    <3> QED BY <3>1, <3>2, <3>3, <3>4, <3>5 DEF IInv, Type
  <2>2. CASE Current(f) /\ flush[f].cands = {} /\ Reject(f)
    <3>1. /\ Return(f) /\ inFlight' = FALSE /\ UNCHANGED <<pending, actionable>> /\ Schedule(Retry)
      BY <2>2 DEF Reject, Finish
    <3>2. flush' \in [Flushes -> FlushStates] /\ Alone(f) /\ flush'[f] = NoFlush
      BY <3>1, ReturnMakes
    <3>3. FlightInv' /\ EligibleInv'
      BY <1>1, <1>2, <2>2, <3>1, <3>2, FlightEnds
    <3>4. RevocationSeen'
      BY <3>2, NoFlushState, RevocationKept DEF Alone
    <3>5. Retry \in BOOLEAN
      BY DEF Retry, IInv, Type
    <3>6. /\ scheduled' \in BOOLEAN /\ microtasks' \in Nat
          /\ scheduled' => microtasks' > 0
          /\ Retry => microtasks' > 0
      BY <3>1, <3>5, ScheduleQueues
    <3>7. OfferInv'
      BY <1>1, <3>1, <3>6 DEF IInv, OfferInv, NoStrandedOffer, Retry
    <3> QED BY <3>1, <3>2, <3>3, <3>4, <3>6, <3>7
  <2>3. CASE Current(f) /\ flush[f].cands # {} /\ Reject(f)
    <3>1. /\ Ask(f, flush[f].gen, flush[f].cands)
          /\ UNCHANGED <<scheduled, microtasks, pending, inFlight, actionable>>
      BY <2>3 DEF Reject, offered
    <3>2. /\ flush' \in [Flushes -> FlushStates] /\ Alone(f)
          /\ flush'[f] # NoFlush /\ flush'[f].pc = "first" /\ flush'[f].gen = flush[f].gen
          /\ flush'[f].cands \subseteq flush[f].cands /\ flush'[f].offer \in flush[f].cands
      BY <1>2, <3>1, AskMakes
    <3>3. FlightInv' /\ EligibleInv'
      <4>1. flush'[f].cands \cup {flush'[f].offer} \subseteq flush[f].cands \cup {flush[f].offer}
        BY <3>2
      <4>2. flush'[f].offer \in Offers
        BY <1>2, <3>2
      <4> QED BY <1>1, <1>2, <3>1, <3>2, <4>1, <4>2, FlightMoves
    <3>4. RevocationSeen'
      BY <3>2, RevocationKept DEF Alone
    <3>5. OfferInv'
      BY <1>1, <3>1 DEF IInv, OfferInv, NoStrandedOffer
    <3> QED BY <3>1, <3>2, <3>3, <3>4, <3>5 DEF IInv, Type
  <2> QED BY <2>1, <2>2, <2>3
<1>5. Type'
  BY <1>1, <1>3, <1>4 DEF IInv, Type
<1>6. BudgetInv'
  BY <1>1, <1>4, BudgetUnchanged DEF IInv, BudgetInv
<1> QED BY <1>1, <1>3, <1>4, <1>5, <1>6, ReceiptsUnchanged DEF IInv

LEMMA AnswerStep ==
  ASSUME IInv, HistoryNext, NEW f \in Flushes, FirstAnswer(f) \/ SecondAnswer(f)
  PROVE  IInv'
<1>1. flush[f].pc # "idle"
      /\ UNCHANGED <<owners, host, identity, turn, compacting, delivered, agentActive>>
  BY DEF FirstAnswer, SecondAnswer, Answer
<1>2. CASE Cancelled(f) \/ (Current(f) /\ Reject(f))
  BY <1>1, <1>2, StopsOrAsks
<1>3. CASE /\ TRUE \in AuthorizeTwice(f) /\ UNCHANGED <<offered, boundary, inFlight>>
           /\ \E next \in {"second", "answered"} : flush' = [flush EXCEPT ![f].pc = next]
  <2>1. PICK next \in {"second", "answered"} : flush' = [flush EXCEPT ![f].pc = next]
    BY <1>3
  <2>2. UNCHANGED <<revision, receipts, run, starting, session, live, generation, turnContinuations,
                    harnessStartedRun, delivered, agentActive, scheduled, microtasks, pending, inFlight,
                    actionable>>
    BY <1>1, <1>3 DEF owners, host, identity, turn, offered, boundary
  <2>3. Active(f) /\ flush[f].offer \in Offers
    BY <1>1, InProgress
  <2>4. flush[f] \in FlushStates
    BY DEF IInv, Type
  <2>5. flush'[f] = [flush[f] EXCEPT !.pc = next] /\ Alone(f)
    BY <2>1 DEF Alone, IInv, Type
  <2>6. /\ flush'[f] \in FlushStates /\ flush'[f].pc = next /\ flush'[f].gen = flush[f].gen
        /\ flush'[f].cands = flush[f].cands /\ flush'[f].offer = flush[f].offer
    BY <2>4, <2>5 DEF FlushStates
  <2>7. flush' \in [Flushes -> FlushStates]
    BY <2>1, <2>5, <2>6 DEF IInv, Type
  <2>8. flush'[f] # NoFlush
    BY <2>6, NoFlushState
  <2>9. FlightInv' /\ EligibleInv'
    BY <2>2, <2>3, <2>5, <2>6, <2>8, FlightMoves
  <2>10. flush[f].offer.rev = revision[flush[f].offer.owner]
    BY <1>3 DEF AuthorizeTwice, Authorize
  <2>11. RevocationSeen'
    BY <2>2, <2>5, <2>6, <2>10, RevocationKept DEF Alone
  <2>12. /\ deliveries' = deliveries /\ deliveries' \in [Keys -> Nat] /\ sinceUser' \in Nat
    BY <2>2, SinceUser DEF IInv, Type
  <2>13. Type'
    BY <2>2, <2>7, <2>12 DEF IInv, Type
  <2>14. OfferInv'
    BY <2>2 DEF IInv, OfferInv, NoStrandedOffer
  <2>15. BudgetInv'
    BY <2>2, BudgetUnchanged DEF IInv, BudgetInv
  <2> QED BY <2>2, <2>9, <2>11, <2>12, <2>13, <2>14, <2>15, ReceiptsUnchanged DEF IInv
<1>4. \/ Cancelled(f) \/ (Current(f) /\ Reject(f))
      \/ /\ TRUE \in AuthorizeTwice(f) /\ UNCHANGED <<offered, boundary, inFlight>>
         /\ \E next \in {"second", "answered"} : flush' = [flush EXCEPT ![f].pc = next]
  BY DEF FirstAnswer, SecondAnswer, Answer
<1> QED BY <1>2, <1>3, <1>4

(* A delivery: the receipt and the count move together, and the turn it    *)
(* starts is one that was left.                                            *)
LEMMA DispatchCounts ==
  ASSUME IInv, HistoryNext, NEW f \in Flushes, flush[f].pc = "answered", Current(f), Dispatch(f),
         UNCHANGED <<run, generation>>
  PROVE  /\ Alone(f) /\ flush'[f] = NoFlush /\ flush' \in [Flushes -> FlushStates]
         /\ deliveries' = [k \in Keys |-> deliveries[k] + IF KeyOf(f) = k THEN 1 ELSE 0]
         /\ sinceUser' = sinceUser + 1
<1>1. Active(f)
  BY InProgress
<1>2. Alone(f) /\ flush'[f] = NoFlush /\ flush' \in [Flushes -> FlushStates]
  BY ReturnMakes DEF Dispatch, Finish
<1>3. turnContinuations' = turnContinuations + 1 /\ turnContinuations \in Nat
  BY DEF Dispatch, IInv, Type
<1>4. Dispatching = {f}
  <2>1. Dispatching = {g \in Flushes : flush[g].pc = "answered" /\ flush'[g] # flush[g]}
    BY <1>3 DEF Dispatching
  <2>2. flush'[f] # flush[f]
    BY <1>1, <1>2 DEF Active
  <2> QED BY <1>2, <2>1, <2>2 DEF Alone
<1>5. Count({f})
  BY <1>4 DEF HistoryNext
<1>6. ~ UserSpeaks
  BY DEF UserSpeaks
<1>7. Cardinality({f}) = 1 /\ Cardinality({}) = 0
  BY FS_Singleton, FS_EmptySet
<1>8. \A k \in Keys : Cardinality({g \in {f} : KeyOf(g) = k}) = IF KeyOf(f) = k THEN 1 ELSE 0
  <2> TAKE k \in Keys
  <2>1. CASE KeyOf(f) = k
    <3>1. {g \in {f} : KeyOf(g) = k} = {f}
      BY <2>1
    <3> QED BY <1>7, <2>1, <3>1
  <2>2. CASE KeyOf(f) # k
    <3>1. {g \in {f} : KeyOf(g) = k} = {}
      BY <2>2
    <3> QED BY <1>7, <2>2, <3>1
  <2> QED BY <2>1, <2>2
<1>9. deliveries' = [k \in Keys |-> deliveries[k] + Cardinality({g \in {f} : KeyOf(g) = k})]
  BY <1>5 DEF Count
<1>10. deliveries' = [k \in Keys |-> deliveries[k] + IF KeyOf(f) = k THEN 1 ELSE 0]
  BY <1>8, <1>9
<1>11. sinceUser' = sinceUser + 1
  BY <1>5, <1>6, <1>7 DEF Count
<1> QED BY <1>2, <1>10, <1>11

LEMMA DispatchStep ==
  ASSUME IInv, HistoryNext, NEW f \in Flushes, flush[f].pc = "answered", Current(f), ~ Rejected(f),
         Dispatch(f), UNCHANGED <<revision, identity, compacting, agentActive>>
  PROVE  IInv'
<1> DEFINE e == flush[f].offer
           key == OwnerKey(e)
<1>1. Active(f) /\ e \in Offers /\ e.owner \in Owners /\ e.rev \in Revisions
  BY InProgress DEF Offers
<1>2. session # NoOne /\ session \in Sessions /\ turnContinuations < MaxTurns /\ key \notin delivered
  BY <1>1 DEF IInv, EligibleInv, Eligible, Type
<1>3. UNCHANGED <<session, live, generation, run, revision, agentActive>>
  BY DEF identity, Dispatch
<1>4. /\ delivered' = delivered \cup {key}
      /\ receipts' = [receipts EXCEPT ![session] = @ \cup {key}]
      /\ turnContinuations' = turnContinuations + 1
      /\ inFlight' = FALSE /\ pending' = {} /\ UNCHANGED <<scheduled, microtasks>>
  BY DEF Dispatch, Finish
<1>5. \/ actionable = "closed" /\ harnessStartedRun' = TRUE /\ SendFollowUp /\ actionable' = actionable
      \/ actionable # "closed" /\ actionable' = "continue" /\ UNCHANGED <<harnessStartedRun, starting>>
  BY DEF Dispatch, MarkStarted
<1>6. /\ Alone(f) /\ flush'[f] = NoFlush /\ flush' \in [Flushes -> FlushStates]
      /\ deliveries' = [k \in Keys |-> deliveries[k] + IF KeyOf(f) = k THEN 1 ELSE 0]
      /\ sinceUser' = sinceUser + 1
  BY <1>3, DispatchCounts
<1>7. KeyOf(f) = <<session, e.owner, e.rev>> /\ key = <<e.owner, e.rev>>
  BY DEF KeyOf, OwnerKey
<1> HIDE DEF e, key
<1>8. FlightInv' /\ EligibleInv'
  BY <1>1, <1>3, <1>4, <1>6, FlightEnds
<1>9. RevocationSeen'
  BY <1>6, NoFlushState, RevocationKept DEF Alone
<1>10. OfferInv'
  BY <1>4 DEF IInv, OfferInv, NoStrandedOffer
<1>11. receipts \in [Sessions -> SUBSET (Owners \X Revisions)] /\ deliveries \in [Keys -> Nat]
  BY DEF IInv, Type
<1>12. receipts' \in [Sessions -> SUBSET (Owners \X Revisions)]
  BY <1>1, <1>2, <1>4, <1>7, <1>11
<1>13. ReceiptInv'
  <2>1. session' # NoOne => delivered' = receipts'[session']
    BY <1>2, <1>3, <1>4, <1>11 DEF IInv, ReceiptInv
  <2>2. ASSUME NEW s \in Sessions, NEW o \in Owners, NEW r \in Revisions
        PROVE  deliveries'[<<s, o, r>>] = IF <<o, r>> \in receipts'[s] THEN 1 ELSE 0
    <3>1. <<s, o, r>> \in Keys
      BY DEF Keys
    <3>2. deliveries'[<<s, o, r>>] = deliveries[<<s, o, r>>] + IF KeyOf(f) = <<s, o, r>> THEN 1 ELSE 0
      BY <1>6, <3>1
    <3>3. deliveries[<<s, o, r>>] = IF <<o, r>> \in receipts[s] THEN 1 ELSE 0
      BY DEF IInv, ReceiptInv
    <3>4. CASE s = session /\ <<o, r>> = key
      <4>1. <<o, r>> \notin receipts[s]
        BY <1>2, <3>4 DEF IInv, ReceiptInv
      <4>2. <<o, r>> \in receipts'[s]
        BY <1>2, <1>4, <1>11, <3>4
      <4>3. KeyOf(f) = <<s, o, r>>
        BY <1>7, <3>4
      <4> QED BY <3>2, <3>3, <4>1, <4>2, <4>3
    <3>5. CASE ~ (s = session /\ <<o, r>> = key)
      <4>1. <<o, r>> \in receipts'[s] <=> <<o, r>> \in receipts[s]
        BY <1>2, <1>4, <1>11, <3>5
      <4>2. KeyOf(f) # <<s, o, r>>
        BY <1>7, <3>5
      <4>3. deliveries[<<s, o, r>>] \in Nat
        BY <1>11, <3>1
      <4> QED BY <3>2, <3>3, <4>1, <4>2, <4>3
    <3> QED BY <3>4, <3>5
  <2> QED BY <2>1, <2>2 DEF ReceiptInv
<1>14. starting' \in {"none", "user", "harness"} /\ harnessStartedRun' \in BOOLEAN
       /\ actionable' \in {"closed", "open", "continue"}
  BY <1>5 DEF SendFollowUp, IInv, Type
<1>15. deliveries' \in [Keys -> Nat] /\ sinceUser' \in Nat /\ turnContinuations' \in Nat
  BY <1>4, <1>6, <1>11 DEF IInv, Type
<1>16. Type'
  BY <1>3, <1>4, <1>6, <1>12, <1>14, <1>15 DEF IInv, Type
<1>17. BudgetInv'
  <2>1. turnContinuations' <= MaxTurns /\ sinceUser' <= turnContinuations'
    BY <1>2, <1>4, <1>6, TurnsAreNat DEF IInv, BudgetInv, Type
  <2>2. CASE actionable = "closed" /\ harnessStartedRun' = TRUE /\ SendFollowUp /\ actionable' = actionable
    BY <1>3, <2>1, <2>2 DEF SendFollowUp, IInv, BudgetInv
  <2>3. CASE actionable # "closed" /\ actionable' = "continue" /\ UNCHANGED <<harnessStartedRun, starting>>
    BY <1>3, <2>1, <2>3 DEF IInv, BudgetInv
  <2> QED BY <1>5, <2>2, <2>3
<1> QED BY <1>8, <1>9, <1>10, <1>13, <1>16, <1>17 DEF IInv

LEMMA ActStep ==
  ASSUME IInv, HistoryNext, NEW f \in Flushes, Act(f)
  PROVE  IInv'
<1>1. flush[f].pc = "answered" /\ UNCHANGED <<revision, identity, compacting, agentActive>>
  BY DEF Act
<1>2. CASE (Cancelled(f) \/ (Current(f) /\ Reject(f))) /\ UNCHANGED <<receipts, host, turn, delivered>>
  BY <1>1, <1>2, StopsOrAsks DEF owners
<1>3. CASE Current(f) /\ ~ Rejected(f) /\ Dispatch(f)
  BY <1>1, <1>3, DispatchStep
<1> QED BY <1>2, <1>3 DEF Act

-----------------------------------------------------------------------------
LEMMA NextKeepsIInv == IInv /\ [HistoryNext]_historyVars => IInv'
<1> SUFFICES ASSUME IInv, [HistoryNext]_historyVars PROVE IInv'
  OBVIOUS
<1>1. CASE HistoryNext
  <2>1. Next
    BY <1>1 DEF HistoryNext
  <2>2. CASE \E o \in Owners : Revise(o) \/ \E from \in Producers, s \in Sessions : Offer(o, from, s)
    BY <1>1, <2>2, ReviseStep, OfferStep
  <2>3. CASE \E f \in Flushes : \/ FlushStart(f) \/ FirstAnswer(f) \/ SecondAnswer(f) \/ Act(f)
                                \/ SettleCompleted(f)
    BY <1>1, <2>3, FlushStartStep, AnswerStep, ActStep, SettleCompletedStep
  <2>4. CASE SessionShutdown \/ \E s \in Sessions : SessionStart(s)
    BY <1>1, <2>4, SessionStep
  <2>5. CASE SessionBeforeCompact \/ SessionCompact
    BY <1>1, <2>5, CompactionStep
  <2>6. CASE UserMessage \/ BeforeAgentStart \/ AgentStart \/ EndBoundary
    BY <1>1, <2>6, UserMessageStep, BeforeAgentStartStep, AgentStartStep, EndBoundaryStep
  <2>7. CASE \E outcome \in Stops : SettleStopped(outcome) \/ AgentSettled(outcome)
    BY <1>1, <2>7, SettleStoppedStep, AgentSettledStep
  <2> QED BY <2>1, <2>2, <2>3, <2>4, <2>5, <2>6, <2>7 DEF Next
<1>2. CASE UNCHANGED historyVars
  <2>1. UNCHANGED <<revision, receipts, run, starting, session, live, generation, scheduled, microtasks,
                    inFlight, pending, delivered, turnContinuations, harnessStartedRun, agentActive,
                    actionable, flush, deliveries, sinceUser, overtaken>>
    BY <1>2 DEF historyVars, vars, owners, host, identity, turn, offered, boundary, flushing
  <2>2. Type'
    BY <2>1 DEF IInv, Type
  <2>3. FlightInv' /\ EligibleInv'
    BY <2>1 DEF IInv, FlightInv, SingleFlight, EligibleInv, Active, Current, Eligible, OwnerKey
  <2>4. OfferInv' /\ ReceiptInv' /\ BudgetInv' /\ RevocationSeen'
    BY <2>1 DEF IInv, OfferInv, NoStrandedOffer, ReceiptInv, BudgetInv, RevocationSeen
  <2> QED BY <2>2, <2>3, <2>4 DEF IInv
<1> QED BY <1>1, <1>2

(* The invariant holds in every state of the dispatcher, whatever the      *)
(* handlers do between two answers.                                        *)
THEOREM Invariance == HistorySpec => []IInv
<1>1. HistoryInit => IInv
  BY InitHolds
<1>2. IInv /\ [HistoryNext]_historyVars => IInv'
  BY NextKeepsIInv
<1> QED BY <1>1, <1>2, PTL DEF HistorySpec

(* One flush of the current session at most is under way, and the lock     *)
(* says so, for any number of flushes and reloads.                         *)
THEOREM SingleFlightAlways == HistorySpec => []SingleFlight
<1>1. IInv => SingleFlight
  BY DEF IInv, FlightInv
<1> QED BY <1>1, Invariance, PTL

(* An offer that waits while nothing runs has a flush that will see it.    *)
THEOREM NoStrandedOfferAlways == HistorySpec => []NoStrandedOffer
<1>1. IInv => NoStrandedOffer
  BY DEF IInv, OfferInv
<1> QED BY <1>1, Invariance, PTL

(* No revision of an owner is delivered twice in a session, across reloads *)
(* and the flushes they overlap.                                           *)
THEOREM OneDeliveryAlways == HistorySpec => []OneDelivery
<1>1. IInv => OneDelivery
  <2> SUFFICES ASSUME IInv, NEW k \in Keys PROVE deliveries[k] =< 1
    BY DEF OneDelivery
  <2>1. PICK s \in Sessions, o \in Owners, r \in Revisions : k = <<s, o, r>>
    BY DEF Keys
  <2>2. deliveries[<<s, o, r>>] = IF <<o, r>> \in receipts[s] THEN 1 ELSE 0
    BY DEF IInv, ReceiptInv
  <2> QED BY <2>1, <2>2
<1> QED BY <1>1, Invariance, PTL

(* The harness starts at most MaxTurns turns between two messages of the   *)
(* user, whatever MaxTurns is.                                             *)
THEOREM TurnBudgetAlways == HistorySpec => []TurnBudget
<1>1. IInv => TurnBudget
  BY TurnsAreNat DEF IInv, BudgetInv, TurnBudget, Type
<1> QED BY <1>1, Invariance, PTL

(* A flush about to deliver holds an offer its owner still stood by when   *)
(* it gave its second answer.                                              *)
THEOREM RevocationSeenAlways == HistorySpec => []RevocationSeen
<1>1. IInv => RevocationSeen
  BY DEF IInv
<1> QED BY <1>1, Invariance, PTL

(* What the abort does guarantee: while it stands and no flush was under    *)
(* way, none begins and no turn is started.  A turn that starts after an    *)
(* abort (AbortedStaysStopped fails) is that of a flush begun before it.    *)
LEMMA StoppedStep ==
  ASSUME IInv, [Next]_vars, stoppedByAbort, ~ inFlight
  PROVE  ~ inFlight' /\ turnContinuations' =< turnContinuations
<1> DEFINE goal == ~ inFlight' /\ turnContinuations' =< turnContinuations
<1>1. turnContinuations \in Nat
  BY DEF IInv, Type
<1>2. \A f \in Flushes : flush[f].pc # "idle" => ~ Current(f)
  BY NoFlushState DEF IInv, FlightInv, SingleFlight
<1>3. \A f \in Flushes, active \in BOOLEAN : Begin(f, active) => inFlight' = inFlight
  BY DEF Begin, flushing
<1>4. CASE UNCHANGED vars
  BY <1>1, <1>4 DEF vars, turn, flushing
<1>5. ASSUME NEW f \in Flushes, FlushStart(f) \/ SettleCompleted(f) PROVE goal
  <2>1. inFlight' = inFlight
    BY <1>3, <1>5 DEF FlushStart, SettleCompleted, IInv, Type
  <2>2. turnContinuations' = turnContinuations
    BY <1>5 DEF FlushStart, SettleCompleted, turn
  <2> QED BY <1>1, <2>1, <2>2
<1>6. ASSUME NEW f \in Flushes, FirstAnswer(f) \/ SecondAnswer(f) PROVE goal
  <2>1. Cancelled(f)
    BY <1>2, <1>6 DEF FirstAnswer, SecondAnswer, Answer
  <2>2. inFlight' = inFlight
    BY <2>1 DEF Cancelled
  <2>3. turnContinuations' = turnContinuations
    BY <1>6 DEF FirstAnswer, SecondAnswer, Answer, turn
  <2> QED BY <1>1, <2>2, <2>3
<1>7. ASSUME NEW f \in Flushes, Act(f) PROVE goal
  <2>1. ~ Current(f)
    BY <1>2, <1>7 DEF Act
  <2>2. Cancelled(f) /\ UNCHANGED turn
    BY <1>7, <2>1 DEF Act
  <2> QED BY <1>1, <2>2 DEF Cancelled, turn
<1>8. ASSUME NEW s \in Sessions, SessionStart(s) PROVE goal
  BY <1>1, <1>8 DEF SessionStart
<1>9. CASE SessionShutdown
  BY <1>1, <1>9 DEF SessionShutdown, turn
<1>10. CASE SessionBeforeCompact \/ SessionCompact
  <2>1. turnContinuations' = turnContinuations /\ UNCHANGED flushing
    BY <1>10 DEF SessionBeforeCompact, SessionCompact
  <2> QED BY <1>1, <2>1 DEF flushing
<1>11. CASE UserMessage \/ BeforeAgentStart \/ AgentStart \/ EndBoundary
  <2>1. UNCHANGED flushing
    BY <1>11 DEF UserMessage, BeforeAgentStart, AgentStart, EndBoundary
  <2>2. UNCHANGED turnContinuations \/ turnContinuations' = 0
    BY <1>11 DEF UserMessage, BeforeAgentStart, AgentStart, EndBoundary, turn
  <2> QED BY <1>1, <2>1, <2>2 DEF flushing
<1>12. ASSUME NEW outcome \in Stops, SettleStopped(outcome) \/ AgentSettled(outcome) PROVE goal
  BY <1>1, <1>12 DEF SettleStopped, AgentSettled, flushing
<1>13. ASSUME NEW o \in Owners, Revise(o) \/ \E from \in Producers, s \in Sessions : Offer(o, from, s)
       PROVE  goal
  <2>1. UNCHANGED <<turn, flushing>>
    BY <1>13 DEF Revise, Offer
  <2> QED BY <1>1, <2>1 DEF turn, flushing
<1> QED BY <1>4, <1>5, <1>6, <1>7, <1>8, <1>9, <1>10, <1>11, <1>12, <1>13 DEF Next

(* An abort stops whatever had not begun: neither a new offer, nor a queued *)
(* flush, nor a boundary starts a turn before the user speaks or a session  *)
(* or a compaction takes the abort back.                                    *)
THEOREM AbortStopsWhatHadNotBegun ==
  HistorySpec => [][stoppedByAbort /\ ~ inFlight =>
                      ~ inFlight' /\ turnContinuations' =< turnContinuations]_vars
<1>1. [HistoryNext]_historyVars => [Next]_vars
  BY DEF HistoryNext, historyVars, vars
<1>2. IInv /\ [HistoryNext]_historyVars =>
        [stoppedByAbort /\ ~ inFlight => ~ inFlight' /\ turnContinuations' =< turnContinuations]_vars
  BY <1>1, StoppedStep
<1> QED BY <1>2, Invariance, PTL DEF HistorySpec
=============================================================================
