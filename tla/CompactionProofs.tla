-------------------------- MODULE CompactionProofs --------------------------
(***************************************************************************)
(* What holds of the compactions of a process for any number of sessions,  *)
(* granted compactions and late callbacks, and any models, windows and     *)
(* measurements: the slot and the latches stand for the one compaction     *)
(* that is under way, a compaction asks to go on once, a context that was  *)
(* too large is not forgotten, and tools are granted only the room that    *)
(* the last request left.                                                  *)
(***************************************************************************)
EXTENDS Compaction, FiniteSetTheorems, TLAPS

Reservations == [id : Calls, epoch : Epochs, tokens : Nat]
Owners       == {"compact-tool", "model-handoff", "context-admission"}
Marks        == (Nat \X Windows) \cup Epochs \cup {Unknown}
Ats          == {"none", "reading", "running", "committed", "resuming", "closed"}
GrantedCalls == [owner : Owners \cup {Unknown},
                 at : Ats, session : Nat, mark : Marks]

-----------------------------------------------------------------------------
(* The inductive invariant: that of the slot, and that of the budget.       *)

SlotTypes ==
  /\ session \in Nat /\ sessionId \in Nat \cup {Unknown}
  /\ request \in 0..MaxRequests /\ active \in 0..MaxRequests
  /\ call \in [Requests -> GrantedCalls]
  /\ inFlight \in BOOLEAN /\ handoffInFlight \in BOOLEAN
  /\ offers \in [Requests -> [times : Nat, session : Nat \cup {Unknown}]]

(* A number not given out yet is of no call; no call is of a later session; *)
(* and only a call that is over has asked to go on.                         *)
CallsAgree ==
  \A n \in Requests :
    /\ call[n].session <= session
    /\ n > request => call[n].at = "none"
    /\ offers[n].times # 0 => offers[n].times = 1 /\ call[n].at = "closed"

SlotInv == SlotTypes /\ CallsAgree /\ SlotAgrees /\ OneResume

BudgetTypes ==
  /\ session \in Nat /\ model \in Models /\ usage \in Nat \cup {Unknown}
  /\ profile \in Profiles \cup {Unknown} /\ current \in Epochs \cup {Unknown}
  /\ allowance \in Int \cup {Unknown} /\ overflow \in Observations \cup {Unknown}
  /\ generation \in Nat
  /\ reserved \subseteq Reservations /\ IsFiniteSet(reserved)
  /\ measured \in Measurements \cup {Unknown} /\ seen \in Readings \cup {Unknown}

\* Where the agent is, and the session that Pi last measured.
Whereabouts ==
  /\ up # "up" => at = "idle"
  /\ at \in {"requested", "answered"} => profile # Unknown
  /\ seen # Unknown => seen.session <= session /\ (up \in {"tool", "truth"} => seen.session < session)

\* An allowance is what the request that is answered left.
Certified ==
  at \in {"requested", "answered"} /\ allowance # Unknown =>
    /\ measured # Unknown /\ measured.session = session /\ measured.epoch = current
    /\ measured.generation = generation /\ measured.room = allowance

\* A measurement over the budget is still there as the overflow.
WasOver == seen # Unknown /\ seen.session = session /\ seen.epoch = current /\ seen.over

Remembered == up = "up" /\ WasOver => overflow # Unknown /\ overflow.tokens > Safe[seen.epoch[2]]

BudgetInv == BudgetTypes /\ Whereabouts /\ Certified /\ Remembered /\ OverflowRemembered

IInv == SlotInv /\ BudgetInv

-----------------------------------------------------------------------------
(* The slot: what each operation of the coordinator does to it.             *)

\* A call that moves on changes its place and nothing else.
LEMMA BecomeCall ==
  ASSUME SlotTypes, NEW n \in Requests, NEW where \in Ats, Become(n, where)
  PROVE  /\ call' \in [Requests -> GrantedCalls]
         /\ call'[n].at = where /\ call'[n].owner = call[n].owner
         /\ call'[n].session = call[n].session
         /\ \A k \in Requests \ {n} : call'[k] = call[k]
  BY DEF SlotTypes, Become, GrantedCalls

\* A call that is granted takes the next number.
LEMMA GrantedCall ==
  ASSUME SlotTypes, NEW owner \in Owners, NEW where \in Ats, NEW mark \in Marks, request < MaxRequests,
         request' = request + 1,
         call' = [call EXCEPT ![request'] =
                    [owner |-> owner, at |-> where, session |-> session, mark |-> mark]]
  PROVE  /\ request' \in Requests /\ request' \in 0..MaxRequests
         /\ call' \in [Requests -> GrantedCalls]
         /\ call'[request'].at = where /\ call'[request'].owner = owner
         /\ call'[request'].session = session
         /\ \A k \in Requests \ {request'} : call'[k] = call[k]
<1>1. request' \in Requests /\ request' \in 0..MaxRequests
  BY Bounds DEF SlotTypes, Requests
<1>2. [owner |-> owner, at |-> where, session |-> session, mark |-> mark] \in GrantedCalls
  BY DEF SlotTypes, GrantedCalls
<1> QED BY <1>1, <1>2 DEF SlotTypes

SlotFrame == session' = session /\ offers' = offers /\ sessionId' \in Nat \cup {Unknown}

LEMMA SlotBegin ==
  ASSUME SlotInv, NEW owner \in Owners, NEW where \in {"reading", "running"}, NEW mark \in Marks,
         Begin(owner, where, mark), SlotFrame,
         \/ UNCHANGED <<inFlight, handoffInFlight>>
         \/ owner = "compact-tool" /\ inFlight' = TRUE /\ handoffInFlight' = handoffInFlight
         \/ /\ owner = "model-handoff" /\ where = "running"
            /\ handoffInFlight' = TRUE /\ inFlight' = inFlight
  PROVE  SlotInv'
<1> DEFINE n == request'
<1>1. active = 0 /\ request < MaxRequests /\ request' = request + 1 /\ active' = n
      /\ call' = [call EXCEPT ![n] = [owner |-> owner, at |-> where, session |-> session, mark |-> mark]]
  BY DEF Begin
<1>2. SlotTypes /\ CallsAgree /\ SlotAgrees /\ OneResume
  BY DEF SlotInv
<1>3. /\ n \in Requests /\ n \in 0..MaxRequests /\ call' \in [Requests -> GrantedCalls]
      /\ call'[n].at = where /\ call'[n].owner = owner /\ call'[n].session = session
      /\ \A k \in Requests \ {n} : call'[k] = call[k]
  BY <1>1, <1>2, GrantedCall DEF Ats
<1>4. n > request /\ request \in Nat /\ n \in Nat /\ n # 0 /\ session \in Nat
  BY <1>1, <1>2, Bounds DEF SlotTypes
<1> HIDE DEF n
<1>5. call[n].at = "none" /\ offers[n].times = 0
  BY <1>2, <1>3, <1>4 DEF CallsAgree
<1>6. SlotTypes'
  BY <1>1, <1>2, <1>3 DEF SlotTypes, SlotFrame, n
<1>7. CallsAgree'
  BY <1>1, <1>2, <1>3, <1>4, <1>5 DEF CallsAgree, SlotFrame, SlotTypes, Requests, n
<1>8. SlotAgrees'
  <2>1. \A k \in Requests : Live(k)' <=> (active' = k)
    BY <1>1, <1>2, <1>3, <1>4 DEF SlotAgrees, Live, SlotFrame, Requests
  <2>2. inFlight' => (active' # 0 /\ call'[active'].owner = "compact-tool")
    BY <1>1, <1>2, <1>3, <1>4 DEF SlotAgrees
  <2>3. handoffInFlight' => \E k \in Requests : call'[k].owner = "model-handoff"
                                               /\ call'[k].at \in {"running", "committed"}
    BY <1>1, <1>2, <1>3, <1>5 DEF SlotAgrees
  <2> QED BY <2>1, <2>2, <2>3 DEF SlotAgrees
<1>9. OneResume'
  <2>1. ASSUME NEW k \in Requests
        PROVE  /\ offers'[k].times <= 1
               /\ offers'[k].times = 1 /\ call'[k].owner = "compact-tool"
                  => offers'[k].session = call'[k].session
    <3>1. offers'[k] = offers[k]
      BY DEF SlotFrame
    <3>2. CASE k = n
      BY <1>5, <3>1, <3>2
    <3>3. CASE k # n
      BY <1>2, <1>3, <3>1, <3>3 DEF OneResume
    <3> QED BY <3>2, <3>3
  <2> QED BY <2>1 DEF OneResume
<1> QED BY <1>6, <1>7, <1>8, <1>9 DEF SlotInv

LEMMA SlotBeginAndFail ==
  ASSUME SlotInv, NEW owner \in Owners, NEW mark \in Marks, BeginAndFail(owner, mark), SlotFrame,
         inFlight' = inFlight, handoffInFlight' = FALSE \/ handoffInFlight' = handoffInFlight
  PROVE  SlotInv'
<1> DEFINE n == request'
<1>1. active = 0 /\ request < MaxRequests /\ request' = request + 1 /\ active' = 0
      /\ call' = [call EXCEPT ![n] = [owner |-> owner, at |-> "closed", session |-> session, mark |-> mark]]
  BY DEF BeginAndFail
<1>2. SlotTypes /\ CallsAgree /\ SlotAgrees /\ OneResume
  BY DEF SlotInv
<1>3. /\ n \in Requests /\ n \in 0..MaxRequests /\ call' \in [Requests -> GrantedCalls]
      /\ call'[n].at = "closed" /\ call'[n].owner = owner /\ call'[n].session = session
      /\ \A k \in Requests \ {n} : call'[k] = call[k]
  BY <1>1, <1>2, GrantedCall DEF Ats
<1>4. n > request /\ request \in Nat /\ n \in Nat /\ n # 0 /\ session \in Nat
  BY <1>1, <1>2, Bounds DEF SlotTypes
<1> HIDE DEF n
<1>5. call[n].at = "none" /\ offers[n].times = 0
  BY <1>2, <1>3, <1>4 DEF CallsAgree
<1>6. SlotTypes'
  BY <1>1, <1>2, <1>3 DEF SlotTypes, SlotFrame, n
<1>7. CallsAgree'
  BY <1>1, <1>2, <1>3, <1>4, <1>5 DEF CallsAgree, SlotFrame, SlotTypes, Requests, n
<1>8. SlotAgrees'
  <2>1. \A k \in Requests : Live(k)' <=> (active' = k)
    BY <1>1, <1>2, <1>3, <1>4 DEF SlotAgrees, Live, SlotFrame, Requests
  <2>2. ~inFlight'
    BY <1>1, <1>2 DEF SlotAgrees
  <2>3. handoffInFlight' => \E k \in Requests : call'[k].owner = "model-handoff"
                                               /\ call'[k].at \in {"running", "committed"}
    BY <1>1, <1>2, <1>3, <1>5 DEF SlotAgrees
  <2> QED BY <2>1, <2>2, <2>3 DEF SlotAgrees
<1>9. OneResume'
  <2>1. ASSUME NEW k \in Requests
        PROVE  /\ offers'[k].times <= 1
               /\ offers'[k].times = 1 /\ call'[k].owner = "compact-tool"
                  => offers'[k].session = call'[k].session
    <3>1. offers'[k] = offers[k]
      BY DEF SlotFrame
    <3>2. CASE k = n
      BY <1>5, <3>1, <3>2
    <3>3. CASE k # n
      BY <1>2, <1>3, <3>1, <3>3 DEF OneResume
    <3> QED BY <3>2, <3>3
  <2> QED BY <2>1 DEF OneResume
<1> QED BY <1>6, <1>7, <1>8, <1>9 DEF SlotInv

LEMMA SlotSame ==
  ASSUME SlotInv, UNCHANGED <<coordinator, inFlight>>, SlotFrame,
         handoffInFlight' = FALSE \/ handoffInFlight' = handoffInFlight
  PROVE  SlotInv'
<1> USE DEF coordinator, SlotFrame
<1>1. SlotTypes'
  BY DEF SlotInv, SlotTypes
<1>2. CallsAgree' /\ OneResume'
  BY DEF SlotInv, CallsAgree, OneResume
<1>3. \A n \in Requests : Live(n)' <=> (active' = n)
  BY DEF SlotInv, SlotAgrees, Live
<1>4. inFlight' => (active' # 0 /\ call'[active'].owner = "compact-tool")
  BY DEF SlotInv, SlotAgrees
<1>5. handoffInFlight' => \E n \in Requests : call'[n].owner = "model-handoff"
                                             /\ call'[n].at \in {"running", "committed"}
  BY DEF SlotInv, SlotAgrees
<1>6. SlotAgrees'
  BY <1>3, <1>4, <1>5 DEF SlotAgrees
<1> QED BY <1>1, <1>2, <1>6 DEF SlotInv

(* Whoever finishes: the slot is given back if the call holds it, and the   *)
(* call is live no longer.                                                   *)
LEMMA SlotFinish ==
  ASSUME SlotInv, NEW n \in Requests, NEW where \in {"resuming", "closed"},
         call[n].at \in {"reading", "running", "committed"},
         Become(n, where), Finish(n), SlotFrame, request' = request,
         inFlight' = FALSE \/ inFlight' = inFlight, handoffInFlight' = FALSE \/ handoffInFlight' = handoffInFlight,
         Holds(n) /\ call[n].owner = "compact-tool" => inFlight' = FALSE,
         call[n].owner = "model-handoff" /\ call[n].at # "reading" => handoffInFlight' = FALSE
  PROVE  SlotInv'
<1>1. SlotTypes /\ CallsAgree /\ SlotAgrees /\ OneResume
  BY DEF SlotInv
<1>2. /\ call' \in [Requests -> GrantedCalls] /\ call'[n].at = where
      /\ call'[n].owner = call[n].owner /\ call'[n].session = call[n].session
      /\ \A k \in Requests \ {n} : call'[k] = call[k]
  BY <1>1, BecomeCall DEF Ats
<1>3. active' = IF active = n THEN 0 ELSE active
  BY DEF Finish, Holds
<1>4. n # 0 /\ 0 \notin Requests
  BY DEF Requests
<1>5. SlotTypes'
  <2>1. active' \in 0..MaxRequests
    BY <1>1, <1>3, Bounds DEF SlotTypes
  <2>2. inFlight' \in BOOLEAN /\ handoffInFlight' \in BOOLEAN
    BY <1>1 DEF SlotTypes
  <2> QED BY <1>1, <1>2, <2>1, <2>2 DEF SlotTypes, SlotFrame
<1>6. CallsAgree'
  <2>1. offers[n].times = 0
    BY <1>1 DEF CallsAgree
  <2> QED BY <1>1, <1>2, <2>1 DEF CallsAgree, SlotFrame
<1>7. SlotAgrees'
  <2>1. \A k \in Requests : Live(k)' <=> (active' = k)
    BY <1>1, <1>2, <1>3, <1>4 DEF SlotAgrees, Live, SlotFrame
  <2>2. inFlight' => (active' # 0 /\ call'[active'].owner = "compact-tool")
    <3>1. active \in Requests \/ active = 0
      BY <1>1, Bounds DEF SlotTypes, Requests
    <3> QED BY <1>1, <1>2, <1>3, <3>1 DEF SlotAgrees, Holds, SlotTypes
  <2>3. handoffInFlight' => \E k \in Requests : call'[k].owner = "model-handoff"
                                               /\ call'[k].at \in {"running", "committed"}
    BY <1>1, <1>2 DEF SlotAgrees, SlotTypes
  <2> QED BY <2>1, <2>2, <2>3 DEF SlotAgrees
<1>8. OneResume'
  BY <1>1, <1>2 DEF OneResume, SlotFrame
<1> QED BY <1>5, <1>6, <1>7, <1>8 DEF SlotInv

\* A call under way that moves on and stays under way.
LEMMA SlotAdvance ==
  ASSUME SlotInv, NEW n \in Requests, NEW where \in {"running", "committed"},
         call[n].at \in {"reading", "running"}, Become(n, where), SlotFrame,
         UNCHANGED <<request, active, inFlight, handoffInFlight>>
  PROVE  SlotInv'
<1>1. SlotTypes /\ CallsAgree /\ SlotAgrees /\ OneResume
  BY DEF SlotInv
<1>2. /\ call' \in [Requests -> GrantedCalls] /\ call'[n].at = where
      /\ call'[n].owner = call[n].owner /\ call'[n].session = call[n].session
      /\ \A k \in Requests \ {n} : call'[k] = call[k]
  BY <1>1, BecomeCall DEF Ats
<1>3. SlotTypes'
  BY <1>1, <1>2 DEF SlotTypes, SlotFrame
<1>4. CallsAgree'
  BY <1>1, <1>2 DEF CallsAgree, SlotFrame
<1>5. SlotAgrees'
  <2>1. \A k \in Requests : Live(k)' <=> (active' = k)
    BY <1>1, <1>2 DEF SlotAgrees, Live, SlotFrame
  <2>2. inFlight' => (active' # 0 /\ call'[active'].owner = "compact-tool")
    <3>1. active \in Requests \/ active = 0
      BY <1>1, Bounds DEF SlotTypes, Requests
    <3> QED BY <1>1, <1>2, <3>1 DEF SlotAgrees
  <2>3. handoffInFlight' => \E k \in Requests : call'[k].owner = "model-handoff"
                                               /\ call'[k].at \in {"running", "committed"}
    BY <1>1, <1>2 DEF SlotAgrees
  <2> QED BY <2>1, <2>2, <2>3 DEF SlotAgrees
<1>6. OneResume'
  BY <1>1, <1>2 DEF OneResume, SlotFrame
<1> QED BY <1>3, <1>4, <1>5, <1>6 DEF SlotInv

(* A call that has finished asks to go on, and is over.                     *)
LEMMA SlotResume ==
  ASSUME SlotInv, NEW n \in Requests, Resume(n) PROVE SlotInv'
<1>1. SlotTypes /\ CallsAgree /\ SlotAgrees /\ OneResume
  BY DEF SlotInv
<1>2. /\ call' \in [Requests -> GrantedCalls] /\ call'[n].at = "closed"
      /\ call'[n].owner = call[n].owner /\ call'[n].session = call[n].session
      /\ \A k \in Requests \ {n} : call'[k] = call[k]
  BY <1>1, BecomeCall DEF Ats, Resume
<1>3. /\ call[n].at = "resuming" /\ UNCHANGED <<session, sessionId, active, request, inFlight, handoffInFlight>>
      /\ offers' = IF Named(n) = Unknown THEN offers
                   ELSE [offers EXCEPT ![n] = [times |-> @.times + 1, session |-> Named(n)]]
  BY DEF Resume, pi, truth, handoff
<1>4. offers[n].times = 0 /\ Named(n) \in Nat \cup {Unknown}
      /\ (call[n].owner = "compact-tool" => Named(n) = call[n].session)
  BY <1>1, <1>3 DEF CallsAgree, Named, SlotTypes, GrantedCalls
<1> HIDE DEF Named
<1>5. /\ offers' \in [Requests -> [times : Nat, session : Nat \cup {Unknown}]]
      /\ offers'[n].times \in {0, 1} /\ \A k \in Requests \ {n} : offers'[k] = offers[k]
      /\ offers'[n].times = 1 => offers'[n].session = Named(n)
  <2>1. CASE Named(n) = Unknown
    BY <1>1, <1>3, <1>4, <2>1 DEF SlotTypes
  <2>2. CASE Named(n) # Unknown
    <3>1. offers' = [offers EXCEPT ![n] = [times |-> 1, session |-> Named(n)]]
      BY <1>1, <1>3, <1>4, <2>2 DEF SlotTypes
    <3> QED BY <1>1, <1>4, <3>1 DEF SlotTypes
  <2> QED BY <2>1, <2>2
<1>6. SlotTypes'
  BY <1>1, <1>2, <1>3, <1>5 DEF SlotTypes
<1>7. CallsAgree'
  BY <1>1, <1>2, <1>3, <1>5 DEF CallsAgree
<1>8. SlotAgrees'
  <2>1. \A k \in Requests : Live(k)' <=> (active' = k)
    BY <1>1, <1>2, <1>3 DEF SlotAgrees, Live
  <2>2. inFlight' => (active' # 0 /\ call'[active'].owner = "compact-tool")
    <3>1. active \in Requests \/ active = 0
      BY <1>1, Bounds DEF SlotTypes, Requests
    <3> QED BY <1>1, <1>2, <1>3, <3>1 DEF SlotAgrees
  <2>3. handoffInFlight' => \E k \in Requests : call'[k].owner = "model-handoff"
                                               /\ call'[k].at \in {"running", "committed"}
    BY <1>1, <1>2, <1>3 DEF SlotAgrees
  <2> QED BY <2>1, <2>2, <2>3 DEF SlotAgrees
<1>9. OneResume'
  BY <1>1, <1>2, <1>4, <1>5 DEF OneResume
<1> QED BY <1>6, <1>7, <1>8, <1>9 DEF SlotInv

\* A new session: no call is of it, and the latches are open.
LEMMA SlotNewSession ==
  ASSUME SlotInv, session' = session + 1, active' = 0, inFlight' = FALSE,
         UNCHANGED <<request, call, offers, sessionId, handoffInFlight>>
  PROVE  SlotInv'
<1>1. SlotTypes /\ CallsAgree /\ SlotAgrees /\ OneResume
  BY DEF SlotInv
<1>2. SlotTypes'
  <2>1. 0 \in 0..MaxRequests /\ session' \in Nat
    BY <1>1, Bounds DEF SlotTypes
  <2> QED BY <1>1, <2>1 DEF SlotTypes
<1>3. CallsAgree'
  BY <1>1 DEF CallsAgree, SlotTypes, GrantedCalls
<1>4. SlotAgrees'
  <2>1. \A k \in Requests : Live(k)' <=> (active' = k)
    BY <1>1 DEF CallsAgree, SlotTypes, GrantedCalls, Live, Requests
  <2>2. handoffInFlight' => \E k \in Requests : call'[k].owner = "model-handoff"
                                               /\ call'[k].at \in {"running", "committed"}
    BY <1>1 DEF SlotAgrees
  <2> QED BY <2>1, <2>2 DEF SlotAgrees
<1>5. OneResume'
  BY <1>1 DEF OneResume
<1> QED BY <1>2, <1>3, <1>4, <1>5 DEF SlotInv

-----------------------------------------------------------------------------
(* The ledger of reservations.                                              *)

\* A reservation takes as many places as it has tokens.
LEMMA PlacesOfOne ==
  ASSUME NEW id, NEW tokens \in Nat
  PROVE  IsFiniteSet({id} \X (1..tokens)) /\ Cardinality({id} \X (1..tokens)) = tokens
<1>1. IsFiniteSet({id}) /\ Cardinality({id}) = 1
  BY FS_Singleton
<1>2. IsFiniteSet(1..tokens) /\ Cardinality(1..tokens) = tokens
  BY FS_Interval
<1> DEFINE P == {id} \X (1..tokens)
<1>3. IsFiniteSet(P) /\ Cardinality(P) = Cardinality({id}) * Cardinality(1..tokens)
  BY <1>1, <1>2, FS_Product
<1> QED BY <1>1, <1>2, <1>3

LEMMA PlacesFinite ==
  ASSUME NEW R \in SUBSET Reservations, IsFiniteSet(R)
  PROVE  IsFiniteSet(Places(R))
<1> DEFINE T == {{r.id} \X (1..r.tokens) : r \in R}
           f == [r \in R |-> {r.id} \X (1..r.tokens)]
<1>1. f \in Surjection(R, T)
  BY DEF Surjection
<1>2. IsFiniteSet(T)
  BY <1>1, FS_Surjection
<1>3. ASSUME NEW t \in T PROVE IsFiniteSet(t)
  <2>1. PICK r \in R : t = {r.id} \X (1..r.tokens)
    OBVIOUS
  <2>2. r.tokens \in Nat
    BY DEF Reservations
  <2> QED BY <2>1, <2>2, PlacesOfOne
<1> HIDE DEF T
<1>4. IsFiniteSet(UNION T)
  BY <1>2, <1>3, FS_UNION
<1> QED BY <1>4 DEF T, Places

LEMMA HeldIsNat ==
  ASSUME NEW R \in SUBSET Reservations, IsFiniteSet(R), NEW e
  PROVE  Held(R, e) \in Nat
<1>1. Of(R, e) \in SUBSET Reservations /\ IsFiniteSet(Of(R, e))
  BY FS_Subset DEF Of
<1> QED BY <1>1, PlacesFinite, FS_CardinalityType DEF Held

\* A reservation under a new id adds its tokens to what is held.
LEMMA HeldAdds ==
  ASSUME NEW R \in SUBSET Reservations, IsFiniteSet(R), NEW r \in Reservations, \A q \in R : q.id # r.id
  PROVE  Held(R \cup {r}, r.epoch) = Held(R, r.epoch) + r.tokens
<1> DEFINE A == Of(R, r.epoch)
           P == {r.id} \X (1..r.tokens)
<1>1. A \in SUBSET Reservations /\ IsFiniteSet(A) /\ A \subseteq R
  BY FS_Subset DEF Of
<1>2. IsFiniteSet(Places(A)) /\ Cardinality(Places(A)) \in Nat
  BY <1>1, PlacesFinite, FS_CardinalityType
<1>3. IsFiniteSet(P) /\ Cardinality(P) = r.tokens /\ r.tokens \in Nat
  BY PlacesOfOne DEF Reservations
<1>4. Of(R \cup {r}, r.epoch) = A \cup {r}
  BY DEF Of
<1>5. Places(A \cup {r}) = Places(A) \cup P
  BY DEF Places
<1>6. Places(A) \cap P = {}
  <2> SUFFICES ASSUME NEW x \in Places(A), x \in P PROVE FALSE
    OBVIOUS
  <2>1. PICK q \in A : x \in {q.id} \X (1..q.tokens)
    BY DEF Places
  <2>2. x[1] = q.id /\ x[1] = r.id
    BY <2>1
  <2> QED BY <1>1, <2>2
<1> HIDE DEF A, P
<1>7. Cardinality(Places(A) \cup P) = Cardinality(Places(A)) + Cardinality(P) - Cardinality({})
  BY <1>2, <1>3, <1>6, FS_Union
<1>8. Cardinality(Places(A) \cup P) = Cardinality(Places(A)) + r.tokens
  BY <1>2, <1>3, <1>7, FS_EmptySet
<1> QED BY <1>4, <1>5, <1>8 DEF Held, A

-----------------------------------------------------------------------------
(* The budget.                                                              *)

LEMMA UnknownIsUnlike ==
  /\ \A o \in Observations : o # Unknown
  /\ \A m \in Measurements : m # Unknown
  /\ \A s \in Readings : s # Unknown
  /\ Unknown \notin Nat
  BY Budgets, UnknownIsNoHistory

LEMMA UnknownIsNoProfile == \A p \in Profiles : p # Unknown
  BY UnknownIsNoHistory DEF Profiles

LEMMA ObservedType ==
  ASSUME profile \in Profiles \cup {Unknown}, NEW m \in Models
  PROVE  LET p == Observed(m) IN
         /\ p \in Profiles /\ p.model = m /\ EpochKey(p) \in Epochs
         /\ EpochKey(p)[2] = p.window /\ p.window \in Windows
<1> DEFINE p == Observed(m)
<1>1. p \in Profiles /\ p.model = m
  <2>1. CASE profile # Unknown /\ profile.model = m
    BY <2>1 DEF Observed
  <2>2. CASE ~(profile # Unknown /\ profile.model = m)
    <3> DEFINE e == IF profile = Unknown THEN 0 ELSE profile.epoch + 1
    <3>1. e \in Nat /\ Declared[m] \in Windows
      BY Budgets DEF Profiles
    <3>2. p = [epoch |-> e, model |-> m, window |-> Declared[m]]
      BY <2>2 DEF Observed
    <3> HIDE DEF e, p
    <3> QED BY <3>1, <3>2 DEF Profiles
  <2> QED BY <2>1, <2>2
<1> HIDE DEF p
<1>2. p.window \in Windows /\ p.model \in Models
  BY <1>1 DEF Profiles
<1> QED BY <1>1, <1>2 DEF p, EpochKey, Epochs

(* A step of the agent that measures nothing: the allowance stays with what *)
(* it was computed from, or is dropped.                                      *)
LEMMA BudgetKeeps ==
  ASSUME BudgetInv, UNCHANGED <<up, session, model, current, overflow, seen, measured>>,
         usage' \in Nat \cup {Unknown}, profile' \in Profiles \cup {Unknown}, generation' \in Nat,
         (allowance' = allowance /\ generation' = generation) \/ allowance' = Unknown,
         reserved' \subseteq Reservations, IsFiniteSet(reserved'),
         \/ at' = at /\ profile' = profile
         \/ at' \notin {"requested", "answered"}
         \/ at = "requested" /\ at' = "answered" /\ profile' = profile,
         up # "up" => at' = "idle"
  PROVE  BudgetInv'
<1>1. BudgetTypes'
  BY DEF BudgetInv, BudgetTypes
<1>2. Whereabouts'
  BY DEF BudgetInv, Whereabouts
<1>3. Certified'
  BY DEF BudgetInv, Certified
<1>4. Remembered' /\ OverflowRemembered'
  BY DEF BudgetInv, Remembered, WasOver, OverflowRemembered
<1> QED BY <1>1, <1>2, <1>3, <1>4 DEF BudgetInv

LEMMA SyncBudget ==
  ASSUME BudgetInv, up = "up", NEW e \in Epochs, Sync(e),
         UNCHANGED <<session, up, at, usage, generation, measured>>,
         model' \in Models, profile' \in Profiles
  PROVE  BudgetInv'
<1>1. CASE e = current
  <2>1. UNCHANGED <<current, allowance, overflow, reserved, seen>>
    BY <1>1 DEF Sync
  <2>2. BudgetTypes'
    BY <2>1 DEF BudgetInv, BudgetTypes
  <2>3. profile' # Unknown
    BY UnknownIsNoProfile
  <2>4. Whereabouts' /\ Certified' /\ Remembered' /\ OverflowRemembered'
    BY <2>1, <2>3 DEF BudgetInv, Whereabouts, Certified, Remembered, WasOver, OverflowRemembered
  <2> QED BY <2>2, <2>4 DEF BudgetInv
<1>2. CASE e # current
  <2>1. current' = e /\ allowance' = Unknown /\ overflow' = Unknown /\ reserved' = Of(reserved, e)
        /\ seen' = Unknown
    BY <1>2 DEF Sync
  <2>2. reserved' \subseteq Reservations /\ IsFiniteSet(reserved')
    BY <2>1, FS_Subset DEF Of, BudgetInv, BudgetTypes
  <2>3. BudgetTypes'
    BY <2>1, <2>2 DEF BudgetInv, BudgetTypes
  <2>4. profile' # Unknown
    BY UnknownIsNoProfile
  <2>5. Whereabouts' /\ Certified' /\ Remembered' /\ OverflowRemembered'
    BY <2>1, <2>4 DEF BudgetInv, Whereabouts, Certified, Remembered, WasOver, OverflowRemembered
  <2> QED BY <2>3, <2>5 DEF BudgetInv
<1> QED BY <1>1, <1>2

(* A request is let through exactly when it fits together with the           *)
(* uncertainty of its count and with everything held for the outputs of its  *)
(* tools, both as it was counted here and as the server last reported it,    *)
(* and that report is of this epoch, generation and window                   *)
(* (buildContextAccounting).                                                 *)
THEOREM VerdictFits ==
  ASSUME NEW e \in Epochs, NEW g \in Nat, NEW payload \in Nat, NEW margin \in Nat,
         NEW o \in Observations \cup {Unknown}, NEW held \in Nat
  PROVE  Verdict(e, g, payload, margin, o, held) = "within_budget" <=>
           /\ payload + margin + held <= Safe[e[2]]
           /\ o # Unknown => ~Stale(o, e, g) /\ o.tokens + margin + held <= Safe[e[2]]
<1> DEFINE room == Room(e[2], payload, margin, o)
<1>1. Safe[e[2]] \in Nat /\ room = Safe[e[2]] - Larger(payload, Counted(o)) - margin
  BY Budgets DEF Epochs, Room
<1> HIDE DEF room
<1>2. CASE o = Unknown
  <2>1. Larger(payload, Counted(o)) = payload
    BY <1>2 DEF Counted, Larger
  <2>2. Verdict(e, g, payload, margin, o, held) =
          IF room < held THEN "aggregate_budget_exceeded" ELSE "within_budget"
    BY <1>2 DEF Verdict, room
  <2>3. room < held <=> ~ (payload + margin + held <= Safe[e[2]])
    BY <1>1, <2>1
  <2> QED BY <1>2, <2>2, <2>3
<1>3. CASE o # Unknown /\ Stale(o, e, g)
  BY <1>3 DEF Verdict
<1>4. CASE o # Unknown /\ ~Stale(o, e, g)
  <2>1. o.tokens \in Nat /\ Counted(o) = o.tokens
    BY <1>4 DEF Observations, Counted
  <2>2. Verdict(e, g, payload, margin, o, held) =
          IF o.tokens > Safe[e[2]] /\ payload + margin + held <= Safe[e[2]]
          THEN "observed_budget_exceeded"
          ELSE IF room < held THEN "aggregate_budget_exceeded" ELSE "within_budget"
    BY <1>4 DEF Verdict, Over, room
  <2>3. Larger(payload, o.tokens) = IF payload > o.tokens THEN payload ELSE o.tokens
    BY DEF Larger
  <2>4. room < held <=> \/ ~ (payload + margin + held <= Safe[e[2]])
                        \/ ~ (o.tokens + margin + held <= Safe[e[2]])
    BY <1>1, <2>1, <2>3
  <2>5. o.tokens > Safe[e[2]] => ~ (o.tokens + margin + held <= Safe[e[2]])
    BY <1>1, <2>1
  <2> QED BY <1>4, <2>2, <2>4, <2>5
<1> QED BY <1>2, <1>3, <1>4

\* A request that is let through has room for what was measured of it.
LEMMA WithinBudget ==
  ASSUME NEW e \in Epochs, NEW g \in Nat, NEW payload \in Nat, NEW margin \in Nat,
         NEW o \in Observations \cup {Unknown}, NEW held \in Nat,
         Verdict(e, g, payload, margin, o, held) = "within_budget", o # Unknown
  PROVE  ~Stale(o, e, g) /\ o.tokens <= Safe[e[2]]
<1>1. ~Stale(o, e, g) /\ o.tokens + margin + held <= Safe[e[2]]
  BY VerdictFits
<1>2. o.tokens \in Nat /\ Safe[e[2]] \in Nat
  BY Budgets DEF Observations, Epochs
<1> QED BY <1>1, <1>2

LEMMA AdmitBudget ==
  ASSUME BudgetInv, up = "up", NEW e \in Epochs, NEW payload \in Payloads, Admit(e, payload),
         UNCHANGED <<session, up, model, usage, generation>>, profile' \in Profiles
  PROVE  BudgetInv'
<1> DEFINE o     == Observation(e)
           held  == IF e = current THEN Held(reserved, e) ELSE 0
           v     == Verdict(e, generation, payload, Margin[payload], o, held)
           fresh == usage # Unknown /\ ~ Stale(o, e, generation)
           room  == IF v = "within_budget" THEN Room(e[2], payload, Margin[payload], o)
                    ELSE 0
<1>m. payload \in Nat /\ Margin[payload] \in Nat
  BY Bounds
<1>1. /\ session \in Nat /\ model \in Models /\ usage \in Nat \cup {Unknown} /\ generation \in Nat
      /\ overflow \in Observations \cup {Unknown} /\ seen \in Readings \cup {Unknown}
      /\ reserved \in SUBSET Reservations /\ IsFiniteSet(reserved)
      /\ Declared[model] \in Windows /\ Safe[e[2]] \in Nat /\ e[2] \in Windows
  BY Budgets DEF BudgetInv, BudgetTypes, Epochs
<1>2. o \in Observations \cup {Unknown}
      /\ (usage # Unknown => /\ o # Unknown /\ o.tokens = usage /\ o.epoch = e
                             /\ o.generation = generation /\ o.window = Declared[model])
  <2>1. CASE usage # Unknown
    <3> DEFINE r == [tokens |-> usage, epoch |-> e, generation |-> generation, window |-> Declared[model]]
    <3>1. r \in Observations /\ o = r
      BY <1>1, <2>1 DEF Observations, Observation
    <3>2. o # Unknown
      BY <3>1, UnknownIsUnlike
    <3> QED BY <3>1, <3>2
  <2>2. CASE usage = Unknown
    BY <1>1, <2>2 DEF Observation
  <2> QED BY <2>1, <2>2
<1>3. held \in Nat
  BY <1>1, HeldIsNat
<1>4. usage = Unknown => o = IF e = current THEN overflow ELSE Unknown
  BY DEF Observation
<1>5. /\ current' = e
      /\ reserved' = IF e = current THEN reserved ELSE Of(reserved, e)
      /\ overflow' = IF fresh THEN (IF Over(o, e[2]) THEN o ELSE Unknown)
                     ELSE IF e = current THEN overflow ELSE Unknown
      /\ allowance' = room
      /\ at' \in {"requested", "aborted"} /\ (at' = "requested" => v = "within_budget")
      /\ measured' = IF v # "within_budget" THEN Unknown
                     ELSE [session |-> session, epoch |-> e, generation |-> generation, room |-> room]
      /\ seen' = IF usage # Unknown /\ e[2] = Declared[model]
                 THEN [session |-> session, epoch |-> e, over |-> usage > Safe[e[2]]]
                 ELSE IF e = current THEN seen ELSE Unknown
  BY DEF Admit
<1>6. Room(e[2], payload, Margin[payload], o) \in Int
  <2>1. Counted(o) \in Nat
    BY <1>2 DEF Counted, Observations
  <2> QED BY <1>1, <1>m, <2>1 DEF Room, Larger
<1> HIDE DEF o, held
<1>7. v = "within_budget" /\ o # Unknown => ~Stale(o, e, generation) /\ o.tokens <= Safe[e[2]]
  BY <1>m, <1>1, <1>2, <1>3, WithinBudget
<1> HIDE DEF v
<1>8. room \in Int
  BY <1>6
<1> HIDE DEF room
<1>9. reserved' \subseteq Reservations /\ IsFiniteSet(reserved')
  BY <1>1, <1>5, FS_Subset DEF Of
<1>10. v = "within_budget" => measured' \in Measurements /\ measured' # Unknown
  BY <1>1, <1>5, <1>8, UnknownIsUnlike DEF Measurements
<1>11. usage # Unknown /\ e[2] = Declared[model] =>
         seen' \in Readings /\ seen'.session = session /\ seen'.epoch = e /\ (seen'.over <=> usage > Safe[e[2]])
  <2> SUFFICES ASSUME usage # Unknown, e[2] = Declared[model]
               PROVE  seen' \in Readings /\ seen'.session = session /\ seen'.epoch = e
                      /\ (seen'.over <=> usage > Safe[e[2]])
    OBVIOUS
  <2> DEFINE over == usage > Safe[e[2]]
  <2>1. over \in BOOLEAN
    BY <1>1
  <2>2. seen' = [session |-> session, epoch |-> e, over |-> over]
    BY <1>5
  <2> HIDE DEF over
  <2>3. seen' \in Readings /\ seen'.session = session /\ seen'.epoch = e /\ (seen'.over <=> over)
    BY <1>1, <2>1, <2>2 DEF Readings
  <2> QED BY <2>3 DEF over
<1>12. ~(usage # Unknown /\ e[2] = Declared[model]) => seen' = IF e = current THEN seen ELSE Unknown
  BY <1>5
<1>13. overflow' \in Observations \cup {Unknown}
  BY <1>1, <1>2, <1>5
<1>14. BudgetTypes'
  <2>1. seen' \in Readings \cup {Unknown}
    BY <1>1, <1>11, <1>12
  <2>2. measured' \in Measurements \cup {Unknown}
    BY <1>5, <1>10
  <2> QED BY <1>1, <1>5, <1>8, <1>9, <1>13, <2>1, <2>2 DEF BudgetTypes
<1>15. Whereabouts'
  <2>1. seen' # Unknown => seen'.session <= session
    BY <1>1, <1>11, <1>12 DEF BudgetInv, Whereabouts
  <2> QED BY <2>1, UnknownIsNoProfile DEF Whereabouts
<1>16. Certified'
  BY <1>1, <1>5, <1>10 DEF Certified
<1>17. WasOver' => overflow' # Unknown /\ overflow'.tokens > Safe[e[2]] /\ v # "within_budget"
  <2> SUFFICES ASSUME WasOver' PROVE overflow' # Unknown /\ overflow'.tokens > Safe[e[2]]
                                     /\ v # "within_budget"
    OBVIOUS
  <2>1. CASE usage # Unknown /\ e[2] = Declared[model]
    <3>1. usage > Safe[e[2]]
      BY <1>11, <2>1 DEF WasOver
    <3>2. Over(o, e[2]) /\ fresh
      BY <1>1, <1>2, <2>1, <3>1 DEF Over, Stale
    <3>3. overflow' = o
      BY <1>5, <3>2
    <3> QED BY <1>1, <1>2, <1>7, <2>1, <3>1, <3>3
  <2>2. CASE ~(usage # Unknown /\ e[2] = Declared[model])
    <3>1. e = current /\ seen' = seen
      BY <1>12, <2>2 DEF WasOver
    <3>2. seen.epoch = e /\ WasOver
      BY <1>5, <3>1 DEF WasOver
    <3>3. overflow # Unknown /\ overflow.tokens > Safe[e[2]] /\ overflow.tokens \in Nat
      BY <1>1, <3>2 DEF BudgetInv, Remembered, Observations
    <3>4. ~fresh
      BY <1>2, <2>2 DEF Stale
    <3>5. overflow' = overflow
      BY <1>5, <3>1, <3>4
    <3>6. CASE usage = Unknown
      BY <1>1, <1>4, <1>7, <3>1, <3>3, <3>5, <3>6
    <3>7. CASE usage # Unknown
      BY <1>2, <1>7, <2>2, <3>3, <3>5, <3>7 DEF Stale
    <3> QED BY <3>6, <3>7
  <2> QED BY <2>1, <2>2
<1>18. Remembered'
  BY <1>5, <1>17 DEF Remembered, WasOver
<1>19. OverflowRemembered'
  BY <1>5, <1>17 DEF OverflowRemembered, WasOver
<1> QED BY <1>14, <1>15, <1>16, <1>18, <1>19 DEF BudgetInv

-----------------------------------------------------------------------------
(* The handoff, and the actions one by one.                                 *)

\* What a step of the agent leaves of the budget when only the slot moves.
BudgetFrame ==
  UNCHANGED <<up, session, model, usage, profile, current, overflow, generation, seen, measured,
              allowance, reserved>>

LEMMA BudgetStays ==
  ASSUME BudgetInv, BudgetFrame,
         \/ at' = at
         \/ at' \notin {"requested", "answered"},
         up # "up" => at' = "idle"
  PROVE  BudgetInv'
<1>1. /\ usage \in Nat \cup {Unknown} /\ profile \in Profiles \cup {Unknown} /\ generation \in Nat
      /\ reserved \subseteq Reservations /\ IsFiniteSet(reserved)
  BY DEF BudgetInv, BudgetTypes
<1> QED BY <1>1, BudgetKeeps DEF BudgetFrame

LEMMA HandoffSlot ==
  ASSUME SlotInv, NEW p \in Profiles, NEW d, NEW c, RequestHandoff(p, d, c), SlotFrame, inFlight' = inFlight
  PROVE  SlotInv'
<1>1. Key(p) \in Marks
  BY DEF Key, Marks, Profiles
<1>2. CASE Begin("model-handoff", "running", Key(p)) /\ handoffInFlight' = TRUE
  BY <1>1, <1>2, SlotBegin DEF Owners
<1>3. CASE BeginAndFail("model-handoff", Key(p)) /\ handoffInFlight' = FALSE
  BY <1>1, <1>3, SlotBeginAndFail DEF Owners
<1>4. CASE UNCHANGED <<coordinator, handoffInFlight>>
  BY <1>4, SlotSame
<1> QED BY <1>2, <1>3, <1>4 DEF RequestHandoff

LEMMA NoHandoffSlot ==
  ASSUME SlotInv, NEW d, NEW c, NoHandoff(d, c), SlotFrame, inFlight' = inFlight
  PROVE  SlotInv'
  BY SlotSame DEF NoHandoff

LEMMA SessionIdType == ASSUME SlotInv PROVE session \in Nat /\ sessionId \in Nat \cup {Unknown}
  BY DEF SlotInv, SlotTypes

LEMMA InitHolds == ASSUME Init PROVE IInv
<1>1. SlotTypes
  <2>1. NoCall \in GrantedCalls
    BY DEF NoCall, GrantedCalls, Ats, Marks
  <2>2. [times |-> 0, session |-> Unknown] \in [times : Nat, session : Nat \cup {Unknown}]
    OBVIOUS
  <2>3. 0 \in 0..MaxRequests
    BY Bounds
  <2> QED BY <2>1, <2>2, <2>3 DEF Init, SlotTypes
<1>2. \A n \in Requests : n # 0 /\ n > 0
  BY DEF Requests
<1>3. CallsAgree /\ SlotAgrees /\ OneResume
  BY <1>2 DEF Init, NoCall, CallsAgree, SlotAgrees, OneResume, Live
<1>4. BudgetTypes
  BY Bounds, FS_EmptySet DEF Init, BudgetTypes
<1>5. Whereabouts /\ Certified /\ Remembered /\ OverflowRemembered
  BY DEF Init, Whereabouts, Certified, Remembered, WasOver, OverflowRemembered
<1> QED BY <1>1, <1>3, <1>4, <1>5 DEF IInv, SlotInv, BudgetInv

LEMMA SessionShutdownKeeps == ASSUME IInv, SessionShutdown PROVE IInv'
<1>1. SlotInv /\ BudgetInv
  BY DEF IInv
<1>2. SlotInv'
  <2>1. SlotFrame
    BY SessionIdType, <1>1 DEF SessionShutdown, SlotFrame
  <2> QED BY <1>1, <2>1, SlotSame DEF SessionShutdown, ResetTruth
<1>3. UNCHANGED <<session, model, usage, allowance, overflow, generation, seen, measured>>
      /\ up' = "down" /\ at' = "idle" /\ profile' = Unknown /\ current' = Unknown /\ reserved' = {}
  BY DEF SessionShutdown, ResetTruth, history
<1>4. BudgetTypes'
  BY <1>1, <1>3, FS_EmptySet DEF BudgetInv, BudgetTypes
<1>5. Whereabouts' /\ Certified' /\ Remembered' /\ OverflowRemembered'
  BY <1>1, <1>3 DEF BudgetInv, Whereabouts, Certified, Remembered, WasOver, OverflowRemembered
<1> QED BY <1>2, <1>4, <1>5 DEF IInv, BudgetInv

LEMMA ToolStartKeeps == ASSUME IInv, ToolStart PROVE IInv'
<1>1. SlotInv /\ BudgetInv
  BY DEF IInv
<1>2. SlotInv'
  BY <1>1, SlotNewSession DEF ToolStart, truth, handoff
<1>3. UNCHANGED <<at, model, profile, current, allowance, overflow, generation, reserved, seen, measured>>
      /\ up = "down" /\ up' = "tool" /\ session' = session + 1 /\ usage' = Unknown
  BY DEF ToolStart, truth, budget, history
<1>4. BudgetTypes'
  BY <1>1, <1>3 DEF BudgetInv, BudgetTypes
<1>5. Whereabouts'
  <2>1. seen # Unknown => seen.session \in Nat /\ seen.session <= session /\ session \in Nat
    BY <1>1 DEF BudgetInv, BudgetTypes, Whereabouts, Readings
  <2> QED BY <1>1, <1>3, <2>1 DEF BudgetInv, Whereabouts
<1>6. Certified' /\ Remembered' /\ OverflowRemembered'
  BY <1>1, <1>3 DEF BudgetInv, Whereabouts, Certified, Remembered, OverflowRemembered
<1> QED BY <1>2, <1>4, <1>5, <1>6 DEF IInv, BudgetInv

LEMMA TruthStartKeeps == ASSUME IInv, TruthStart PROVE IInv'
<1>1. SlotInv /\ BudgetInv
  BY DEF IInv
<1>2. SlotInv'
  <2>1. SlotFrame
    BY SessionIdType, <1>1 DEF TruthStart, SlotFrame
  <2> QED BY <1>1, <2>1, SlotSame DEF TruthStart, ResetTruth
<1>3. UNCHANGED <<session, at, model, usage, current, allowance, overflow, generation, reserved, seen, measured>>
      /\ up = "tool" /\ up' = "truth" /\ profile' = Unknown
  BY DEF TruthStart, ResetTruth, budget, history
<1>4. BudgetTypes'
  BY <1>1, <1>3 DEF BudgetInv, BudgetTypes
<1>5. Whereabouts' /\ Certified' /\ Remembered' /\ OverflowRemembered'
  BY <1>1, <1>3 DEF BudgetInv, Whereabouts, Certified, Remembered, OverflowRemembered
<1> QED BY <1>2, <1>4, <1>5 DEF IInv, BudgetInv

\* A measurement of an earlier session says nothing of this one.
LEMMA AdmissionStartKeeps == ASSUME IInv, AdmissionStart PROVE IInv'
<1>1. SlotInv /\ BudgetInv
  BY DEF IInv
<1>2. SlotInv'
  <2>1. SlotFrame
    BY SessionIdType, <1>1 DEF AdmissionStart, SlotFrame, truth
  <2> QED BY <1>1, <2>1, SlotSame DEF AdmissionStart, handoff
<1>3. UNCHANGED <<session, at, model, usage, profile, seen, measured>>
      /\ up = "truth" /\ up' = "up" /\ current' = <<model, Declared[model]>>
      /\ allowance' = Unknown /\ overflow' = Unknown /\ generation' = 0 /\ reserved' = {}
  BY DEF AdmissionStart, truth, history
<1>4. BudgetTypes'
  <2>1. current' \in Epochs
    BY <1>1, <1>3, Budgets DEF BudgetInv, BudgetTypes, Epochs
  <2> QED BY <1>1, <1>3, <2>1, FS_EmptySet DEF BudgetInv, BudgetTypes
<1>5. ~WasOver'
  BY <1>1, <1>3 DEF BudgetInv, BudgetTypes, Whereabouts, WasOver, Readings
<1>6. Whereabouts' /\ Certified' /\ Remembered' /\ OverflowRemembered'
  BY <1>1, <1>3, <1>5 DEF BudgetInv, Whereabouts, Certified, Remembered, WasOver, OverflowRemembered
<1> QED BY <1>2, <1>4, <1>6 DEF IInv, BudgetInv

LEMMA ModelSelectKeeps == ASSUME IInv, NEW m \in Models, ModelSelect(m) PROVE IInv'
<1> DEFINE p         == Observed(m)
           disarmed  == IF p = profile THEN handoffDisarmedKey ELSE Unknown
           compacted == IF p = profile THEN handoffCompactedEpoch ELSE Unknown
<1>1. SlotInv /\ BudgetInv
  BY DEF IInv
<1>2. p \in Profiles /\ EpochKey(p) \in Epochs
  BY <1>1, ObservedType DEF BudgetInv, BudgetTypes
<1>3. /\ up = "up" /\ model' = m /\ profile' = p /\ Sync(EpochKey(p))
      /\ RequestHandoff(p, disarmed, compacted) \/ NoHandoff(disarmed, compacted)
      /\ UNCHANGED <<session, up, at, usage, inFlight, sessionId, generation, offers, measured>>
  BY DEF ModelSelect
<1> HIDE DEF p, disarmed, compacted
<1>4. SlotInv'
  <2>1. SlotFrame
    BY <1>1, <1>3, SessionIdType DEF SlotFrame
  <2> QED BY <1>1, <1>2, <1>3, <2>1, HandoffSlot, NoHandoffSlot
<1>5. BudgetInv'
  BY <1>1, <1>2, <1>3, SyncBudget
<1> QED BY <1>4, <1>5 DEF IInv

LEMMA BeforeProviderRequestKeeps ==
  ASSUME IInv, NEW payload \in Payloads, BeforeProviderRequest(payload) PROVE IInv'
<1> DEFINE p         == Observed(model)
           disarmed  == IF p = profile THEN handoffDisarmedKey ELSE Unknown
           compacted == IF p = profile THEN handoffCompactedEpoch ELSE Unknown
<1>1. SlotInv /\ BudgetInv
  BY DEF IInv
<1>2. p \in Profiles /\ EpochKey(p) \in Epochs
  BY <1>1, ObservedType DEF BudgetInv, BudgetTypes
<1>3. /\ up = "up" /\ profile' = p /\ Admit(EpochKey(p), payload)
      /\ RequestHandoff(p, disarmed, compacted) \/ NoHandoff(disarmed, compacted)
      /\ UNCHANGED <<session, up, model, usage, inFlight, sessionId, generation, offers>>
  BY DEF BeforeProviderRequest
<1> HIDE DEF p, disarmed, compacted
<1>4. SlotInv'
  <2>1. SlotFrame
    BY <1>1, <1>3, SessionIdType DEF SlotFrame
  <2> QED BY <1>1, <1>2, <1>3, <2>1, HandoffSlot, NoHandoffSlot
<1>6. BudgetInv'
  BY <1>1, <1>2, <1>3, AdmitBudget
<1> QED BY <1>4, <1>6 DEF IInv

LEMMA AfterProviderResponseKeeps == ASSUME IInv, AfterProviderResponse PROVE IInv'
<1>1. SlotInv /\ BudgetInv
  BY DEF IInv
<1>2. SlotInv'
  <2>1. SlotFrame
    BY SessionIdType, <1>1 DEF AfterProviderResponse, SlotFrame
  <2> QED BY <1>1, <2>1, SlotSame DEF AfterProviderResponse, handoff
<1>3. usage' \in Nat \cup {Unknown}
  BY <1>1, Bounds DEF AfterProviderResponse, BudgetInv, BudgetTypes
<1>4. /\ UNCHANGED <<up, session, model, profile, generation, allowance, reserved, current, overflow, seen, measured>>
      /\ at = "requested" /\ at' = "answered" /\ up = "up"
  BY DEF AfterProviderResponse, budget, history
<1>5. profile \in Profiles \cup {Unknown} /\ generation \in Nat /\ reserved \subseteq Reservations
      /\ IsFiniteSet(reserved)
  BY <1>1 DEF BudgetInv, BudgetTypes
<1>6. BudgetInv'
  BY <1>1, <1>3, <1>4, <1>5, BudgetKeeps
<1> QED BY <1>2, <1>6 DEF IInv

LEMMA TurnEndKeeps == ASSUME IInv, TurnEnd PROVE IInv'
<1>1. SlotInv /\ BudgetInv
  BY DEF IInv
<1>2. profile \in Profiles
  BY <1>1 DEF BudgetInv, BudgetTypes, Whereabouts, TurnEnd
<1>3. SlotInv'
  <2>1. SlotFrame
    BY SessionIdType, <1>1 DEF TurnEnd, SlotFrame, truth
  <2> QED BY <1>1, <1>2, <2>1, HandoffSlot DEF TurnEnd
<1>4. BudgetFrame /\ at' = "ended" /\ up = "up"
  BY DEF TurnEnd, BudgetFrame, truth, budget, history
<1>5. BudgetInv'
  BY <1>1, <1>4, BudgetStays
<1> QED BY <1>3, <1>5 DEF IInv

LEMMA AbortKeeps == ASSUME IInv, Abort PROVE IInv'
<1>1. SlotInv /\ BudgetInv
  BY DEF IInv
<1>2. SlotInv'
  <2>1. SlotFrame
    BY SessionIdType, <1>1 DEF Abort, SlotFrame, truth
  <2> QED BY <1>1, <2>1, SlotSame DEF Abort, handoff
<1>3. BudgetFrame /\ at' = "aborted" /\ up = "up"
  BY DEF Abort, BudgetFrame, truth, budget, history
<1>4. BudgetInv'
  BY <1>1, <1>3, BudgetStays
<1> QED BY <1>2, <1>4 DEF IInv

LEMMA SettleKeeps == ASSUME IInv, Settle PROVE IInv'
<1>1. SlotInv /\ BudgetInv
  BY DEF IInv
<1>2. SlotFrame /\ inFlight' = inFlight
  BY SessionIdType, <1>1 DEF Settle, SlotFrame
<1>3. /\ up = "up" /\ at' = "settling"
      /\ UNCHANGED <<up, session, model, usage, current, allowance, overflow, generation, reserved, seen, measured>>
  BY DEF Settle, budget, history
<1>4. SlotInv' /\ profile' \in Profiles \cup {Unknown}
  <2>1. CASE profile # Unknown /\ profile' = [profile EXCEPT !.window = Served[profile.model]]
             /\ (RequestHandoff(profile', handoffDisarmedKey, handoffCompactedEpoch)
                 \/ UNCHANGED <<coordinator, handoff>>)
    <3>1. profile \in Profiles
      BY <1>1, <2>1 DEF BudgetInv, BudgetTypes
    <3>2. profile' \in Profiles
      BY <2>1, <3>1, Budgets DEF Profiles
    <3>3. CASE UNCHANGED <<coordinator, handoff>>
      BY <1>1, <1>2, <3>2, <3>3, SlotSame DEF handoff
    <3>4. CASE RequestHandoff(profile', handoffDisarmedKey, handoffCompactedEpoch)
      BY <1>1, <1>2, <3>2, <3>4, HandoffSlot
    <3> QED BY <2>1, <3>2, <3>3, <3>4
  <2>2. CASE UNCHANGED <<profile, coordinator, handoff>>
    BY <1>1, <1>2, <2>2, SlotSame DEF handoff, BudgetInv, BudgetTypes
  <2> QED BY <2>1, <2>2 DEF Settle
<1>5. generation \in Nat /\ usage \in Nat \cup {Unknown} /\ reserved \subseteq Reservations
      /\ IsFiniteSet(reserved)
  BY <1>1 DEF BudgetInv, BudgetTypes
<1>6. BudgetInv'
  BY <1>1, <1>3, <1>4, <1>5, BudgetKeeps
<1> QED BY <1>4, <1>6 DEF IInv

LEMMA SettledKeeps == ASSUME IInv, Settled PROVE IInv'
<1>1. SlotInv /\ BudgetInv
  BY DEF IInv
<1>2. SlotFrame /\ inFlight' = inFlight /\ handoffInFlight' = handoffInFlight
  BY SessionIdType, <1>1 DEF Settled, SlotFrame, truth, handoff
<1>3. /\ up = "up" /\ at' = "idle" /\ reserved' = {}
      /\ UNCHANGED <<up, session, model, usage, profile, current, overflow, generation, seen, measured>>
      /\ allowance' = allowance \/ allowance' = Unknown
  BY DEF Settled, truth, history
<1>4. current \in Marks
  BY <1>1 DEF BudgetInv, BudgetTypes, Marks
<1>5. SlotInv'
  <2>1. CASE Begin("context-admission", "running", current)
    BY <1>1, <1>2, <1>4, <2>1, SlotBegin DEF Owners
  <2>2. CASE BeginAndFail("context-admission", current)
    BY <1>1, <1>2, <1>4, <2>2, SlotBeginAndFail DEF Owners
  <2>3. CASE UNCHANGED coordinator
    BY <1>1, <1>2, <2>3, SlotSame
  <2> QED BY <2>1, <2>2, <2>3 DEF Settled
<1>6. generation \in Nat /\ usage \in Nat \cup {Unknown} /\ profile \in Profiles \cup {Unknown}
  BY <1>1 DEF BudgetInv, BudgetTypes
<1>7. reserved' \subseteq Reservations /\ IsFiniteSet(reserved')
  BY <1>3, FS_EmptySet
<1>8. BudgetInv'
  BY <1>1, <1>3, <1>6, <1>7, BudgetKeeps
<1> QED BY <1>5, <1>8 DEF IInv

LEMMA ReserveKeeps ==
  ASSUME IInv, NEW id \in Calls, NEW tokens \in Payloads, Reserve(id, tokens) PROVE IInv'
<1> DEFINE r == [id |-> id, epoch |-> current, tokens |-> tokens]
<1>1. SlotInv /\ BudgetInv
  BY DEF IInv
<1>2. SlotInv'
  <2>1. SlotFrame
    BY SessionIdType, <1>1 DEF Reserve, SlotFrame, truth, pi
  <2> QED BY <1>1, <2>1, SlotSame DEF Reserve, handoff
<1>3. /\ UNCHANGED <<up, session, model, usage, profile, at, current, allowance, overflow, generation, seen, measured>>
      /\ current # Unknown /\ reserved' = reserved \cup {r} /\ up = "up"
  BY DEF Reserve, pi, truth, budget, history
<1>4. /\ usage \in Nat \cup {Unknown} /\ profile \in Profiles \cup {Unknown} /\ generation \in Nat
      /\ reserved \subseteq Reservations /\ IsFiniteSet(reserved) /\ current \in Epochs \cup {Unknown}
  BY <1>1 DEF BudgetInv, BudgetTypes
<1>5. r \in Reservations
  BY <1>3, <1>4, Bounds DEF Reservations
<1> HIDE DEF r
<1>6. reserved' \subseteq Reservations /\ IsFiniteSet(reserved')
  BY <1>3, <1>4, <1>5, FS_AddElement
<1>7. BudgetInv'
  BY <1>1, <1>3, <1>4, <1>6, BudgetKeeps
<1> QED BY <1>2, <1>7 DEF IInv

LEMMA ReleaseKeeps == ASSUME IInv, NEW id \in Calls, Release(id) PROVE IInv'
<1>1. SlotInv /\ BudgetInv
  BY DEF IInv
<1>2. SlotInv'
  <2>1. SlotFrame
    BY SessionIdType, <1>1 DEF Release, SlotFrame, truth, pi
  <2> QED BY <1>1, <2>1, SlotSame DEF Release, handoff
<1>3. /\ UNCHANGED <<up, session, model, usage, profile, at, current, allowance, overflow, generation, seen, measured>>
      /\ reserved' \subseteq reserved /\ up = "up"
  BY DEF Release, pi, truth, budget, history
<1>4. /\ usage \in Nat \cup {Unknown} /\ profile \in Profiles \cup {Unknown} /\ generation \in Nat
      /\ reserved \subseteq Reservations /\ IsFiniteSet(reserved)
  BY <1>1 DEF BudgetInv, BudgetTypes
<1>5. reserved' \subseteq Reservations /\ IsFiniteSet(reserved')
  BY <1>3, <1>4, FS_Subset
<1>6. BudgetInv'
  BY <1>1, <1>3, <1>4, <1>5, BudgetKeeps
<1> QED BY <1>2, <1>6 DEF IInv

LEMMA CompactContextKeeps == ASSUME IInv, CompactContext PROVE IInv'
<1>1. SlotInv /\ BudgetInv
  BY DEF IInv
<1>2. SlotFrame /\ handoffInFlight' = handoffInFlight /\ inFlight' = TRUE
  BY SessionIdType, <1>1 DEF CompactContext, SlotFrame, pi, truth, handoff
<1>3. SlotInv'
  <2>1. Begin("compact-tool", "reading", Unknown)
    BY DEF CompactContext
  <2> QED BY <1>1, <1>2, <2>1, SlotBegin DEF Owners, Marks
<1>4. BudgetFrame /\ at' = at /\ up = "up"
  BY DEF CompactContext, BudgetFrame, pi, truth, budget, history
<1>5. BudgetInv'
  BY <1>1, <1>4, BudgetStays
<1> QED BY <1>3, <1>5 DEF IInv

\* What the steps of a callback leave of the budget.
LEMMA BudgetAside ==
  ASSUME BudgetInv, BudgetFrame, at' = at PROVE BudgetInv'
<1>1. up # "up" => at' = "idle"
  BY DEF BudgetInv, Whereabouts
<1> QED BY <1>1, BudgetStays

LEMMA ToolCompactsKeeps == ASSUME IInv, NEW n \in Requests, ToolCompacts(n) PROVE IInv'
<1>1. SlotInv /\ BudgetInv
  BY DEF IInv
<1>2. SlotFrame /\ handoffInFlight' = handoffInFlight /\ request' = request /\ call[n].at = "reading"
  BY SessionIdType, <1>1 DEF ToolCompacts, SlotFrame, pi, truth, handoff
<1>3. SlotInv'
  <2>1. CASE Become(n, "running") /\ UNCHANGED <<active, inFlight>>
    BY <1>1, <1>2, <2>1, SlotAdvance
  <2>2. CASE Become(n, "closed") /\ Finish(n) /\ inFlight' = FALSE
    BY <1>1, <1>2, <2>2, SlotFinish
  <2> QED BY <2>1, <2>2 DEF ToolCompacts
<1>4. BudgetFrame /\ at' = at
  BY DEF ToolCompacts, BudgetFrame, pi, truth, budget, history
<1> QED BY <1>1, <1>3, <1>4, BudgetAside DEF IInv

\* Pi has compacted: the allowance is dropped, and the overflow is kept.
LEMMA CompactedKeeps == ASSUME BudgetInv, Compacted PROVE BudgetInv'
<1>1. /\ UNCHANGED <<up, session, model, profile, at, current, overflow, seen, measured, reserved>>
      /\ allowance' = Unknown /\ generation' = generation + 1 /\ usage' = Unknown /\ up = "up"
  BY DEF Compacted, DropAllowance, truth, history
<1>2. /\ profile \in Profiles \cup {Unknown} /\ generation \in Nat
      /\ reserved \subseteq Reservations /\ IsFiniteSet(reserved)
  BY DEF BudgetInv, BudgetTypes
<1> QED BY <1>1, <1>2, BudgetKeeps

LEMMA CommitKeeps == ASSUME IInv, NEW n \in Requests, Commit(n) PROVE IInv'
<1>1. SlotInv /\ BudgetInv
  BY DEF IInv
<1>2. SlotFrame /\ UNCHANGED <<request, active, inFlight, handoffInFlight>>
  BY SessionIdType, <1>1 DEF Commit, Compacted, SlotFrame, truth
<1>3. SlotInv'
  BY <1>1, <1>2, SlotAdvance DEF Commit, Compacting
<1> QED BY <1>1, <1>3, CompactedKeeps DEF IInv, Commit

LEMMA PiCompactsKeeps == ASSUME IInv, PiCompacts PROVE IInv'
<1>1. SlotInv /\ BudgetInv
  BY DEF IInv
<1>2. SlotFrame /\ UNCHANGED <<request, active, call, inFlight, handoffInFlight>>
  BY SessionIdType, <1>1 DEF PiCompacts, Compacted, SlotFrame, truth
<1>3. SlotInv'
  BY <1>1, <1>2, SlotSame DEF coordinator
<1> QED BY <1>1, <1>3, CompactedKeeps DEF IInv, PiCompacts

LEMMA ToolBackKeeps ==
  ASSUME IInv, NEW n \in Requests, NEW ok \in BOOLEAN, ToolBack(n, ok) PROVE IInv'
<1>1. SlotInv /\ BudgetInv
  BY DEF IInv
<1>2. SlotFrame /\ handoffInFlight' = handoffInFlight /\ request' = request
  BY SessionIdType, <1>1 DEF ToolBack, SlotFrame, pi, truth, handoff
<1>3. call[n].owner = "compact-tool" /\ call[n].at \in {"running", "committed"} /\ Finish(n)
  BY DEF ToolBack, CallsBack, HasSettled
<1>4. (inFlight' = FALSE \/ inFlight' = inFlight) /\ (Holds(n) => inFlight' = FALSE)
  BY Zenon, <1>1 DEF ToolBack, SlotInv, SlotTypes
<1>5. PICK where \in {"resuming", "closed"} : Become(n, where)
  BY DEF ToolBack
<1>6. SlotInv'
  BY <1>1, <1>2, <1>3, <1>4, <1>5, SlotFinish
<1>7. BudgetFrame /\ at' = at
  BY DEF ToolBack, BudgetFrame, pi, truth, budget, history
<1> QED BY <1>1, <1>6, <1>7, BudgetAside DEF IInv

LEMMA HandoffBackKeeps ==
  ASSUME IInv, NEW n \in Requests, NEW ok \in BOOLEAN, HandoffBack(n, ok) PROVE IInv'
<1>1. SlotInv /\ BudgetInv
  BY DEF IInv
<1>2. SlotFrame /\ handoffInFlight' = FALSE /\ UNCHANGED <<request, inFlight>>
  BY SessionIdType, <1>1 DEF HandoffBack, SlotFrame, pi, truth
<1>3. call[n].owner = "model-handoff" /\ call[n].at \in {"running", "committed"} /\ Finish(n)
  BY DEF HandoffBack, CallsBack, HasSettled
<1>4. PICK where \in {"resuming", "closed"} : Become(n, where)
  BY DEF HandoffBack
<1>5. SlotInv'
  BY <1>1, <1>2, <1>3, <1>4, SlotFinish
<1>6. BudgetFrame /\ at' = at
  BY DEF HandoffBack, BudgetFrame, pi, truth, budget, history
<1> QED BY <1>1, <1>5, <1>6, BudgetAside DEF IInv

LEMMA RecoveryBackKeeps ==
  ASSUME IInv, NEW n \in Requests, NEW ok \in BOOLEAN, RecoveryBack(n, ok) PROVE IInv'
<1>1. SlotInv /\ BudgetInv
  BY DEF IInv
<1>2. SlotFrame /\ UNCHANGED <<request, inFlight, handoffInFlight>>
  BY SessionIdType, <1>1 DEF RecoveryBack, SlotFrame, pi, truth, handoff
<1>3. /\ call[n].owner = "context-admission" /\ call[n].at \in {"running", "committed"}
      /\ Finish(n) /\ Become(n, "closed")
  BY DEF RecoveryBack, CallsBack, HasSettled
<1>4. SlotInv'
  BY <1>1, <1>2, <1>3, SlotFinish
<1>5. /\ UNCHANGED <<up, session, model, usage, profile, at, current, overflow, generation, seen, measured, reserved>>
      /\ allowance' = allowance \/ allowance' = Unknown
  BY DEF RecoveryBack, pi, truth, history
<1>6. /\ usage \in Nat \cup {Unknown} /\ profile \in Profiles \cup {Unknown} /\ generation \in Nat
      /\ reserved \subseteq Reservations /\ IsFiniteSet(reserved) /\ (up # "up" => at = "idle")
  BY <1>1 DEF BudgetInv, BudgetTypes, Whereabouts
<1>7. BudgetInv'
  BY <1>1, <1>5, <1>6, BudgetKeeps
<1> QED BY <1>4, <1>7 DEF IInv

LEMMA ResumeKeeps == ASSUME IInv, NEW n \in Requests, Resume(n) PROVE IInv'
<1>1. SlotInv /\ BudgetInv
  BY DEF IInv
<1>2. BudgetFrame /\ at' = at
  BY DEF Resume, BudgetFrame, pi, truth, budget, history
<1> QED BY <1>1, <1>2, SlotResume, BudgetAside DEF IInv

LEMMA StutterKeeps == ASSUME IInv, UNCHANGED vars PROVE IInv'
<1>1. SlotInv /\ BudgetInv
  BY DEF IInv
<1>2. SlotFrame /\ UNCHANGED <<coordinator, inFlight, handoffInFlight>>
  BY SessionIdType, <1>1 DEF vars, pi, truth, handoff, SlotFrame
<1>3. BudgetFrame /\ at' = at
  BY DEF vars, BudgetFrame, pi, truth, budget, history
<1> QED BY <1>1, <1>2, <1>3, SlotSame, BudgetAside DEF IInv

LEMMA StepInv == IInv /\ [Next]_vars => IInv'
<1> SUFFICES ASSUME IInv, [Next]_vars PROVE IInv'
  OBVIOUS
<1>1. CASE SessionShutdown \/ ToolStart \/ TruthStart \/ AdmissionStart
  BY <1>1, SessionShutdownKeeps, ToolStartKeeps, TruthStartKeeps, AdmissionStartKeeps
<1>2. CASE \E m \in Models : ModelSelect(m)
  BY <1>2, ModelSelectKeeps
<1>3. CASE \E payload \in Payloads : BeforeProviderRequest(payload)
  BY <1>3, BeforeProviderRequestKeeps
<1>4. CASE AfterProviderResponse \/ TurnEnd \/ Abort \/ Settle \/ Settled
  BY <1>4, AfterProviderResponseKeeps, TurnEndKeeps, AbortKeeps, SettleKeeps, SettledKeeps
<1>5. CASE \E id \in Calls, tokens \in Payloads : Reserve(id, tokens)
  BY <1>5, ReserveKeeps
<1>6. CASE \E id \in Calls : Release(id)
  BY <1>6, ReleaseKeeps
<1>7. CASE CompactContext \/ PiCompacts
  BY <1>7, CompactContextKeeps, PiCompactsKeeps
<1>8. CASE \E n \in Requests : ToolCompacts(n) \/ Commit(n) \/ Resume(n)
  BY <1>8, ToolCompactsKeeps, CommitKeeps, ResumeKeeps
<1>9. CASE \E n \in Requests, ok \in BOOLEAN : ToolBack(n, ok) \/ HandoffBack(n, ok) \/ RecoveryBack(n, ok)
  BY <1>9, ToolBackKeeps, HandoffBackKeeps, RecoveryBackKeeps
<1>10. CASE UNCHANGED vars
  BY <1>10, StutterKeeps
<1> QED BY <1>1, <1>2, <1>3, <1>4, <1>5, <1>6, <1>7, <1>8, <1>9, <1>10 DEF Next

LEMMA Invariance == Spec => []IInv
  BY InitHolds, StepInv, PTL DEF Spec

-----------------------------------------------------------------------------
(* What the runs check, for all constants.                                  *)

(* The slot is held by exactly the compaction of this session that is under *)
(* way, and neither latch outlives it, in whatever order Pi calls back and  *)
(* sessions are replaced (beginCompaction, finishCompaction, finish).       *)
THEOREM SlotCorrect == Spec => []SlotAgrees
<1>1. IInv => SlotAgrees
  BY DEF IInv, SlotInv
<1> QED BY <1>1, Invariance, PTL

(* However often Pi calls back, a compaction asks to go on at most once, and *)
(* compact_context for its own session only (resume).                        *)
THEOREM ResumeCorrect == Spec => []OneResume
<1>1. IInv => OneResume
  BY DEF IInv, SlotInv
<1> QED BY <1>1, Invariance, PTL

(* A context measured over the budget lets no request of its epoch through   *)
(* until a newer measurement is within it (before_provider_request).         *)
THEOREM OverflowCorrect == Spec => []OverflowRemembered
<1>1. IInv => OverflowRemembered
  BY DEF IInv, BudgetInv
<1> QED BY <1>1, Invariance, PTL

\* A reservation is taken out of what the last request left.
LEMMA ReserveCertified ==
  ASSUME IInv, NEW id \in Calls, NEW tokens \in Payloads, Reserve(id, tokens), NEW r \in reserved' \ reserved
  PROVE  /\ measured # Unknown /\ measured.session = session /\ measured.epoch = r.epoch
         /\ measured.generation = generation /\ Held(reserved', r.epoch) <= measured.room
<1>1. BudgetInv
  BY DEF IInv
<1>2. /\ r = [id |-> id, epoch |-> current, tokens |-> tokens]
      /\ reserved' = reserved \cup {r} /\ current # Unknown /\ allowance # Unknown /\ at = "answered"
  BY DEF Reserve
<1>3. (\A q \in reserved : q.id # id) /\ Held(reserved, current) + tokens <= allowance
  BY DEF Reserve, Grants
<1>4. r \in Reservations /\ r.epoch = current /\ r.id = id /\ r.tokens = tokens
  BY <1>1, <1>2, Bounds DEF BudgetInv, BudgetTypes, Reservations
<1>5. Held(reserved', current) = Held(reserved, current) + tokens
  BY <1>1, <1>2, <1>3, <1>4, HeldAdds DEF BudgetInv, BudgetTypes
<1>6. /\ measured # Unknown /\ measured.session = session /\ measured.epoch = current
      /\ measured.generation = generation /\ measured.room = allowance
  BY <1>1, <1>2 DEF BudgetInv, Certified
<1> QED BY <1>3, <1>4, <1>5, <1>6

\* No other step adds a reservation.
LEMMA OnlyReserveAdds ==
  ASSUME [Next]_vars, \A id \in Calls, tokens \in Payloads : ~Reserve(id, tokens)
  PROVE  reserved' \subseteq reserved
<1>1. CASE SessionShutdown \/ ToolStart \/ TruthStart \/ AdmissionStart
  BY <1>1 DEF SessionShutdown, ToolStart, TruthStart, AdmissionStart
<1>2. CASE \E m \in Models : ModelSelect(m)
  BY <1>2 DEF ModelSelect, Sync, Of
<1>3. CASE \E payload \in Payloads : BeforeProviderRequest(payload)
  BY <1>3 DEF BeforeProviderRequest, Admit, Of
<1>4. CASE AfterProviderResponse \/ TurnEnd \/ Abort \/ Settle \/ Settled
  BY <1>4 DEF AfterProviderResponse, TurnEnd, Abort, Settle, Settled
<1>5. CASE \E id \in Calls : Release(id)
  BY <1>5 DEF Release
<1>6. CASE CompactContext \/ PiCompacts
  BY <1>6 DEF CompactContext, PiCompacts, Compacted
<1>7. CASE \E n \in Requests : ToolCompacts(n) \/ Commit(n) \/ Resume(n)
  BY <1>7 DEF ToolCompacts, Commit, Compacted, Resume
<1>8. CASE \E n \in Requests, ok \in BOOLEAN : ToolBack(n, ok) \/ HandoffBack(n, ok) \/ RecoveryBack(n, ok)
  BY <1>8 DEF ToolBack, HandoffBack, RecoveryBack
<1>9. CASE UNCHANGED vars
  BY <1>9 DEF vars
<1> QED BY <1>1, <1>2, <1>3, <1>4, <1>5, <1>6, <1>7, <1>8, <1>9 DEF Next

(* Room for a tool's output is granted only out of what the last request of  *)
(* this session, epoch and generation left, and the grants that are held     *)
(* together fit in it (reserve, session_compact, syncEpoch).                 *)
THEOREM ReservationCorrect == Spec => CertifiedReservation
<1>1. IInv /\ [Next]_vars => [\A r \in reserved' \ reserved :
                               /\ measured # Unknown
                               /\ measured.session = session /\ measured.epoch = r.epoch
                               /\ measured.generation = generation
                               /\ Held(reserved', r.epoch) =< measured.room]_vars
  BY ReserveCertified, OnlyReserveAdds
<1> QED BY <1>1, Invariance, PTL DEF Spec, CertifiedReservation
=============================================================================
