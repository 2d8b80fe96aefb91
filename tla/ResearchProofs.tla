--------------------------- MODULE ResearchProofs ---------------------------
(***************************************************************************)
(* What holds of a research run for any number of processes, calls,        *)
(* branches, claims and budgets: no child runs unpaid or reports twice, a  *)
(* settled run is at rest and its evidence never changes again, only the   *)
(* user's extension resumes a run that stopped, and the sums of the budget *)
(* add up: what operations have reserved is a number of places, so that    *)
(* sums of reservations are cardinalities of disjoint sets.                *)
(***************************************************************************)
EXTENDS Research, FiniteSetTheorems, FunctionTheorems, TLAPS

Statuses == {"active", "ready", "blocked", "settled"}

Shape(l) ==
  l = [status |-> l.status, consumed |-> l.consumed, reserved |-> l.reserved, queries |-> l.queries,
       read |-> l.read, validated |-> l.validated, usable |-> l.usable, lost |-> l.lost,
       lostReads |-> l.lostReads, covered |-> l.covered, conflicts |-> l.conflicts, ops |-> l.ops,
       children |-> l.children, reports |-> l.reports, childSpent |-> l.childSpent]

LedgerType(l) ==
  /\ Shape(l)
  /\ l.status \in Statuses /\ l.ops \in [Ops -> Operations]
  /\ l.queries \subseteq Queries /\ l.read \subseteq Urls /\ l.lost \subseteq Urls
  /\ l.usable \subseteq l.validated /\ l.validated \subseteq Urls
  /\ l.covered \subseteq Claims /\ l.conflicts \subseteq Claims
  /\ l.children \subseteq Branches /\ l.reports \subseteq Branches

SameChildren(l, m) == m.children = l.children /\ m.reports = l.reports
SameStatus(l, m)   == m.status = l.status

-----------------------------------------------------------------------------
(* What each operation of the ledger does to the parts that matter here.   *)
LEMMA EmptyLedgerType == LedgerType(EmptyLedger) /\ EmptyLedger.children = {} /\ EmptyLedger.reports = {}
                         /\ EmptyLedger.status = "active" /\ InFlight(EmptyLedger) = {}
  BY DEF LedgerType, Shape, EmptyLedger, Statuses, Operations, Unused, InFlight

LEMMA UnitIsNat ==
  ASSUME NEW l, NEW kind, NEW request \in SUBSET (Queries \cup Urls) PROVE Unit(l, kind, request) \in Nat
<1>1. IsFiniteSet(Queries \cup Urls)
  BY FiniteWork, FS_Union
<1>2. \A s \in SUBSET (Queries \cup Urls) : IsFiniteSet(s)
  BY <1>1, FS_Subset
<1>3. \A s \in SUBSET (Queries \cup Urls) : Cardinality(s) \in Nat
  BY <1>2, FS_CardinalityType
<1> QED BY <1>3 DEF Unit

LEMMA AuthorizeType ==
  ASSUME NEW l, LedgerType(l), NEW o \in Ops, NEW kind \in {"searches", "reads"},
         NEW request \in SUBSET Wanted(kind), NEW p \in Procs
  PROVE  LET m == Authorize(l, o, kind, request, p) IN
         /\ LedgerType(m) /\ SameStatus(l, m) /\ SameChildren(l, m)
         /\ m.ops[o] \in OpenOps /\ m.ops[o].owner = p
         /\ \A i \in Ops \ {o} : m.ops[i] = l.ops[i]
<1> DEFINE e == [at |-> "open", kind |-> kind, request |-> request, unit |-> Unit(l, kind, request), owner |-> p]
           m == Authorize(l, o, kind, request, p)
<1>0. Unit(l, kind, request) \in Nat
  BY UnitIsNat DEF Wanted
<1>1. e \in OpenOps /\ e.owner = p
  BY <1>0 DEF OpenOps, Calling
<1> HIDE DEF e
<1>2. m = [l EXCEPT !.reserved = @ (+) Only(kind, Unit(l, kind, request)), !.ops[o] = e]
  BY DEF Authorize, e
<1> HIDE DEF m
<1>3. m.ops = [l.ops EXCEPT ![o] = e] /\ m.status = l.status /\ SameChildren(l, m)
  BY <1>2 DEF LedgerType, Shape, SameChildren
<1>4. m.ops \in [Ops -> Operations] /\ m.ops[o] = e /\ \A i \in Ops \ {o} : m.ops[i] = l.ops[i]
  BY <1>1, <1>3 DEF LedgerType, Operations
<1>5. LedgerType(m)
  BY <1>2, <1>4, <1>3 DEF LedgerType, Shape
<1> QED BY <1>1, <1>3, <1>4, <1>5 DEF m, SameStatus

LEMMA ReleaseType ==
  ASSUME NEW l, LedgerType(l), NEW o \in Ops
  PROVE  LET m == Release(l, o) IN
         /\ LedgerType(m) /\ m.status = l.status /\ SameChildren(l, m)
         /\ m.ops = [l.ops EXCEPT ![o] = Done]
<1> DEFINE m == Release(l, o)
<1>1. m = [l EXCEPT !.reserved = @ (-) Only(l.ops[o].kind, l.ops[o].unit), !.ops[o] = Done]
  BY DEF Release
<1> HIDE DEF m
<1>2. m.ops = [l.ops EXCEPT ![o] = Done] /\ m.status = l.status /\ SameChildren(l, m)
  BY <1>1 DEF LedgerType, Shape, SameChildren
<1>3. m.ops \in [Ops -> Operations]
  BY <1>2 DEF LedgerType, Operations
<1>4. LedgerType(m)
  BY <1>1, <1>2, <1>3 DEF LedgerType, Shape
<1> QED BY <1>2, <1>4 DEF m

LEMMA SearchReceiptType ==
  ASSUME NEW l, LedgerType(l), NEW o \in Ops, l.ops[o].at = "open", l.ops[o].kind = "searches",
         l.ops[o].request \subseteq Queries
  PROVE  LET m == SearchReceipt(l, o) IN
         /\ LedgerType(m) /\ m.status = l.status /\ SameChildren(l, m)
         /\ m.ops = [l.ops EXCEPT ![o] = Done]
<1> DEFINE r == Release(l, o)
           n == l.ops[o].request \ l.queries
           m == SearchReceipt(l, o)
<1>1. LedgerType(r) /\ r.status = l.status /\ SameChildren(l, r) /\ r.ops = [l.ops EXCEPT ![o] = Done]
  BY ReleaseType
<1>2. m = [r EXCEPT !.consumed = @ (+) Only("searches", Cardinality(n)), !.queries = @ \cup n]
  BY DEF SearchReceipt
<1>3. n \subseteq Queries
  OBVIOUS
<1> HIDE DEF r, m, n
<1>4. m.ops = r.ops /\ m.status = r.status /\ SameChildren(r, m)
  BY <1>1, <1>2 DEF LedgerType, Shape, SameChildren
<1>5. LedgerType(m)
  BY <1>1, <1>2, <1>3 DEF LedgerType, Shape
<1> QED BY <1>1, <1>4, <1>5 DEF SameChildren, m

(* Every round leaves the operations and the children alone and ends in a  *)
(* status that is not settled.                                             *)
LEMMA RoundType ==
  ASSUME NEW l, LedgerType(l), NEW q \in SUBSET Queries, NEW r \in SUBSET Urls, NEW v \in SUBSET Urls,
         NEW ok \in BOOLEAN, NEW c \in SUBSET Claims, NEW x \in SUBSET Claims, NEW y,
         NEW m \in Rounds(l, q, r, v, ok, c, x, y)
  PROVE  LedgerType(m) /\ m.status # "settled" /\ SameChildren(l, m) /\ m.ops = l.ops
<1>1. PICK qs \in SUBSET Queries, rs \in SUBSET Urls, vs \in SUBSET Urls : m = Round(l, qs, rs, vs, ok, c, x, y)
  BY DEF Rounds, Accepted
<1> DEFINE used == [searches |-> Cardinality(qs), reads |-> Cardinality(rs), validation |-> Cardinality(vs)]
           status == IF l.covered \cup c = Claims /\ (l.conflicts \ y) \cup x = {} THEN "ready"
                     ELSE IF \A k \in Kinds : Room(l, k) = used[k] THEN "blocked" ELSE "active"
           usable == IF ok THEN l.usable \cup vs ELSE l.usable
           consumed == l.consumed (+) used
<1>2. m = [l EXCEPT !.consumed = consumed, !.queries = @ \cup qs, !.read = @ \cup rs, !.validated = @ \cup vs,
                    !.usable = usable, !.covered = @ \cup c, !.conflicts = (@ \ y) \cup x, !.status = status]
  BY <1>1 DEF Round, LedgerType, Shape
<1>3. status \in Statuses \ {"settled"}
  BY DEF Statuses
<1>4. usable \subseteq l.validated \cup vs
  BY DEF LedgerType
<1> HIDE DEF status, usable, consumed
<1>5. m.ops = l.ops /\ m.status = status /\ SameChildren(l, m)
  BY <1>2 DEF LedgerType, Shape, SameChildren
<1>6. LedgerType(m)
  BY <1>2, <1>3, <1>4 DEF LedgerType, Shape
<1> QED BY <1>3, <1>5, <1>6

LEMMA ReadReceiptType ==
  ASSUME NEW l, LedgerType(l), NEW o \in Ops, l.ops[o].request \subseteq Urls, NEW m \in ReadReceipts(l, o)
  PROVE  /\ LedgerType(m) /\ m.status # "settled" /\ SameChildren(l, m)
         /\ m.ops = [l.ops EXCEPT ![o] = Done]
<1> DEFINE r == Release(l, o)
<1>1. LedgerType(r) /\ SameChildren(l, r) /\ r.ops = [l.ops EXCEPT ![o] = Done]
  BY ReleaseType
<1>2. m \in Rounds(r, {}, l.ops[o].request, {}, FALSE, {}, {}, {})
  BY DEF ReadReceipts
<1> HIDE DEF r
<1>3. LedgerType(m) /\ m.status # "settled" /\ SameChildren(r, m) /\ m.ops = r.ops
  <2> DEFINE us == l.ops[o].request
             ok == FALSE
             no == {}
  <2>1. no \in SUBSET Queries /\ no \in SUBSET Claims /\ no \in SUBSET Urls /\ us \in SUBSET Urls /\ ok \in BOOLEAN
    OBVIOUS
  <2>2. m \in Rounds(r, no, us, no, ok, no, no, no)
    BY <1>2
  <2> HIDE DEF us, ok, no
  <2> QED BY <1>1, <2>1, <2>2, RoundType
<1> QED BY <1>1, <1>3 DEF SameChildren

LEMMA RecoverType ==
  ASSUME NEW l, LedgerType(l), NEW dead
  PROVE  LET m == RecoverAbandoned(l, dead) IN
         /\ LedgerType(m) /\ m.status = l.status /\ SameChildren(l, m)
         /\ \A o \in Ops : m.ops[o] = IF o \in Abandoned(l, dead) THEN Done ELSE l.ops[o]
         /\ InFlight(l) = {} => m = l
<1> DEFINE gone == Abandoned(l, dead)
           searches == OfKind(l, gone, "searches")
           reads == OfKind(l, gone, "reads")
           new == (UNION {l.ops[o].request : o \in searches}) \ l.queries
           lost == UNION {l.ops[o].request : o \in reads}
           consumed == l.consumed (+) Only("searches", Cardinality(new)) (+) Only("reads", Units(l, reads))
           reserved == l.reserved (-) Only("searches", Units(l, searches)) (-) Only("reads", Units(l, reads))
           lostReads == l.lostReads + Units(l, reads)
           ops == [o \in Ops |-> IF o \in gone THEN Done ELSE l.ops[o]]
           m == RecoverAbandoned(l, dead)
<1>1. CASE gone = {}
  <2>1. m = l
    BY <1>1 DEF RecoverAbandoned
  <2> QED BY <1>1, <2>1 DEF SameChildren
<1>2. CASE gone # {}
  <2>1. m = [l EXCEPT !.reserved = reserved, !.consumed = consumed, !.queries = @ \cup new, !.lost = @ \cup lost,
                      !.lostReads = lostReads, !.ops = ops]
    BY <1>2 DEF RecoverAbandoned, LedgerType, Shape
  <2>2. ops \in [Ops -> Operations]
    BY DEF LedgerType, Operations
  <2>3. new \subseteq Queries /\ lost \subseteq Urls
    <3>1. \A o \in gone : l.ops[o].request \subseteq Wanted(l.ops[o].kind)
      BY DEF Abandoned, InFlight, LedgerType, Operations, OpenOps, Calling, Unused, Done
    <3> QED BY <3>1 DEF Wanted, OfKind
  <2>4. InFlight(l) # {}
    BY <1>2 DEF Abandoned
  <2> HIDE DEF consumed, reserved, lostReads, ops, new, lost, searches, reads, m
  <2>5. m.ops = ops /\ m.status = l.status /\ SameChildren(l, m)
    BY <2>1 DEF LedgerType, Shape, SameChildren
  <2>6. LedgerType(m)
    BY <2>1, <2>2, <2>3 DEF LedgerType, Shape
  <2> QED BY <2>4, <2>5, <2>6 DEF m, ops
<1> QED BY <1>1, <1>2

LEMMA ReserveType ==
  ASSUME NEW l, LedgerType(l), NEW b \in Branches
  PROVE  LET m == ReserveChild(l, b) IN
         /\ LedgerType(m) /\ m.status = l.status /\ m.ops = l.ops
         /\ m.children = l.children \cup {b} /\ m.reports = l.reports
<1> DEFINE reserved == l.reserved (+) Share
           m == ReserveChild(l, b)
<1>1. m = [l EXCEPT !.children = @ \cup {b}, !.reserved = reserved]
  BY DEF ReserveChild, LedgerType, Shape
<1> HIDE DEF m, reserved
<1>2. /\ m.status = l.status /\ m.ops = l.ops /\ m.reports = l.reports
      /\ m.children = l.children \cup {b}
  BY <1>1 DEF LedgerType, Shape
<1>3. LedgerType(m)
  BY <1>1 DEF LedgerType, Shape
<1> QED BY <1>2, <1>3 DEF m

LEMMA ReleaseChildType ==
  ASSUME NEW l, LedgerType(l), NEW b \in Branches
  PROVE  LET m == ReleaseChild(l, b) IN
         /\ LedgerType(m) /\ m.status = l.status /\ m.ops = l.ops
         /\ m.children = l.children \ {b} /\ m.reports = l.reports
<1> DEFINE reserved == l.reserved (-) Share
           m == ReleaseChild(l, b)
<1>1. m = IF b \in l.children THEN [l EXCEPT !.children = @ \ {b}, !.reserved = reserved] ELSE l
  BY DEF ReleaseChild, LedgerType, Shape
<1> HIDE DEF m, reserved
<1> QED BY <1>1 DEF LedgerType, Shape, m

LEMMA MergeType ==
  ASSUME NEW l, LedgerType(l), NEW b \in l.children, l.status # "settled", NEW used, NEW failed \in BOOLEAN
  PROVE  LET m == MergeChild(l, b, used, failed) IN
         /\ LedgerType(m) /\ m.status # "settled" /\ m.ops = l.ops
         /\ m.children = l.children \ {b} /\ m.reports = l.reports \cup {b}
<1> DEFINE charged == IF failed THEN Share ELSE used
           reserved == l.reserved (-) Share
           consumed == l.consumed (+) charged
           childSpent == l.childSpent (+) charged
           status == IF failed THEN "blocked" ELSE l.status
           m == MergeChild(l, b, used, failed)
<1>1. m = [l EXCEPT !.children = @ \ {b}, !.reports = @ \cup {b}, !.reserved = reserved, !.consumed = consumed,
                    !.childSpent = childSpent, !.status = status]
  BY DEF MergeChild, LedgerType, Shape
<1>2. status \in Statuses \ {"settled"}
  BY DEF LedgerType, Statuses
<1> HIDE DEF m, charged, reserved, consumed, childSpent, status
<1>3. m.status = status /\ m.ops = l.ops /\ m.children = l.children \ {b} /\ m.reports = l.reports \cup {b}
  BY <1>1 DEF LedgerType, Shape
<1>4. LedgerType(m)
  BY <1>1, <1>2 DEF LedgerType, Shape
<1> QED BY <1>2, <1>3, <1>4 DEF m

LEMMA InterruptType ==
  ASSUME NEW l, LedgerType(l), l.status = "settled" => l.children = {}, NEW bs
  PROVE  LET m == Interrupt(l, bs) IN
         /\ LedgerType(m) /\ m.ops = l.ops
         /\ m.children = l.children \ bs /\ m.reports = l.reports \cup (bs \cap l.children)
         /\ m.status = "settled" <=> l.status = "settled"
         /\ l.status = "settled" => m = l
<1> DEFINE gone == bs \cap l.children
           charged == Times(Cardinality(gone), Share)
           reserved == l.reserved (-) charged
           consumed == l.consumed (+) charged
           childSpent == l.childSpent (+) charged
           m == Interrupt(l, bs)
<1>1. CASE l.status = "settled" \/ gone = {}
  <2>1. m = l /\ gone = {}
    BY <1>1 DEF Interrupt
  <2> QED BY <2>1
<1>2. CASE l.status # "settled" /\ gone # {}
  <2>1. m = [l EXCEPT !.children = @ \ gone, !.reports = @ \cup gone, !.status = "blocked",
                      !.reserved = reserved, !.consumed = consumed, !.childSpent = childSpent]
    BY <1>2 DEF Interrupt, LedgerType, Shape
  <2> HIDE DEF m, reserved, consumed, childSpent, charged
  <2>2. m.status = "blocked" /\ m.ops = l.ops /\ m.children = l.children \ gone /\ m.reports = l.reports \cup gone
    BY <2>1 DEF LedgerType, Shape
  <2>3. LedgerType(m)
    BY <2>1 DEF LedgerType, Shape, Statuses
  <2> QED BY <1>2, <2>2, <2>3 DEF m
<1> QED BY <1>1, <1>2

LEMMA SettleType ==
  ASSUME NEW l, LedgerType(l)
  PROVE  LET m == Settle(l) IN
         /\ LedgerType(m) /\ m.status = "settled" /\ m.ops = l.ops /\ SameChildren(l, m)
         /\ m.covered = l.covered /\ m.conflicts = l.conflicts
         /\ l.status = "settled" => m = l
  BY DEF Settle, LedgerType, Shape, Statuses, SameChildren

-----------------------------------------------------------------------------
(* The inductive invariant: every child in memory, launched or not, holds  *)
(* its lease or has been charged, its lease is its own, and a call under   *)
(* way has a living owner, so that recovery leaves it alone.               *)
KidsPaid  == \A k \in kids : Live(k) \/ k.branch \in L.reports
KidsApart == \A j, k \in kids : j.lease = k.lease => j = k
LeaseIds  == /\ \A k \in kids : k.lease <= issued
             /\ \A b \in Branches : lease[b] <= issued
Owned     == \A o \in running : L.ops[o].at = "open" /\ proc[L.ops[o].owner] # "dead"
AtRest    == L.status = "settled" => /\ InFlight(L) = {} /\ L.children = {}
                                     /\ L.covered = Claims /\ L.conflicts = {}
OneChild  == \A b, c \in L.children \cup L.reports : b = c

(* The rest of TypeOK, beside the ledger.                                  *)
RunType ==
  /\ phase \in Phases /\ window \in {"discovery", "validation", "expired"} /\ ext \in 0..MaxExtend
  /\ st \in [Branches -> {"open"} \cup Terminal] /\ lease \in [Branches -> 0..MaxLeases]
  /\ spent \subseteq Branches /\ receipt \in [Branches -> {"none", "partial", "complete"}]
  /\ settled \in BOOLEAN /\ issued \in 0..MaxLeases
  /\ proc \in [Procs -> {"new", "starting", "up", "dead"}]
  /\ running \subseteq Ops /\ late \subseteq Procs /\ kids \subseteq Kids

LEMMA TypeParts == RunType /\ LedgerType(L) => TypeOK
  BY DEF RunType, LedgerType, TypeOK, Statuses

(* What has to be kept up between the ledger, the graph and the processes. *)
Linked ==
  /\ L.children = Leased /\ L.children \cap L.reports = {} /\ OneChild
  /\ KidsPaid /\ KidsApart /\ LeaseIds /\ Owned /\ AtRest
  /\ (phase = "settled" \/ settled) => L.status = "settled"
  /\ settled => GraphSettles(st, receipt)

IInv == RunType /\ LedgerType(L) /\ Linked

LEMMA InitOk == Init => IInv
<1> SUFFICES ASSUME Init PROVE IInv
  OBVIOUS
<1>1. LedgerType(L) /\ L.children = {} /\ L.reports = {} /\ L.status = "active"
  BY EmptyLedgerType DEF Init
<1>2. RunType
  <2>1. proc \in [Procs -> {"new", "starting", "up", "dead"}]
    BY DEF Init
  <2>2. settled \in BOOLEAN
    BY DEF Init
  <2>3. 0 \in 0..MaxExtend /\ 0 \in 0..MaxLeases
    BY Bounds
  <2>4. phase \in Phases /\ window \in {"discovery", "validation", "expired"}
    BY DEF Init, Phases
  <2> QED BY <2>1, <2>2, <2>3, <2>4 DEF Init, RunType
<1>3. Linked
  BY <1>1 DEF Init, Linked, Leased, OneChild, KidsPaid, KidsApart, LeaseIds, Owned, AtRest
<1> QED BY <1>1, <1>2, <1>3 DEF IInv

LEMMA CommitPhase ==
  ASSUME NEW l, Commit(l), RunType, phase = "settled" => L.status = "settled",
         L.status = "settled" => l.status = "settled"
  PROVE  L' = l /\ phase' \in Phases /\ (phase' = "settled" => l.status = "settled")
  BY DEF Commit, NextPhase, RunType, Phases

(* A step that leaves graph and children alone, and changes the ledger's   *)
(* operations at most.                                                     *)
LEMMA Quiet ==
  ASSUME IInv, LedgerType(L'), SameChildren(L, L'), UNCHANGED <<graph, kids>>, Owned', AtRest',
         phase' = "settled" => L'.status = "settled", L.status = "settled" => L'.status = "settled"
  PROVE  Linked'
<1> USE DEF IInv, Linked, SameChildren, graph
<1>1. (L.children = Leased /\ L.children \cap L.reports = {})'
  BY DEF Leased
<1>2. OneChild'
  BY DEF OneChild
<1>3. (KidsPaid /\ KidsApart /\ LeaseIds)'
  BY DEF KidsPaid, KidsApart, LeaseIds, Live
<1>4. settled' => GraphSettles(st, receipt)'
  BY DEF GraphSettles
<1>5. settled' => L'.status = "settled"
  OBVIOUS
<1> QED BY <1>1, <1>2, <1>3, <1>4, <1>5

-----------------------------------------------------------------------------
(* The deadline changes the phase and the clock only.                      *)
LEMMA PhaseStep ==
  ASSUME IInv, UNCHANGED <<L, graph, proc, running, kids>>, phase' \in Phases,
         phase' = "settled" => phase = "settled"
  PROVE  Linked'
<1>1. LedgerType(L') /\ SameChildren(L, L')
  BY DEF IInv, SameChildren
<1>2. Owned' /\ AtRest'
  BY DEF IInv, Linked, Owned, AtRest, InFlight
<1> QED BY <1>1, <1>2, Quiet DEF IInv, Linked

LEMMA DeadlineStep ==
  ASSUME IInv, Tick \/ \E p \in Procs : Deadlines(p) PROVE IInv'
<1>1. RunType'
  <2> USE DEF IInv, RunType, Phases, local, graph
  <2>1. CASE Tick
    BY <2>1 DEF Tick
  <2>2. ASSUME NEW p \in Procs, Deadlines(p) PROVE RunType'
    <3>1. CASE TimerExpire(p)
      BY <3>1 DEF TimerExpire
    <3>2. CASE DeadlineSeen(p)
      BY <3>2 DEF DeadlineSeen
    <3>3. CASE LateExpire(p)
      BY <3>3 DEF LateExpire
    <3>4. CASE Extend(p)
      BY <3>4, Bounds DEF Extend
    <3>5. CASE Cancel(p)
      BY <3>5 DEF Cancel
    <3> QED BY <2>2, <3>1, <3>2, <3>3, <3>4, <3>5 DEF Deadlines
  <2> QED BY <2>1, <2>2
<1>2. UNCHANGED <<L, graph, proc, running, kids>> /\ phase' \in Phases /\ (phase' = "settled" => phase = "settled")
  BY DEF Tick, Deadlines, TimerExpire, DeadlineSeen, LateExpire, Extend, Cancel, local, graph, Phases, IInv, RunType
<1>3. LedgerType(L)'
  BY <1>2 DEF IInv
<1>4. Linked'
  BY <1>2, PhaseStep
<1> QED BY <1>1, <1>3, <1>4 DEF IInv

-----------------------------------------------------------------------------
(* Web calls, rounds and recovery change the ledger's operations only.     *)
LEMMA AuthorizeStep ==
  ASSUME IInv, NEW p \in Procs, NEW o \in Ops, NEW kind \in {"searches", "reads"},
         NEW request \in SUBSET Wanted(kind), AuthorizeCall(p, o, kind, request)
  PROVE  IInv'
<1> DEFINE l == Authorize(L, o, kind, request, p)
<1>2. /\ LedgerType(l) /\ SameStatus(L, l) /\ SameChildren(L, l)
      /\ l.ops[o] \in OpenOps /\ l.ops[o].owner = p
      /\ \A i \in Ops \ {o} : l.ops[i] = L.ops[i]
  BY AuthorizeType DEF IInv
<1>3. Commit(l) /\ L.status # "settled" /\ L.ops[o] = Unused /\ p \in Up
  BY DEF AuthorizeCall, MayAuthorize
<1> HIDE DEF l
<1>4. L' = l /\ phase' \in Phases /\ (phase' = "settled" => l.status = "settled")
  BY <1>2, <1>3, CommitPhase DEF IInv, Linked, SameStatus
<1>5. UNCHANGED <<window, ext, graph, proc, late, kids>> /\ running' = running \cup {o}
  BY DEF AuthorizeCall
<1>6. RunType'
  BY <1>4, <1>5 DEF IInv, RunType, graph
<1>7. Owned'
  <2>1. l.ops[o].at = "open" /\ proc[p] # "dead"
    BY <1>2, <1>3 DEF OpenOps, Calling, Up
  <2>2. \A i \in running \ {o} : l.ops[i] = L.ops[i]
    BY <1>2 DEF IInv, RunType
  <2> QED BY <1>2, <1>4, <1>5, <2>1, <2>2 DEF IInv, Linked, Owned
<1>8. AtRest'
  BY <1>2, <1>3, <1>4 DEF AtRest, SameStatus
<1>9. Linked'
  BY <1>2, <1>3, <1>4, <1>5, <1>7, <1>8, Quiet DEF SameStatus
<1> QED BY <1>2, <1>4, <1>6, <1>9 DEF IInv

LEMMA OutcomeStep == ASSUME IInv, NEW o \in Ops, Outcome(o) PROVE IInv'
<1>1. o \in running /\ L.ops[o].at = "open" /\ L.ops[o] \in OpenOps
  BY DEF Outcome, IInv, Linked, Owned, LedgerType, Operations, Unused, Done
<1>2. L.ops[o].kind \in {"searches", "reads"} /\ L.ops[o].request \in SUBSET Wanted(L.ops[o].kind)
  BY <1>1 DEF OpenOps, Calling
<1>3. L.status # "settled"
  BY <1>1 DEF IInv, Linked, AtRest, InFlight
<1>4. PICK l : Commit(l) /\ l \in IF L.ops[o].kind = "searches" THEN {SearchReceipt(L, o)} ELSE ReadReceipts(L, o)
  BY DEF Outcome
<1>5. LedgerType(l) /\ l.status # "settled" /\ SameChildren(L, l) /\ l.ops = [L.ops EXCEPT ![o] = Done]
  <2>1. CASE L.ops[o].kind = "searches"
    BY <1>1, <1>2, <1>3, <1>4, <2>1, SearchReceiptType DEF Wanted, IInv
  <2>2. CASE L.ops[o].kind # "searches"
    BY <1>2, <1>4, <2>2, ReadReceiptType DEF Wanted, IInv
  <2> QED BY <2>1, <2>2
<1>6. L' = l /\ phase' \in Phases /\ (phase' = "settled" => l.status = "settled")
  BY <1>3, <1>4, <1>5, CommitPhase DEF IInv, Linked
<1>7. UNCHANGED <<window, ext, graph, proc, late, kids>> /\ running' = running \ {o}
  BY DEF Outcome
<1>8. RunType'
  BY <1>6, <1>7 DEF IInv, RunType, graph
<1>9. Owned'
  BY <1>5, <1>6, <1>7 DEF IInv, LedgerType, Linked, Owned, RunType
<1>10. AtRest'
  BY <1>5, <1>6 DEF AtRest
<1>11. Linked'
  BY <1>3, <1>5, <1>6, <1>7, <1>9, <1>10, Quiet
<1> QED BY <1>5, <1>6, <1>8, <1>11 DEF IInv

LEMMA LostStep == ASSUME IInv, NEW o \in Ops, ReceiptLost(o) PROVE IInv'
<1>1. UNCHANGED <<phase, window, ext, L, graph, proc, late, kids>> /\ running' \subseteq running
  BY DEF ReceiptLost
<1>2. RunType' /\ LedgerType(L)' /\ SameChildren(L, L')
  BY <1>1 DEF IInv, RunType, graph, SameChildren
<1>3. Owned' /\ AtRest'
  BY <1>1 DEF IInv, Linked, Owned, AtRest, InFlight
<1>4. Linked'
  BY <1>1, <1>2, <1>3, Quiet DEF IInv, Linked
<1> QED BY <1>2, <1>4 DEF IInv

(* A round is recorded on a ledger that is not settled, and leaves one     *)
(* that is not.                                                            *)
LEMMA RoundStep ==
  ASSUME IInv, L.status # "settled", NEW l, LedgerType(l), l.status # "settled", SameChildren(L, l), l.ops = L.ops,
         Commit(l), UNCHANGED <<window, ext, graph, local>>
  PROVE  IInv'
<1>1. L' = l /\ phase' \in Phases /\ (phase' = "settled" => l.status = "settled")
  BY CommitPhase DEF IInv, Linked
<1>2. RunType'
  BY <1>1 DEF IInv, RunType, graph, local
<1>3. Owned' /\ AtRest'
  BY <1>1 DEF IInv, Linked, Owned, AtRest, local
<1>4. Linked'
  BY <1>1, <1>3, Quiet DEF local
<1> QED BY <1>1, <1>2, <1>4 DEF IInv

LEMMA RecordStep == ASSUME IInv, NEW p \in Procs, Recording(p) PROVE IInv'
<1>1. PICK r \in Proposals : RecordRound(p, r)
  BY DEF Recording
<1>2. PICK l : Commit(l) /\ l \in Rounds(L, r.queries, r.reads, r.validation, r.ok, r.covers, r.opens, r.closes)
  BY <1>1 DEF RecordRound
<1>3. r.queries \in SUBSET Queries /\ r.reads \in SUBSET Urls /\ r.validation \in SUBSET Urls
      /\ r.covers \in SUBSET Claims /\ r.opens \in SUBSET Claims
  BY ProposalShape
<1>4. r.ok \in BOOLEAN
  BY ProposalShape
<1>5. LedgerType(l) /\ l.status # "settled" /\ SameChildren(L, l) /\ l.ops = L.ops
  BY <1>2, <1>3, <1>4, RoundType DEF IInv
<1> QED BY <1>1, <1>2, <1>5, RoundStep DEF RecordRound

LEMMA NoteStep == ASSUME IInv, NEW p \in Procs, NEW n \in Notes, NoteCard(p, n) PROVE IInv'
<1> DEFINE ok == n.covers # {}
           no == {}
<1>1. PICK l : Commit(l) /\ l \in Rounds(L, no, no, {n.page}, ok, n.covers, no, no)
  BY DEF NoteCard
<1>2. no \in SUBSET Queries /\ no \in SUBSET Urls /\ {n.page} \in SUBSET Urls /\ n.covers \in SUBSET Claims
      /\ no \in SUBSET Claims
  BY NoteShape
<1>3. ok \in BOOLEAN
  OBVIOUS
<1> HIDE DEF ok, no
<1>4. LedgerType(l) /\ l.status # "settled" /\ SameChildren(L, l) /\ l.ops = L.ops
  BY <1>1, <1>2, <1>3, RoundType DEF IInv
<1> QED BY <1>1, <1>4, RoundStep DEF NoteCard

LEMMA RecoverStep == ASSUME IInv, NEW p \in Procs, Recover(p) PROVE IInv'
<1> DEFINE l == RecoverAbandoned(L, Dead)
<1>1. /\ LedgerType(l) /\ l.status = L.status /\ SameChildren(L, l)
      /\ \A o \in Ops : l.ops[o] = IF o \in Abandoned(L, Dead) THEN Done ELSE L.ops[o]
      /\ InFlight(L) = {} => l = L
  BY RecoverType DEF IInv
<1>2. Commit(l) /\ UNCHANGED <<window, ext, graph, running, late, kids>>
      /\ proc[p] = "starting" /\ proc' = [proc EXCEPT ![p] = "up"]
  BY DEF Recover
<1> HIDE DEF l
<1>3. L' = l /\ phase' \in Phases /\ (phase' = "settled" => l.status = "settled")
  BY <1>1, <1>2, CommitPhase DEF IInv, Linked
<1>4. RunType'
  BY <1>2, <1>3 DEF IInv, RunType, graph
<1>5. \A o \in running : L'.ops[o] = L.ops[o]
  BY <1>1, <1>3 DEF IInv, RunType, Linked, Owned, Abandoned, Dead
<1>6. Owned'
  BY <1>2, <1>5 DEF IInv, RunType, Linked, Owned
<1>7. AtRest'
  BY <1>1, <1>3 DEF IInv, Linked, AtRest
<1>8. Linked'
  BY <1>1, <1>2, <1>3, <1>6, <1>7, Quiet
<1> QED BY <1>1, <1>3, <1>4, <1>8 DEF IInv

-----------------------------------------------------------------------------
(* Leases.  With no child and no report there is nothing in memory either. *)
LEMMA AcquireStep == ASSUME IInv, NEW p \in Procs, NEW b \in Branches, AcquireLease(p, b) PROVE IInv'
<1> DEFINE l == ReserveChild(L, b)
           k == [branch |-> b, lease |-> issued + 1, by |-> p, at |-> "acquired"]
<1>1. LedgerType(l) /\ l.status = L.status /\ l.ops = L.ops /\ l.children = L.children \cup {b} /\ l.reports = L.reports
  BY ReserveType DEF IInv
<1>2. Commit(l) /\ L.status # "settled" /\ L.children = {} /\ L.reports = {} /\ issued < MaxLeases
  BY DEF AcquireLease, MayReserveChild
<1>3. issued' = issued + 1 /\ lease' = [lease EXCEPT ![b] = issued + 1] /\ kids' = kids \cup {k}
      /\ UNCHANGED <<window, ext, st, spent, receipt, settled, proc, running, late>>
  BY DEF AcquireLease
<1> HIDE DEF l
<1>4. L' = l /\ phase' \in Phases /\ (phase' = "settled" => l.status = "settled")
  BY <1>1, <1>2, CommitPhase DEF IInv, Linked
<1>5. issued + 1 \in 1..MaxLeases
  BY <1>2, Bounds DEF IInv, RunType
<1>6. k \in Kids
  BY <1>5 DEF Kids
<1>7. kids = {}
  BY <1>2 DEF IInv, Linked, KidsPaid, Live, Leased, RunType, Kids
<1> HIDE DEF k
<1>8. RunType'
  <2>1. lease' \in [Branches -> 0..MaxLeases] /\ issued' \in 0..MaxLeases
    BY <1>3, <1>5 DEF IInv, RunType
  <2> QED BY <1>3, <1>4, <1>6, <2>1 DEF IInv, RunType
<1>9. (L.children = Leased /\ L.children \cap L.reports = {} /\ OneChild)'
  <2>1. Leased' = {b}
    BY <1>2, <1>3, <1>5 DEF Leased, IInv, Linked, RunType
  <2> QED BY <1>1, <1>2, <1>4, <2>1 DEF OneChild
<1>10. (KidsPaid /\ KidsApart /\ LeaseIds)'
  <2>1. k.branch = b /\ k.lease = issued + 1
    BY DEF k
  <2>2. lease'[b] = issued + 1 /\ \A c \in Branches : lease'[c] = IF c = b THEN issued + 1 ELSE lease[c]
    BY <1>3 DEF IInv, RunType
  <2>3. KidsPaid' /\ KidsApart'
    BY <1>3, <1>7, <2>1, <2>2 DEF KidsPaid, KidsApart, Live
  <2>4. LeaseIds'
    BY <1>3, <1>7, <2>1, <2>2 DEF LeaseIds, IInv, Linked, RunType
  <2> QED BY <2>3, <2>4
<1>11. (Owned /\ AtRest)'
  BY <1>1, <1>2, <1>3, <1>4 DEF IInv, Linked, Owned, AtRest
<1>12. ((phase = "settled" \/ settled) => L.status = "settled")' /\ (settled => GraphSettles(st, receipt))'
  BY <1>1, <1>2, <1>3, <1>4 DEF IInv, Linked, GraphSettles
<1>13. Linked'
  BY <1>9, <1>10, <1>11, <1>12 DEF Linked
<1> QED BY <1>1, <1>4, <1>8, <1>13 DEF IInv

(* Leases that are taken away, by whatever means: the children that held   *)
(* them are charged, or are gone from memory with their lease.             *)
LEMMA Unleased ==
  ASSUME IInv, NEW bs \in SUBSET Branches, LedgerType(L'), L'.ops = L.ops, RunType',
         L'.children = L.children \ bs, L'.reports \subseteq L.reports \cup (bs \cap L.children), L.reports \subseteq L'.reports,
         lease' = [b \in Branches |-> IF b \in bs THEN 0 ELSE lease[b]],
         kids' \subseteq kids, issued' = issued,
         \A k \in kids' : Live(k) /\ k.branch \in bs => k.branch \in L'.reports,
         UNCHANGED proc, running' \subseteq running,
         AtRest', settled' => GraphSettles(st', receipt'),
         (phase' = "settled" \/ settled') => L'.status = "settled"
  PROVE  IInv'
<1>1. (L.children = Leased /\ L.children \cap L.reports = {} /\ OneChild)'
  BY DEF IInv, Linked, Leased, OneChild, RunType
<1>2. KidsPaid'
  BY DEF IInv, Linked, KidsPaid, Live, RunType, Kids
<1>3. KidsApart'
  BY DEF IInv, Linked, KidsApart
<1>4. LeaseIds'
  BY DEF IInv, Linked, LeaseIds, RunType
<1>5. Owned'
  BY DEF IInv, Linked, Owned
<1>6. Linked'
  BY <1>1, <1>2, <1>3, <1>4, <1>5 DEF Linked, GraphSettles
<1> QED BY <1>6 DEF IInv

LEMMA ReleaseStep == ASSUME IInv, NEW k \in kids, ReleaseLease(k) PROVE IInv'
<1> DEFINE b == k.branch
           l == ReleaseChild(L, b)
<1>1. k \in Kids /\ b \in Branches /\ k.lease # 0
  BY DEF IInv, RunType, Kids
<1>2. kids' = kids \ {k} /\ UNCHANGED <<window, ext, st, spent, receipt, settled, issued, proc, running, late>>
  BY DEF ReleaseLease
<1>3. LedgerType(l) /\ l.status = L.status /\ l.ops = L.ops /\ l.children = L.children \ {b} /\ l.reports = L.reports
  BY <1>1, ReleaseChildType DEF IInv
<1>4. CASE Live(k) /\ phase # "settled"
  <2>1. Commit(l) /\ lease' = [lease EXCEPT ![b] = 0]
    BY <1>4 DEF ReleaseLease
  <2>2. L.children # {}
    BY <1>1, <1>4 DEF IInv, Linked, Leased, Live
  <2>3. L.status # "settled" /\ ~settled
    BY <2>2 DEF IInv, Linked, AtRest
  <2> HIDE DEF l
  <2>4. L' = l /\ phase' \in Phases /\ (phase' = "settled" => l.status = "settled")
    BY <1>3, <2>1, CommitPhase DEF IInv, Linked
  <2>5. lease' = [c \in Branches |-> IF c \in {b} THEN 0 ELSE lease[c]]
    BY <2>1 DEF IInv, RunType
  <2>6. RunType'
    <3>1. lease' \in [Branches -> 0..MaxLeases]
      BY <2>5, Bounds DEF IInv, RunType
    <3> QED BY <1>2, <2>4, <3>1 DEF IInv, RunType
  <2>7. \A j \in kids' : ~(Live(j) /\ j.branch \in {b})
    BY <1>2, <1>4 DEF IInv, Linked, KidsApart, Live
  <2>8. AtRest' /\ ~settled' /\ phase' # "settled"
    BY <1>2, <1>3, <2>3, <2>4 DEF AtRest
  <2>9. {b} \in SUBSET Branches
    BY <1>1
  <2> HIDE DEF b
  <2> QED BY <1>2, <1>3, <2>4, <2>5, <2>6, <2>7, <2>8, <2>9, Unleased
<1>5. CASE ~(Live(k) /\ phase # "settled")
  <2>1. UNCHANGED <<phase, L, lease>>
    BY <1>5 DEF ReleaseLease
  <2>2. RunType' /\ LedgerType(L')
    BY <1>2, <2>1 DEF IInv, RunType
  <2>3. Linked'
    BY <1>2, <2>1 DEF IInv, Linked, Leased, OneChild, KidsPaid, KidsApart, LeaseIds, Owned, AtRest, InFlight, Live, GraphSettles
  <2> QED BY <2>2, <2>3 DEF IInv
<1> QED BY <1>4, <1>5

(* The two ways a child's result closes its lease.                         *)
LEMMA ChildStep == ASSUME IInv, NEW k \in kids, ChildResult(k) PROVE IInv'
<1> DEFINE b == k.branch
<1>1. k \in Kids /\ b \in Branches /\ k.lease # 0
  BY DEF IInv, RunType, Kids
<1>2. kids' = kids \ {k} /\ UNCHANGED <<window, ext, proc, running, late>>
  BY DEF ChildResult
<1>3. CASE Live(k) /\ ~settled /\ st[b] = "open"
  <2>1. b \in L.children
    BY <1>1, <1>3 DEF IInv, Linked, Leased, Live
  <2>2. L.status # "settled"
    BY <2>1 DEF IInv, Linked, AtRest
  <2>3. PICK failed \in BOOLEAN, status \in Terminal, used \in {Zero, Share} :
          /\ CloseLease(b, status) /\ Commit(MergeChild(L, b, used, failed))
          /\ spent' \in {spent, spent \cup {b}}
          /\ receipt' \in {receipt, [receipt EXCEPT ![b] = "complete"], [receipt EXCEPT ![b] = "partial"]}
    <3>1. CASE \E status \in Terminal, used \in {Zero, Share} : MergeReport(b, status, used)
      <4>1. PICK status \in Terminal, used \in {Zero, Share} : MergeReport(b, status, used)
        BY <3>1
      <4>2. (status = "blocked") \in BOOLEAN
        OBVIOUS
      <4>3. CloseLease(b, status) /\ Commit(MergeChild(L, b, used, status = "blocked"))
        BY <4>1 DEF MergeReport
      <4>4. spent' \in {spent, spent \cup {b}}
        BY <4>1 DEF MergeReport
      <4>5. receipt' \in {receipt, [receipt EXCEPT ![b] = "complete"], [receipt EXCEPT ![b] = "partial"]}
        BY <4>1 DEF MergeReport
      <4> QED BY <4>2, <4>3, <4>4, <4>5
    <3>2. CASE \E failure \in Failures : MergeFailure(b, failure)
      <4>1. PICK failure \in Failures : MergeFailure(b, failure)
        BY <3>2
      <4>2. CloseLease(b, "blocked") /\ Commit(MergeChild(L, b, Zero, TRUE))
        BY <4>1 DEF MergeFailure
      <4>3. spent' \in {spent, spent \cup {b}} /\ receipt' = receipt /\ "blocked" \in Terminal
        BY <4>1 DEF MergeFailure, Terminal
      <4>4. TRUE \in BOOLEAN
        OBVIOUS
      <4> QED BY <4>2, <4>3, <4>4
    <3> QED BY <1>3, <3>1, <3>2 DEF ChildResult
  <2> DEFINE l == MergeChild(L, b, used, failed)
  <2>4. LedgerType(l) /\ l.status # "settled" /\ l.ops = L.ops
        /\ l.children = L.children \ {b} /\ l.reports = L.reports \cup {b}
    BY <2>1, <2>2, MergeType DEF IInv
  <2>5. Commit(l)
    BY <2>3
  <2> HIDE DEF l
  <2>6. L' = l /\ phase' \in Phases /\ phase' # "settled"
    BY <2>2, <2>4, <2>5, CommitPhase DEF IInv, Linked
  <2>7. lease' = [c \in Branches |-> IF c \in {b} THEN 0 ELSE lease[c]] /\ st' = [st EXCEPT ![b] = status]
        /\ UNCHANGED <<settled, issued>>
    BY <2>3 DEF CloseLease, IInv, RunType
  <2>8. RunType'
    <3>0. 0 \in 0..MaxLeases
      BY Bounds
    <3>1. lease' \in [Branches -> 0..MaxLeases] /\ st' \in [Branches -> {"open"} \cup Terminal]
      BY <1>1, <2>7, <3>0 DEF IInv, RunType
    <3>2. receipt' \in [Branches -> {"none", "partial", "complete"}] /\ spent' \subseteq Branches
      BY <1>1, <2>3 DEF IInv, RunType
    <3> QED BY <1>2, <2>6, <2>7, <3>1, <3>2 DEF IInv, RunType
  <2>9. AtRest' /\ ~settled' /\ phase' # "settled" /\ {b} \in SUBSET Branches
    BY <1>1, <1>3, <2>4, <2>6, <2>7 DEF AtRest
  <2> HIDE DEF b
  <2> QED BY <1>2, <2>1, <2>4, <2>6, <2>7, <2>8, <2>9, Unleased
<1>4. CASE ~(Live(k) /\ ~settled /\ st[b] = "open")
  <2>1. UNCHANGED <<phase, L, graph>>
    BY <1>4 DEF ChildResult
  <2>2. RunType' /\ LedgerType(L')
    BY <1>2, <2>1 DEF IInv, RunType, graph
  <2>3. Linked'
    BY <1>2, <2>1 DEF graph, IInv, Linked, Leased, OneChild, KidsPaid, KidsApart, LeaseIds, Owned, AtRest, InFlight, Live, GraphSettles
  <2> QED BY <2>2, <2>3 DEF IInv
<1> QED BY <1>3, <1>4

(* Launching a child, and losing one from memory.                          *)
LEMMA LaunchStep == ASSUME IInv, NEW k \in kids, Launch(k) PROVE IInv'
<1> DEFINE n == [k EXCEPT !.at = "launched"]
<1>1. k \in Kids /\ kids' = (kids \ {k}) \cup {n} /\ UNCHANGED <<phase, window, ext, L, graph, proc, running, late>>
  BY DEF Launch, IInv, RunType
<1>2. n \in Kids /\ n.branch = k.branch /\ n.lease = k.lease
  BY <1>1 DEF Kids
<1> HIDE DEF n
<1>3. RunType' /\ LedgerType(L')
  BY <1>1, <1>2 DEF IInv, RunType, graph
<1>4. (KidsPaid /\ KidsApart /\ LeaseIds)'
  BY <1>1, <1>2 DEF graph, IInv, Linked, KidsPaid, KidsApart, LeaseIds, Live
<1>5. Linked'
  BY <1>1, <1>4 DEF graph, IInv, Linked, Leased, OneChild, Owned, AtRest, InFlight, GraphSettles
<1> QED BY <1>3, <1>5 DEF IInv

LEMMA FewerStep ==
  ASSUME IInv, UNCHANGED <<phase, window, ext, L, graph>>, kids' \subseteq kids, running' \subseteq running,
         late' \subseteq late, proc' \in [Procs -> {"new", "starting", "up", "dead"}],
         \A o \in running' : proc'[L.ops[o].owner] # "dead"
  PROVE  IInv'
<1>1. RunType' /\ LedgerType(L')
  BY DEF IInv, RunType, graph
<1>2. Linked'
  BY DEF graph, IInv, Linked, Leased, OneChild, KidsPaid, KidsApart, LeaseIds, Owned, AtRest, InFlight, Live, GraphSettles
<1> QED BY <1>1, <1>2 DEF IInv

LEMMA KidLostStep == ASSUME IInv, NEW k \in kids, KidLost(k) PROVE IInv'
<1>1. UNCHANGED <<phase, window, ext, L, graph, proc, running, late>> /\ kids' \subseteq kids
  BY DEF KidLost
<1>2. proc' \in [Procs -> {"new", "starting", "up", "dead"}] /\ \A o \in running : proc[L.ops[o].owner] # "dead"
  BY <1>1 DEF IInv, RunType, Linked, Owned
<1> QED BY <1>1, <1>2, FewerStep

LEMMA DieStep == ASSUME IInv, NEW p \in Procs, Die(p) PROVE IInv'
<1>1. /\ UNCHANGED <<phase, window, ext, L, graph>> /\ proc' = [proc EXCEPT ![p] = "dead"]
      /\ running' = {o \in running : L.ops[o].owner # p} /\ kids' \subseteq kids /\ late' \subseteq late
  BY DEF Die
<1>2. proc' \in [Procs -> {"new", "starting", "up", "dead"}] /\ running' \subseteq running
  BY <1>1 DEF IInv, RunType
<1>3. \A o \in running' : proc'[L.ops[o].owner] # "dead"
  <2>1. \A o \in running : proc[L.ops[o].owner] # "dead" /\ L.ops[o].owner \in Procs
    BY DEF IInv, Linked, Owned, RunType, LedgerType, Operations, OpenOps, Calling, Unused, Done
  <2> QED BY <1>1, <2>1 DEF IInv, RunType
<1> QED BY <1>1, <1>2, <1>3, FewerStep

-----------------------------------------------------------------------------
(* Leases that are interrupted charge their children.                      *)
LEMMA InterruptStep ==
  ASSUME IInv, NEW bs \in SUBSET Branches, Commit(Interrupt(L, bs)),
         lease' = [b \in Branches |-> IF b \in bs THEN 0 ELSE lease[b]],
         st' \in [Branches -> {"open"} \cup Terminal], spent' \subseteq Branches,
         proc' = proc \/ \E p \in Procs : proc' = [proc EXCEPT ![p] = "starting"] /\ proc[p] # "dead",
         UNCHANGED <<window, ext, receipt, settled, issued, running, late, kids>>,
         settled => st' = st
  PROVE  IInv'
<1> DEFINE l == Interrupt(L, bs)
<1>1. L.status = "settled" => L.children = {}
  BY DEF IInv, Linked, AtRest
<1>2. /\ LedgerType(l) /\ l.ops = L.ops /\ l.children = L.children \ bs
      /\ l.reports = L.reports \cup (bs \cap L.children)
      /\ l.status = "settled" <=> L.status = "settled"
      /\ L.status = "settled" => l = L
  BY <1>1, InterruptType DEF IInv
<1>3. Commit(l)
  OBVIOUS
<1> HIDE DEF l
<1>4. L' = l /\ phase' \in Phases /\ (phase' = "settled" => l.status = "settled")
  BY <1>2, <1>3, CommitPhase DEF IInv, Linked
<1>5. proc' \in [Procs -> {"new", "starting", "up", "dead"}] /\ \A p \in Procs : proc[p] # "dead" => proc'[p] # "dead"
  BY DEF IInv, RunType
<1>6. RunType'
  <2>1. 0 \in 0..MaxLeases
    BY Bounds
  <2>2. lease' \in [Branches -> 0..MaxLeases]
    BY <2>1 DEF IInv, RunType
  <2> QED BY <1>4, <1>5, <2>2 DEF IInv, RunType
<1>7. (L.children = Leased /\ L.children \cap L.reports = {} /\ OneChild)'
  BY <1>2, <1>4 DEF IInv, Linked, Leased, OneChild, RunType
<1>8. (KidsPaid /\ KidsApart /\ LeaseIds)'
  <2>1. \A k \in kids : k.branch \in Branches /\ k.lease # 0
    BY DEF IInv, RunType, Kids
  <2>2. \A k \in kids : Live(k) => k.branch \in L.children
    BY <2>1 DEF IInv, Linked, Leased, Live
  <2>3. KidsPaid'
    BY <1>2, <1>4, <2>1, <2>2 DEF IInv, Linked, KidsPaid, Live
  <2>4. KidsApart' /\ LeaseIds'
    BY DEF IInv, Linked, KidsApart, LeaseIds, RunType
  <2> QED BY <2>3, <2>4
<1>9. Owned'
  <2>1. \A o \in running : L.ops[o].owner \in Procs
    BY DEF IInv, Linked, Owned, RunType, LedgerType, Operations, OpenOps, Calling, Unused, Done
  <2> QED BY <1>2, <1>4, <1>5, <2>1 DEF IInv, Linked, Owned
<1>10. AtRest' /\ ((phase = "settled" \/ settled) => L.status = "settled")'
  BY <1>2, <1>4 DEF IInv, Linked, AtRest, InFlight
<1>11. (settled => GraphSettles(st, receipt))'
  BY DEF IInv, Linked, GraphSettles
<1>12. Linked'
  BY <1>7, <1>8, <1>9, <1>10, <1>11 DEF Linked
<1> QED BY <1>2, <1>4, <1>6, <1>12 DEF IInv

LEMMA CloseStep ==
  ASSUME IInv, NEW p \in Procs, NEW b \in Branches, NEW s \in Terminal, CloseBranch(p, b, s) PROVE IInv'
<1> DEFINE bs == {b} \cap Leased
<1>1. /\ ~settled /\ Commit(Interrupt(L, bs)) /\ st' = [st EXCEPT ![b] = s] /\ lease' = [lease EXCEPT ![b] = 0]
      /\ UNCHANGED <<window, ext, spent, receipt, settled, issued, proc, running, late, kids>>
  BY DEF CloseBranch, local
<1>2. bs \in SUBSET Branches /\ lease' = [c \in Branches |-> IF c \in bs THEN 0 ELSE lease[c]]
  BY <1>1 DEF Leased, IInv, RunType
<1>3. st' \in [Branches -> {"open"} \cup Terminal] /\ spent' \subseteq Branches
  BY <1>1 DEF IInv, RunType
<1> HIDE DEF bs
<1> QED BY <1>1, <1>2, <1>3, InterruptStep

LEMMA SessionStep == ASSUME IInv, NEW p \in Procs, SessionStart(p) PROVE IInv'
<1> DEFINE bs == {b \in Leased : st[b] = "open"}
<1>1. /\ Commit(Interrupt(L, bs)) /\ st' = [b \in Branches |-> IF b \in bs THEN "blocked" ELSE st[b]]
      /\ lease' = [b \in Branches |-> IF b \in bs THEN 0 ELSE lease[b]] /\ spent' = spent \cup bs
      /\ proc[p] # "dead" /\ proc' = [proc EXCEPT ![p] = "starting"]
      /\ UNCHANGED <<window, ext, receipt, settled, issued, running, late, kids>>
  BY DEF SessionStart
<1>2. bs \in SUBSET Branches
  BY DEF Leased
<1>3. st' \in [Branches -> {"open"} \cup Terminal] /\ spent' \subseteq Branches
  BY <1>1, <1>2 DEF IInv, RunType, Terminal
<1>4. settled => st' = st
  <2>1. settled => Leased = {}
    BY DEF IInv, Linked, AtRest
  <2> QED BY <1>1, <2>1 DEF IInv, RunType
<1> HIDE DEF bs
<1> QED BY <1>1, <1>2, <1>3, <1>4, InterruptStep

(* Opening and closing branches that have no child.                        *)
LEMMA GraphStep ==
  ASSUME IInv, ~settled, UNCHANGED <<phase, window, ext, L, lease, settled, issued, local>>,
         st' \in [Branches -> {"open"} \cup Terminal], receipt' \in [Branches -> {"none", "partial", "complete"}],
         spent' \subseteq Branches
  PROVE  IInv'
<1>1. RunType' /\ LedgerType(L')
  BY DEF IInv, RunType, local
<1>2. Linked'
  BY DEF local, IInv, Linked, Leased, OneChild, KidsPaid, KidsApart, LeaseIds, Owned, AtRest, InFlight, Live
<1> QED BY <1>1, <1>2 DEF IInv

LEMMA ReopenStep == ASSUME IInv, NEW p \in Procs, NEW b \in Branches, ReopenBranch(p, b) PROVE IInv'
<1>1. ~settled /\ UNCHANGED <<phase, window, ext, L, lease, settled, issued, local>> /\ spent' = spent
      /\ st' = [st EXCEPT ![b] = "open"] /\ receipt' = [receipt EXCEPT ![b] = "none"]
  BY DEF ReopenBranch
<1>2. st' \in [Branches -> {"open"} \cup Terminal] /\ receipt' \in [Branches -> {"none", "partial", "complete"}]
      /\ spent' \subseteq Branches
  BY <1>1 DEF IInv, RunType
<1> QED BY <1>1, <1>2, GraphStep

LEMMA EndStep == ASSUME IInv, NEW p \in Procs, NEW bs \in SUBSET Branches, AgentEnd(p, bs) PROVE IInv'
<1>1. ~settled /\ UNCHANGED <<phase, window, ext, L, lease, settled, issued, local>> /\ receipt' = receipt
      /\ st' = [b \in Branches |-> IF b \in bs THEN "blocked" ELSE st[b]] /\ spent' = spent \cup bs
  BY DEF AgentEnd
<1>2. st' \in [Branches -> {"open"} \cup Terminal] /\ receipt' \in [Branches -> {"none", "partial", "complete"}]
      /\ spent' \subseteq Branches
  BY <1>1 DEF IInv, RunType, Terminal
<1> QED BY <1>1, <1>2, GraphStep

-----------------------------------------------------------------------------
(* Settlement.                                                             *)
LEMMA SettleStep == ASSUME IInv, NEW p \in Procs, SettleRound(p) \/ PlanSettle(p) \/ Finish(p) PROVE IInv'
<1>1. CASE SettleRound(p)
  <2> DEFINE l == Settle(L)
  <2>1. Commit(l) /\ UNCHANGED <<window, ext, graph, local>> /\ L.covered = Claims /\ L.conflicts = {}
        /\ L.children = {} /\ InFlight(L) = {}
    BY <1>1 DEF SettleRound, MaySettle
  <2>2. LedgerType(l) /\ l.status = "settled" /\ l.ops = L.ops /\ SameChildren(L, l)
        /\ l.covered = L.covered /\ l.conflicts = L.conflicts
    BY SettleType DEF IInv
  <2> HIDE DEF l
  <2>3. L' = l /\ phase' \in Phases
    BY <2>1, <2>2, CommitPhase DEF IInv, Linked
  <2>4. RunType'
    BY <2>1, <2>3 DEF IInv, RunType, graph, local
  <2>5. Owned' /\ AtRest'
    BY <2>1, <2>2, <2>3 DEF IInv, Linked, Owned, AtRest, InFlight, SameChildren, local
  <2>6. Linked'
    BY <2>1, <2>2, <2>3, <2>5, Quiet DEF local
  <2> QED BY <2>2, <2>3, <2>4, <2>6 DEF IInv
<1>2. CASE PlanSettle(p)
  <2>1. settled' /\ phase' = "settled" /\ L.status = "settled" /\ GraphSettles(st, receipt)
        /\ UNCHANGED <<window, ext, L, st, lease, spent, receipt, issued, proc, running, late, kids>>
    BY <1>2 DEF PlanSettle, local
  <2>2. settled' \in BOOLEAN
    BY <1>2 DEF PlanSettle
  <2>3. RunType' /\ LedgerType(L')
    BY <2>1, <2>2 DEF IInv, RunType, Phases
  <2>4. Linked'
    BY <2>1 DEF IInv, Linked, Leased, OneChild, KidsPaid, KidsApart, LeaseIds, Owned, AtRest, InFlight, Live, GraphSettles
  <2> QED BY <2>3, <2>4 DEF IInv
<1>3. CASE Finish(p)
  <2>1. /\ L.covered = Claims /\ L.conflicts = {} /\ L.children = {} /\ InFlight(L) = {}
        /\ L' = Settle(L) /\ phase' = "settled"
        /\ UNCHANGED <<window, ext, lease, spent, issued, proc, running, late, kids>>
    BY <1>3 DEF Finish, MaySettle, local
  <2>2. GraphSettles(st', receipt')
    BY <1>3 DEF Finish
  <2>3. st' \in [Branches -> {"open"} \cup Terminal] /\ receipt' \in [Branches -> {"none", "partial", "complete"}]
    BY <1>3 DEF Finish, IInv, RunType, Terminal
  <2>4. settled' \in BOOLEAN
    BY <1>3 DEF Finish
  <2>5. LedgerType(L') /\ L'.status = "settled" /\ L'.ops = L.ops /\ SameChildren(L, L')
        /\ L'.covered = L.covered /\ L'.conflicts = L.conflicts
    BY <2>1, SettleType DEF IInv
  <2>6. RunType'
    BY <2>1, <2>3, <2>4 DEF IInv, RunType, Phases
  <2>7. (KidsPaid /\ KidsApart /\ LeaseIds)'
    BY <2>1, <2>5 DEF SameChildren, IInv, Linked, KidsPaid, KidsApart, LeaseIds, Live
  <2>8. (L.children = Leased /\ L.children \cap L.reports = {} /\ OneChild /\ Owned /\ AtRest)'
    BY <2>1, <2>5 DEF SameChildren, IInv, Linked, Leased, OneChild, Owned, AtRest, InFlight
  <2>9. Linked'
    BY <2>2, <2>5, <2>7, <2>8 DEF Linked, GraphSettles
  <2> QED BY <2>5, <2>6, <2>9 DEF IInv
<1> QED BY <1>1, <1>2, <1>3

-----------------------------------------------------------------------------
LEMMA IInvStep == IInv /\ [Next]_vars => IInv'
<1> SUFFICES ASSUME IInv, [Next]_vars PROVE IInv'
  OBVIOUS
<1>1. CASE UNCHANGED vars
  <2>1. UNCHANGED <<phase, window, ext, L, graph, proc, running, late, kids>>
    BY <1>1 DEF vars, local
  <2>2. proc' \in [Procs -> {"new", "starting", "up", "dead"}] /\ \A o \in running' : proc'[L.ops[o].owner] # "dead"
    BY <2>1 DEF IInv, RunType, Linked, Owned
  <2> QED BY <2>1, <2>2, FewerStep
<1>2. CASE Tick \/ \E p \in Procs : Deadlines(p)
  BY <1>2, DeadlineStep
<1>3. ASSUME NEW p \in Procs, Retrieval(p) PROVE IInv'
  <2>1. CASE \E n \in Notes : NoteCard(p, n)
    BY <2>1, NoteStep
  <2>2. CASE \E o \in Ops, r \in Requests : AuthorizeCall(p, o, r[1], r[2])
    <3>1. PICK o \in Ops, r \in Requests : AuthorizeCall(p, o, r[1], r[2])
      BY <2>2
    <3> DEFINE kind == r[1]
               request == r[2]
    <3>2. kind \in {"searches", "reads"} /\ request \in SUBSET Wanted(kind) /\ AuthorizeCall(p, o, kind, request)
      BY <3>1 DEF Requests, Wanted
    <3> HIDE DEF kind, request
    <3> QED BY <3>2, AuthorizeStep
  <2> QED BY <1>3, <2>1, <2>2 DEF Retrieval
<1>4. ASSUME NEW p \in Procs, Recording(p) PROVE IInv'
  BY <1>4, RecordStep
<1>5. ASSUME NEW p \in Procs, GraphWork(p) PROVE IInv'
  BY <1>5, AcquireStep, ReopenStep, CloseStep DEF GraphWork
<1>6. ASSUME NEW p \in Procs, Closing(p) PROVE IInv'
  BY <1>6, SettleStep, EndStep DEF Closing
<1>7. ASSUME NEW p \in Procs, Sessions(p) PROVE IInv'
  BY <1>7, SessionStep, RecoverStep, DieStep DEF Sessions
<1>8. ASSUME NEW o \in Ops, Calls(o) PROVE IInv'
  BY <1>8, OutcomeStep, LostStep DEF Calls
<1>9. ASSUME NEW k \in kids, Children(k) PROVE IInv'
  BY <1>9, LaunchStep, ReleaseStep, ChildStep, KidLostStep DEF Children
<1> QED BY <1>1, <1>2, <1>3, <1>4, <1>5, <1>6, <1>7, <1>8, <1>9 DEF Next

(* The invariant holds in every reachable state.                           *)
THEOREM RunInvariant == Spec => []IInv
<1>1. Init => IInv
  BY InitOk
<1>2. IInv /\ [Next]_vars => IInv'
  BY IInvStep
<1> QED BY <1>1, <1>2, PTL DEF Spec

(* What the aggregate and the processes keep has the values the code gives *)
(* it, for every size of run and every budget.                             *)
THEOREM TypeCorrect == Spec => []TypeOK
<1>1. IInv => TypeOK
  BY TypeParts DEF IInv
<1> QED BY <1>1, RunInvariant, PTL

(* No child runs unpaid and none reports twice; no call under way is taken *)
(* for abandoned.                                                          *)
THEOREM LeaseBackedAlways == Spec => []LeaseBacked
<1>1. IInv => LeaseBacked
  BY DEF IInv, Linked, RunType, OneChild, KidsPaid, Owned, LeaseBacked, InFlight
<1> QED BY <1>1, RunInvariant, PTL

(* A settled ledger has no call and no child under way, and a settled      *)
(* graph satisfies settleErrors.                                           *)
THEOREM SettledAtRestAlways == Spec => []SettledAtRest
<1>1. IInv => SettledAtRest
  <2>1. IInv /\ L.status = "settled" => running = {}
    BY DEF IInv, Linked, RunType, Owned, AtRest, InFlight
  <2> QED BY <2>1 DEF IInv, Linked, AtRest, SettledAtRest
<1> QED BY <1>1, RunInvariant, PTL

-----------------------------------------------------------------------------
(* Which step could change a settled ledger: every one of them is refused  *)
(* or finds nothing to do.                                                 *)
LEMMA SettledStep == IInv /\ [Next]_vars => (L.status = "settled" => L' = L)
<1> SUFFICES ASSUME IInv, [Next]_vars, L.status = "settled" PROVE L' = L
  OBVIOUS
<1>1. /\ InFlight(L) = {} /\ L.children = {} /\ Leased = {} /\ running = {} /\ LedgerType(L)
      /\ \A k \in kids : ~Live(k) /\ k.branch \in Branches
  BY DEF IInv, Linked, AtRest, Owned, InFlight, Leased, Live, RunType, Kids
<1>2. \A l : Commit(l) /\ l = L => L' = L
  BY DEF Commit
<1>3. CASE UNCHANGED vars
  BY <1>3 DEF vars
<1>4. CASE Tick \/ \E p \in Procs : Deadlines(p)
  BY <1>4 DEF Tick, Deadlines, TimerExpire, DeadlineSeen, LateExpire, Extend, Cancel
<1>5. ASSUME NEW p \in Procs, Retrieval(p) \/ Recording(p) PROVE L' = L
  BY <1>5 DEF Retrieval, Recording, AuthorizeCall, MayAuthorize, NoteCard, RecordRound
<1>6. ASSUME NEW p \in Procs, GraphWork(p) PROVE L' = L
  <2>1. CASE \E b \in Branches : AcquireLease(p, b) \/ ReopenBranch(p, b)
    BY <2>1 DEF AcquireLease, MayReserveChild, ReopenBranch
  <2>2. ASSUME NEW b \in Branches, NEW s \in Terminal, CloseBranch(p, b, s) PROVE L' = L
    <3>1. Interrupt(L, {b} \cap Leased) = L
      BY <1>1, InterruptType
    <3> QED BY <1>2, <2>2, <3>1 DEF CloseBranch
  <2> QED BY <1>6, <2>1, <2>2 DEF GraphWork
<1>7. ASSUME NEW p \in Procs, Closing(p) PROVE L' = L
  <2>1. Settle(L) = L
    BY <1>1, SettleType
  <2> QED BY <1>7, <2>1 DEF Closing, SettleRound, PlanSettle, Finish, AgentEnd
<1>8. ASSUME NEW p \in Procs, Sessions(p) PROVE L' = L
  <2>1. Interrupt(L, {b \in Leased : st[b] = "open"}) = L
    BY <1>1, InterruptType
  <2>2. RecoverAbandoned(L, Dead) = L
    BY <1>1, RecoverType
  <2> QED BY <1>2, <1>8, <2>1, <2>2 DEF Sessions, SessionStart, Recover, Die
<1>9. ASSUME NEW o \in Ops, Calls(o) PROVE L' = L
  BY <1>1, <1>9 DEF Calls, Outcome, ReceiptLost
<1>10. ASSUME NEW k \in kids, Children(k) PROVE L' = L
  BY <1>1, <1>10 DEF Children, Launch, ReleaseLease, ChildResult, KidLost
<1> QED BY <1>3, <1>4, <1>5, <1>6, <1>7, <1>8, <1>9, <1>10 DEF Next

(* No late answer, late report, recovery or restart changes the evidence   *)
(* of a settled run.                                                       *)
THEOREM EvidenceFrozenAlways == Spec => EvidenceFrozen
<1>1. IInv /\ [Next]_vars => [L.status = "settled" => L' = L]_vars
  BY SettledStep
<1> QED BY <1>1, RunInvariant, PTL DEF Spec, EvidenceFrozen

-----------------------------------------------------------------------------
(* A commit leaves a run that stopped stopped.                             *)
LEMMA CommitStops == ASSUME NEW l, Commit(l), phase # "active" PROVE phase' # "active"
  BY DEF Commit, NextPhase

LEMMA ResumeStep == [Next]_vars => (phase # "active" /\ phase' = "active" => ext' = ext + 1 /\ window' = "discovery")
<1> SUFFICES ASSUME [Next]_vars, phase # "active", phase' = "active" PROVE ext' = ext + 1 /\ window' = "discovery"
  OBVIOUS
<1>1. \A l : ~Commit(l)
  BY CommitStops
<1>2. CASE UNCHANGED vars
  BY <1>2 DEF vars
<1>3. CASE Tick \/ \E p \in Procs : Deadlines(p)
  BY <1>3 DEF Tick, Deadlines, TimerExpire, DeadlineSeen, LateExpire, Extend, Cancel
<1>4. ASSUME NEW p \in Procs, Retrieval(p) \/ Recording(p) PROVE FALSE
  BY <1>4 DEF Retrieval, Recording, AuthorizeCall, NoteCard, RecordRound
<1>5. ASSUME NEW p \in Procs, GraphWork(p) PROVE FALSE
  BY <1>5 DEF GraphWork, AcquireLease, ReopenBranch, CloseBranch
<1>6. ASSUME NEW p \in Procs, Closing(p) PROVE FALSE
  BY <1>1, <1>6 DEF Closing, SettleRound, PlanSettle, Finish, AgentEnd
<1>7. ASSUME NEW p \in Procs, Sessions(p) PROVE FALSE
  BY <1>1, <1>7 DEF Sessions, SessionStart, Recover, Die
<1>8. ASSUME NEW o \in Ops, Calls(o) PROVE FALSE
  BY <1>1, <1>8 DEF Calls, Outcome, ReceiptLost
<1>9. ASSUME NEW k \in kids, Children(k) PROVE FALSE
  BY <1>1, <1>9 DEF Children, Launch, ReleaseLease, ChildResult, KidLost, MergeReport, MergeFailure
<1> QED BY <1>2, <1>3, <1>4, <1>5, <1>6, <1>7, <1>8, <1>9 DEF Next

(* A run that stopped is resumed by /research-extend and by nothing else.  *)
THEOREM OnlyExtension == Spec => OnlyExtensionResumes
<1>1. [Next]_vars => [phase # "active" /\ phase' = "active" => ext' = ext + 1 /\ window' = "discovery"]_vars
  BY ResumeStep
<1> QED BY <1>1, PTL DEF Spec, OnlyExtensionResumes

(* Which process moves a settled run: only one that saw its deadline pass   *)
(* while it was active, and pauses it in a second step.  Its step reads     *)
(* nothing but its own memory: the run is settled and it is not looked at.  *)
LEMMA UnsettleStep ==
  ASSUME IInv, [Next]_vars, phase = "settled", phase' # "settled"
  PROVE  phase' = "awaiting_extension" /\ \E p \in late : LateExpire(p)
<1> DEFINE goal == phase' = "awaiting_extension" /\ \E p \in late : LateExpire(p)
<1>1. L.status = "settled" /\ L' = L
  BY SettledStep DEF IInv, Linked
<1>2. \A l : Commit(l) => phase' = "settled"
  BY <1>1 DEF Commit
<1>3. CASE UNCHANGED vars
  BY <1>3 DEF vars
<1>4. CASE Tick
  BY <1>4 DEF Tick
<1>5. ASSUME NEW p \in Procs, Deadlines(p) PROVE goal
  BY <1>5 DEF Deadlines, TimerExpire, DeadlineSeen, LateExpire, Extend, Cancel
<1>6. ASSUME NEW p \in Procs, Retrieval(p) \/ Recording(p) \/ GraphWork(p) PROVE FALSE
  <2>1. CASE Retrieval(p) \/ Recording(p)
    BY <2>1 DEF Retrieval, Recording, AuthorizeCall, NoteCard, RecordRound
  <2>2. CASE GraphWork(p)
    BY <2>2 DEF GraphWork, AcquireLease, ReopenBranch, CloseBranch
  <2> QED BY <1>6, <2>1, <2>2
<1>7. ASSUME NEW p \in Procs, Closing(p) PROVE FALSE
  BY <1>2, <1>7 DEF Closing, SettleRound, PlanSettle, Finish, AgentEnd
<1>8. ASSUME NEW p \in Procs, Sessions(p) PROVE FALSE
  BY <1>2, <1>8 DEF Sessions, SessionStart, Recover, Die
<1>9. ASSUME NEW o \in Ops, Calls(o) PROVE FALSE
  BY <1>2, <1>9 DEF Calls, Outcome, ReceiptLost
<1>10. ASSUME NEW k \in kids, Children(k) PROVE FALSE
  BY <1>2, <1>10 DEF Children, Launch, ReleaseLease, ChildResult, KidLost, MergeReport, MergeFailure
<1> QED BY <1>3, <1>4, <1>5, <1>6, <1>7, <1>8, <1>9, <1>10 DEF Next

(* The one way a settled run is taken back (SettledStaysSettled fails in    *)
(* this way and in no other): a pause that was decided before it settled.   *)
THEOREM OnlyLatePauseUnsettles ==
  Spec => [][phase = "settled" /\ phase' # "settled" =>
               phase' = "awaiting_extension" /\ \E p \in late : LateExpire(p)]_vars
<1>1. IInv /\ [Next]_vars => [phase = "settled" /\ phase' # "settled" =>
                                phase' = "awaiting_extension" /\ \E p \in late : LateExpire(p)]_vars
  BY UnsettleStep
<1> QED BY <1>1, RunInvariant, PTL DEF Spec

(* Two sessions that find the same process gone charge its calls once:      *)
(* whatever the ledger was, the second recovery finds nothing to do.        *)
THEOREM RecoveredOnce ==
  ASSUME NEW l, LedgerType(l), NEW dead
  PROVE  LET m == RecoverAbandoned(l, dead) IN RecoverAbandoned(m, dead) = m
<1> DEFINE m == RecoverAbandoned(l, dead)
<1>1. \A o \in Ops : m.ops[o] = IF o \in Abandoned(l, dead) THEN Done ELSE l.ops[o]
  BY RecoverType
<1> HIDE DEF m
<1>2. Abandoned(m, dead) = {}
  BY <1>1 DEF Abandoned, InFlight, Done
<1>3. RecoverAbandoned(m, dead) = m
  BY <1>2 DEF RecoverAbandoned
<1> QED BY <1>3 DEF m

-----------------------------------------------------------------------------
(* The budget.  Places are finite, and operations that have nothing to do   *)
(* with each other take places apart.                                       *)
LEMMA OpenOp ==
  ASSUME NEW l, LedgerType(l), NEW o \in InFlight(l)
  PROVE  /\ o \in Ops /\ l.ops[o].at = "open" /\ l.ops[o].unit \in Nat /\ l.ops[o].kind \in {"searches", "reads"}
         /\ l.ops[o].request \in SUBSET Wanted(l.ops[o].kind)
  BY DEF InFlight, LedgerType, Operations, OpenOps, Calling, Unused, Done

LEMMA UnitsOfOne ==
  ASSUME NEW l, NEW o, l.ops[o].unit \in Nat
  PROVE  IsFiniteSet({o} \X (1..l.ops[o].unit)) /\ Units(l, {o}) = l.ops[o].unit
<1> DEFINE u == l.ops[o].unit
<1>1. IsFiniteSet({o}) /\ Cardinality({o}) = 1
  BY FS_Singleton
<1>2. u \in Nat
  OBVIOUS
<1>3. Places(l, {o}) = {o} \X (1..u)
  BY DEF Places
<1> HIDE DEF u
<1> DEFINE P == {o} \X (1..u)
<1>4. IsFiniteSet(1..u) /\ Cardinality(1..u) = u
  BY <1>2, FS_Interval
<1>5. IsFiniteSet(P) /\ Cardinality(P) = Cardinality({o}) * Cardinality(1..u)
  BY <1>1, <1>4, FS_Product
<1>6. IsFiniteSet(P) /\ Cardinality(P) = u
  BY <1>1, <1>2, <1>4, <1>5
<1> QED BY <1>3, <1>6 DEF Units, u

LEMMA PlacesFinite ==
  ASSUME NEW l, LedgerType(l), NEW os \in SUBSET InFlight(l)
  PROVE  IsFiniteSet(Places(l, os)) /\ Units(l, os) \in Nat
<1> DEFINE f == [o \in os |-> {o} \X (1..l.ops[o].unit)]
           T == {{o} \X (1..l.ops[o].unit) : o \in os}
<1>1. IsFiniteSet(os)
  BY FiniteWork, FS_Subset DEF InFlight
<1>2. f \in Surjection(os, T)
  BY DEF Surjection
<1>3. IsFiniteSet(T)
  BY <1>1, <1>2, FS_Surjection
<1>4. \A t \in T : IsFiniteSet(t)
  BY OpenOp, UnitsOfOne
<1> HIDE DEF T
<1>5. IsFiniteSet(UNION T)
  BY <1>3, <1>4, FS_UNION
<1>6. IsFiniteSet(Places(l, os))
  BY <1>5 DEF T, Places
<1> QED BY <1>6, FS_CardinalityType DEF Units

LEMMA UnitsApart ==
  ASSUME NEW l, LedgerType(l), NEW A \in SUBSET InFlight(l), NEW B \in SUBSET InFlight(l), A \cap B = {}
  PROVE  Units(l, A \cup B) = Units(l, A) + Units(l, B)
<1>1. Places(l, A \cup B) = Places(l, A) \cup Places(l, B)
  BY DEF Places
<1>2. Places(l, A) \cap Places(l, B) = {}
  <2> SUFFICES ASSUME NEW x \in Places(l, A), x \in Places(l, B) PROVE FALSE
    OBVIOUS
  <2>1. PICK a \in A : x \in {a} \X (1..l.ops[a].unit)
    BY DEF Places
  <2>2. PICK b \in B : x \in {b} \X (1..l.ops[b].unit)
    BY DEF Places
  <2>3. x[1] = a /\ x[1] = b
    BY <2>1, <2>2
  <2> QED BY <2>3
<1>3. /\ IsFiniteSet(Places(l, A)) /\ IsFiniteSet(Places(l, B))
      /\ Cardinality(Places(l, A)) \in Nat /\ Cardinality(Places(l, B)) \in Nat
  BY PlacesFinite DEF Units
<1>4. Cardinality(Places(l, A) \cup Places(l, B)) = Cardinality(Places(l, A)) + Cardinality(Places(l, B)) - Cardinality({})
  BY <1>2, <1>3, FS_Union
<1>5. Cardinality({}) = 0
  BY FS_EmptySet
<1>6. Cardinality(Places(l, A) \cup Places(l, B)) = Cardinality(Places(l, A)) + Cardinality(Places(l, B))
  BY <1>3, <1>4, <1>5
<1> QED BY <1>1, <1>6 DEF Units

LEMMA UnitsSame ==
  ASSUME NEW l, NEW m, NEW os, \A o \in os : m.ops[o] = l.ops[o] PROVE Units(m, os) = Units(l, os)
<1>1. Places(m, os) = Places(l, os)
  BY DEF Places
<1> QED BY <1>1 DEF Units

LEMMA NoUnits == ASSUME NEW l PROVE Units(l, {}) = 0
<1>1. Places(l, {}) = {}
  BY DEF Places
<1> QED BY <1>1, FS_EmptySet DEF Units

-----------------------------------------------------------------------------
(* A ledger that balances: per kind, what is held and what was found, and   *)
(* no open search asks for more new queries than it reserved, so that its   *)
(* receipt and its recovery find the room.                                  *)
Open(l, k)  == OfKind(l, InFlight(l), k)
Held(l, k)  == Units(l, Open(l, k)) + Cardinality(l.children) * Share[k]
Found(l, k) == IF k = "searches" THEN Cardinality(l.queries)
               ELSE IF k = "reads" THEN Cardinality(l.read) + l.lostReads ELSE Cardinality(l.validated)

Sums(l, k) ==
  /\ l.childSpent[k] \in Nat
  /\ l.reserved[k] = Held(l, k)
  /\ l.consumed[k] = Found(l, k) + l.childSpent[k]
  /\ l.consumed[k] + l.reserved[k] <= Allocated[k]

Backed(l)   == \A o \in Open(l, "searches") : Cardinality(l.ops[o].request \ l.queries) <= l.ops[o].unit
OnlyOne(l)  == \A b, c \in l.children : b = c
Balanced(l) == LedgerType(l) /\ OnlyOne(l) /\ l.lostReads \in Nat /\ Backed(l) /\ \A k \in Kinds : Sums(l, k)

LEMMA Vectors ==
  ASSUME NEW k \in Kinds
  PROVE  /\ \A a, b : (a (+) b)[k] = a[k] + b[k] /\ (a (-) b)[k] = a[k] - b[k]
         /\ \A n : \A j \in Kinds : Only(j, n)[k] = IF k = j THEN n ELSE 0
         /\ Zero[k] = 0 /\ Share[k] \in Nat /\ Allocated[k] \in Nat
  BY Envelopes DEF Only, Zero, (+), (-)

LEMMA WorkIsFinite ==
  ASSUME NEW s, s \in SUBSET Queries \/ s \in SUBSET Urls PROVE IsFiniteSet(s) /\ Cardinality(s) \in Nat
<1>1. IsFiniteSet(s)
  BY FiniteWork, FS_Subset
<1> QED BY <1>1, FS_CardinalityType

\* What is added is counted once.
LEMMA CountAdded ==
  ASSUME NEW X, IsFiniteSet(X), NEW s \in SUBSET X, NEW t \in SUBSET X, s \cap t = {}
  PROVE  Cardinality(s \cup t) = Cardinality(s) + Cardinality(t)
<1>1. IsFiniteSet(s) /\ IsFiniteSet(t)
  BY FS_Subset
<1>2. Cardinality(s) \in Nat /\ Cardinality(t) \in Nat
  BY <1>1, FS_CardinalityType
<1>3. Cardinality(s \cup t) = Cardinality(s) + Cardinality(t) - Cardinality(s \cap t)
  BY <1>1, FS_Union
<1>4. Cardinality(s \cap t) = 0
  BY FS_EmptySet
<1> QED BY <1>2, <1>3, <1>4

LEMMA QueriesAdded ==
  \A s, t \in SUBSET Queries : s \cap t = {} => Cardinality(s \cup t) = Cardinality(s) + Cardinality(t)
  BY CountAdded, FiniteWork

LEMMA PagesAdded ==
  \A s, t \in SUBSET Urls : s \cap t = {} => Cardinality(s \cup t) = Cardinality(s) + Cardinality(t)
  BY CountAdded, FiniteWork

LEMMA ChildCount ==
  ASSUME NEW l, LedgerType(l), OnlyOne(l)
  PROVE  /\ l.children = {} => Cardinality(l.children) = 0
         /\ \A b \in l.children : l.children = {b} /\ Cardinality(l.children) = 1
<1>1. \A b \in l.children : l.children = {b}
  BY DEF OnlyOne
<1>2. \A b : Cardinality({b}) = 1
  BY FS_Singleton
<1> QED BY <1>1, <1>2, FS_EmptySet

LEMMA Numbers ==
  ASSUME NEW l, Balanced(l), NEW k \in Kinds
  PROVE  /\ Units(l, Open(l, k)) \in Nat /\ Found(l, k) \in Nat /\ Held(l, k) \in Nat
         /\ l.consumed[k] \in Nat /\ l.reserved[k] \in Nat /\ Room(l, k) \in Nat
         /\ Room(l, k) = Allocated[k] - (l.consumed[k] + l.reserved[k])
<1>1. Open(l, k) \in SUBSET InFlight(l) /\ LedgerType(l) /\ OnlyOne(l) /\ Sums(l, k) /\ l.lostReads \in Nat
  BY DEF Balanced, Open, OfKind
<1>2. Units(l, Open(l, k)) \in Nat
  BY <1>1, PlacesFinite
<1>3. Cardinality(l.children) \in {0, 1}
  BY <1>1, ChildCount
<1>4. Share[k] \in Nat /\ Allocated[k] \in Nat
  BY Vectors
<1>5. Held(l, k) \in Nat
  BY <1>2, <1>3, <1>4 DEF Held
<1>6. Found(l, k) \in Nat
  BY <1>1, WorkIsFinite DEF Found, LedgerType
<1> QED BY <1>1, <1>2, <1>4, <1>5, <1>6 DEF Sums, Room

-----------------------------------------------------------------------------
(* Each operation of the ledger keeps the balance.                          *)

\* What is found is paid out of the room, whatever kinds it is of.
LEMMA SpendBalance ==
  ASSUME NEW l, Balanced(l), NEW m, LedgerType(m), m.ops = l.ops, m.children = l.children,
         m.reserved = l.reserved, m.childSpent = l.childSpent, m.lostReads = l.lostReads,
         NEW qs \in SUBSET Queries, NEW rs \in SUBSET Urls, NEW vs \in SUBSET Urls,
         qs \cap l.queries = {}, rs \cap l.read = {}, vs \cap l.validated = {},
         m.queries = l.queries \cup qs, m.read = l.read \cup rs, m.validated = l.validated \cup vs,
         NEW used,
         used = [searches |-> Cardinality(qs), reads |-> Cardinality(rs), validation |-> Cardinality(vs)],
         \A k \in Kinds : m.consumed[k] = l.consumed[k] + used[k] /\ used[k] <= Room(l, k)
  PROVE  Balanced(m)
<1>1. LedgerType(l) /\ OnlyOne(l) /\ l.lostReads \in Nat /\ Backed(l) /\ \A k \in Kinds : Sums(l, k)
  BY DEF Balanced
<1>2. OnlyOne(m) /\ m.lostReads \in Nat
  BY <1>1 DEF OnlyOne
<1>3. \A k : Open(m, k) = Open(l, k) /\ Units(m, Open(m, k)) = Units(l, Open(l, k))
  BY DEF Open, OfKind, InFlight, Units, Places
<1>4. Backed(m)
  <2> SUFFICES ASSUME NEW o \in Open(m, "searches")
               PROVE  Cardinality(m.ops[o].request \ m.queries) <= m.ops[o].unit
    BY DEF Backed
  <2> DEFINE s == m.ops[o].request \ m.queries
             t == l.ops[o].request \ l.queries
  <2>1. o \in InFlight(l) /\ l.ops[o].kind = "searches"
    BY <1>3 DEF Open, OfKind
  <2>2. l.ops[o].request \in SUBSET Queries /\ l.ops[o].unit \in Nat
    BY <1>1, <2>1, OpenOp DEF Wanted
  <2>3. s \in SUBSET t /\ t \in SUBSET Queries
    BY <2>2
  <2>4. Cardinality(t) <= l.ops[o].unit
    BY <1>1, <1>3 DEF Backed
  <2> HIDE DEF s, t
  <2>5. Cardinality(s) <= Cardinality(t) /\ Cardinality(s) \in Nat /\ Cardinality(t) \in Nat
    BY <2>3, WorkIsFinite, FS_Subset
  <2> QED BY <2>2, <2>4, <2>5 DEF s
<1>5. \A k \in Kinds : Found(m, k) = Found(l, k) + used[k] /\ used[k] \in Nat
  <2>1. /\ l.queries \in SUBSET Queries /\ l.read \in SUBSET Urls /\ l.validated \in SUBSET Urls
    BY <1>1 DEF LedgerType
  <2>2. Cardinality(l.queries \cup qs) = Cardinality(l.queries) + Cardinality(qs)
    <3>1. l.queries \in SUBSET Queries /\ qs \in SUBSET Queries /\ l.queries \cap qs = {}
      BY <2>1
    <3> QED BY <3>1, QueriesAdded
  <2>3. Cardinality(l.read \cup rs) = Cardinality(l.read) + Cardinality(rs)
    <3>1. l.read \in SUBSET Urls /\ rs \in SUBSET Urls /\ l.read \cap rs = {}
      BY <2>1
    <3> QED BY <3>1, PagesAdded
  <2>4. Cardinality(l.validated \cup vs) = Cardinality(l.validated) + Cardinality(vs)
    <3>1. l.validated \in SUBSET Urls /\ vs \in SUBSET Urls /\ l.validated \cap vs = {}
      BY <2>1
    <3> QED BY <3>1, PagesAdded
  <2>5. /\ Cardinality(qs) \in Nat /\ Cardinality(rs) \in Nat /\ Cardinality(vs) \in Nat
        /\ Cardinality(l.queries) \in Nat /\ Cardinality(l.read) \in Nat /\ Cardinality(l.validated) \in Nat
    BY <2>1, WorkIsFinite
  <2> QED BY <1>1, <2>2, <2>3, <2>4, <2>5 DEF Found, Kinds
<1>6. ASSUME NEW k \in Kinds PROVE Sums(m, k)
  <2>1. Held(m, k) = Held(l, k)
    BY <1>3 DEF Held
  <2>2. Sums(l, k) /\ Found(m, k) = Found(l, k) + used[k] /\ used[k] \in Nat
        /\ m.consumed[k] = l.consumed[k] + used[k] /\ used[k] <= Room(l, k)
    BY <1>1, <1>5
  <2>3. /\ l.consumed[k] \in Nat /\ l.reserved[k] \in Nat /\ Found(l, k) \in Nat
        /\ Room(l, k) = Allocated[k] - (l.consumed[k] + l.reserved[k])
    BY Numbers
  <2>4. Allocated[k] \in Nat
    BY Vectors
  <2> QED BY <2>1, <2>2, <2>3, <2>4 DEF Sums
<1> QED BY <1>2, <1>4, <1>6 DEF Balanced

\* What is done for or with a child moves its share between the columns.
LEMMA ChildBalance ==
  ASSUME NEW l, Balanced(l), NEW m, LedgerType(m), OnlyOne(m), m.ops = l.ops, m.lostReads = l.lostReads,
         m.queries = l.queries, m.read = l.read, m.validated = l.validated,
         NEW d, \A k \in Kinds :
           /\ d[k] \in Nat
           /\ m.consumed[k] = l.consumed[k] + d[k] /\ m.childSpent[k] = l.childSpent[k] + d[k]
           /\ m.reserved[k] = Units(l, Open(l, k)) + Cardinality(m.children) * Share[k]
           /\ m.consumed[k] + m.reserved[k] <= Allocated[k]
  PROVE  Balanced(m)
<1>1. LedgerType(l) /\ OnlyOne(l) /\ l.lostReads \in Nat /\ Backed(l) /\ \A k \in Kinds : Sums(l, k)
  BY DEF Balanced
<1>2. \A k : Open(m, k) = Open(l, k) /\ Units(m, Open(m, k)) = Units(l, Open(l, k)) /\ Found(m, k) = Found(l, k)
  BY DEF Open, OfKind, InFlight, Units, Places, Found
<1>3. Backed(m)
  BY <1>1, <1>2 DEF Backed
<1>4. ASSUME NEW k \in Kinds PROVE Sums(m, k)
  <2>1. Sums(l, k) /\ Found(l, k) \in Nat
    BY <1>1, Numbers
  <2> QED BY <1>2, <2>1 DEF Sums, Held
<1> QED BY <1>1, <1>3, <1>4 DEF Balanced

LEMMA EmptyBalance == Balanced(EmptyLedger)
<1> DEFINE l == EmptyLedger
<1>1. LedgerType(l) /\ l.children = {} /\ InFlight(l) = {}
  BY EmptyLedgerType
<1>2. /\ l.lostReads = 0 /\ l.queries = {} /\ l.read = {} /\ l.validated = {}
      /\ l.consumed = Zero /\ l.reserved = Zero /\ l.childSpent = Zero
  BY DEF EmptyLedger
<1> HIDE DEF l
<1>3. \A k : Open(l, k) = {}
  BY <1>1 DEF Open, OfKind
<1>4. Cardinality({}) = 0
  BY FS_EmptySet
<1>5. ASSUME NEW k \in Kinds PROVE Sums(l, k)
  <2>1. Held(l, k) = 0
    <3>1. Cardinality(l.children) = 0 /\ Units(l, Open(l, k)) = 0 /\ Share[k] \in Nat
      BY <1>1, <1>3, <1>4, NoUnits, Vectors
    <3> QED BY <3>1 DEF Held
  <2>2. Found(l, k) = 0
    BY <1>2, <1>4 DEF Found
  <2> QED BY <1>2, <2>1, <2>2, Vectors DEF Sums
<1>6. Balanced(l)
  BY <1>1, <1>2, <1>3, <1>5 DEF Balanced, OnlyOne, Backed
<1> QED BY <1>6 DEF l

LEMMA SettleBalance == ASSUME NEW l, Balanced(l) PROVE Balanced(Settle(l))
<1> DEFINE m == Settle(l)
<1>1. m = [l EXCEPT !.status = "settled"] /\ LedgerType(l)
  BY DEF Settle, Balanced
<1>2. LedgerType(m) /\ m.ops = l.ops
  BY <1>1, SettleType
<1> HIDE DEF m
<1>3. /\ m.children = l.children /\ m.lostReads = l.lostReads /\ m.queries = l.queries /\ m.read = l.read
      /\ m.validated = l.validated /\ m.consumed = l.consumed /\ m.childSpent = l.childSpent /\ m.reserved = l.reserved
  BY <1>1 DEF LedgerType, Shape
<1>4. OnlyOne(m)
  BY <1>3 DEF Balanced, OnlyOne
<1>5. \A k \in Kinds :
        /\ Zero[k] \in Nat
        /\ m.consumed[k] = l.consumed[k] + Zero[k] /\ m.childSpent[k] = l.childSpent[k] + Zero[k]
        /\ m.reserved[k] = Units(l, Open(l, k)) + Cardinality(m.children) * Share[k]
        /\ m.consumed[k] + m.reserved[k] <= Allocated[k]
  BY <1>3, Vectors, Numbers DEF Balanced, Sums, Held
<1>6. Balanced(m)
  BY <1>2, <1>3, <1>4, <1>5, ChildBalance
<1> QED BY <1>6 DEF m

LEMMA AuthorizeBalance ==
  ASSUME NEW l, Balanced(l), NEW o \in Ops, NEW kind \in {"searches", "reads"},
         NEW request \in SUBSET Wanted(kind), NEW p \in Procs, MayAuthorize(l, o, kind, request)
  PROVE  Balanced(Authorize(l, o, kind, request, p))
<1> DEFINE unit == Unit(l, kind, request)
           e == [at |-> "open", kind |-> kind, request |-> request, unit |-> unit, owner |-> p]
           m == Authorize(l, o, kind, request, p)
<1>1. LedgerType(l) /\ OnlyOne(l) /\ l.lostReads \in Nat /\ Backed(l) /\ (\A k \in Kinds : Sums(l, k)) /\ kind \in Kinds
  BY DEF Balanced, Kinds
<1>2. LedgerType(m) /\ SameChildren(l, m) /\ \A i \in Ops \ {o} : m.ops[i] = l.ops[i]
  <2>1. /\ LedgerType(m) /\ SameStatus(l, m) /\ SameChildren(l, m)
        /\ m.ops[o] \in OpenOps /\ m.ops[o].owner = p
        /\ \A i \in Ops \ {o} : m.ops[i] = l.ops[i]
    BY <1>1, AuthorizeType
  <2> QED BY <2>1
<1>3. unit \in Nat /\ Fits(l, Only(kind, unit)) /\ l.ops[o] = Unused
  BY UnitIsNat DEF Wanted, MayAuthorize
<1>4. /\ m.reserved = l.reserved (+) Only(kind, unit) /\ m.consumed = l.consumed /\ m.childSpent = l.childSpent
      /\ m.lostReads = l.lostReads /\ m.queries = l.queries /\ m.read = l.read /\ m.validated = l.validated
      /\ m.ops[o] = e
  BY <1>1 DEF Authorize, LedgerType, Shape
<1>5. kind = "searches" => unit = Cardinality(request \ l.queries)
  BY DEF Unit
<1> HIDE DEF m, unit
<1>6. m.ops[o].unit = unit /\ m.ops[o].kind = kind /\ m.ops[o].request = request /\ m.ops[o].at = "open"
  BY <1>4
<1>7. o \notin InFlight(l) /\ InFlight(m) = InFlight(l) \cup {o}
  BY <1>2, <1>3, <1>6 DEF InFlight, Unused
<1>8. \A k : Open(m, k) = IF k = kind THEN Open(l, k) \cup {o} ELSE Open(l, k)
  BY <1>2, <1>6, <1>7 DEF Open, OfKind, InFlight
<1>9. \A k : Units(m, Open(l, k)) = Units(l, Open(l, k))
  BY <1>2, <1>7, UnitsSame DEF Open, OfKind, InFlight
<1>10. \A k : Units(m, Open(m, k)) = Units(l, Open(l, k)) + (IF k = kind THEN unit ELSE 0) \/ k \notin Kinds
  <2> SUFFICES ASSUME NEW k \in Kinds
               PROVE  Units(m, Open(m, k)) = Units(l, Open(l, k)) + (IF k = kind THEN unit ELSE 0)
    OBVIOUS
  <2>1. Units(l, Open(l, k)) \in Nat
    BY Numbers
  <2>2. CASE k = kind
    <3>1. Open(l, k) \in SUBSET InFlight(m) /\ {o} \in SUBSET InFlight(m) /\ Open(l, k) \cap {o} = {}
      BY <1>7 DEF Open, OfKind
    <3>2. Units(m, Open(l, k) \cup {o}) = Units(m, Open(l, k)) + Units(m, {o})
      BY <1>2, <3>1, UnitsApart
    <3>3. Units(m, {o}) = unit
      BY <1>3, <1>6, UnitsOfOne
    <3> QED BY <1>8, <1>9, <2>2, <3>2, <3>3
  <2>3. CASE k # kind
    BY <1>8, <1>9, <2>1, <2>3
  <2> QED BY <2>2, <2>3
<1>11. ASSUME NEW k \in Kinds PROVE Sums(m, k)
  <2> DEFINE n == IF k = kind THEN unit ELSE 0
  <2>1. n \in Nat /\ m.reserved[k] = l.reserved[k] + n
    <3>1. m.reserved[k] = l.reserved[k] + Only(kind, unit)[k]
      BY <1>4, Vectors
    <3>2. Only(kind, unit)[k] = n
      BY <1>1, Vectors
    <3> QED BY <1>3, <3>1, <3>2
  <2>2. (l.consumed (+) l.reserved (+) Only(kind, unit))[k] <= Allocated[k]
    BY <1>3 DEF Fits, Within
  <2>3. l.consumed[k] + l.reserved[k] + n <= Allocated[k]
    BY <1>1, <1>3, <2>2, Vectors
  <2>4. Units(m, Open(m, k)) = Units(l, Open(l, k)) + n
    BY <1>10
  <2>5. m.children = l.children /\ Found(m, k) = Found(l, k)
    BY <1>2, <1>4 DEF SameChildren, Found
  <2>6. Cardinality(l.children) * Share[k] \in Nat
    <3>1. Cardinality(l.children) \in {0, 1} /\ Share[k] \in Nat
      BY <1>1, ChildCount, Vectors
    <3> QED BY <3>1
  <2>7. /\ Sums(l, k) /\ l.consumed[k] \in Nat /\ l.reserved[k] \in Nat /\ Units(l, Open(l, k)) \in Nat
    BY <1>1, Numbers
  <2> HIDE DEF n
  <2>8. Held(m, k) = Held(l, k) + n
    BY <2>1, <2>4, <2>5, <2>6, <2>7 DEF Held
  <2> QED BY <1>4, <2>1, <2>3, <2>5, <2>7, <2>8 DEF Sums
<1>12. Backed(m)
  <2> SUFFICES ASSUME NEW i \in Open(m, "searches")
               PROVE  Cardinality(m.ops[i].request \ m.queries) <= m.ops[i].unit
    BY DEF Backed
  <2>1. CASE i = o
    <3>1. kind = "searches"
      BY <1>6, <2>1 DEF Open, OfKind
    <3> QED BY <1>3, <1>4, <1>5, <1>6, <2>1, <3>1
  <2>2. CASE i # o
    <3>1. i \in Open(l, "searches") /\ m.ops[i] = l.ops[i]
      BY <1>2, <1>8, <2>2 DEF Open, OfKind, InFlight
    <3> QED BY <1>1, <1>4, <3>1 DEF Backed
  <2> QED BY <2>1, <2>2
<1>13. OnlyOne(m) /\ m.lostReads \in Nat
  BY <1>1, <1>2, <1>4 DEF OnlyOne, SameChildren
<1>14. Balanced(m)
  BY <1>2, <1>11, <1>12, <1>13 DEF Balanced
<1> QED BY <1>14 DEF m

\* What an operation had reserved is room again once it is released.
LEMMA ReleaseBalance ==
  ASSUME NEW l, Balanced(l), NEW o \in InFlight(l)
  PROVE  LET m == Release(l, o) IN
         /\ Balanced(m) /\ m.queries = l.queries /\ m.read = l.read
         /\ l.ops[o].unit <= Room(m, l.ops[o].kind)
<1> DEFINE m == Release(l, o)
           kind == l.ops[o].kind
           unit == l.ops[o].unit
<1>1. LedgerType(l) /\ OnlyOne(l) /\ l.lostReads \in Nat /\ Backed(l) /\ (\A k \in Kinds : Sums(l, k))
  BY DEF Balanced
<1>2. o \in Ops /\ kind \in {"searches", "reads"} /\ kind \in Kinds /\ unit \in Nat
  BY <1>1, OpenOp DEF Kinds
<1>3. LedgerType(m) /\ SameChildren(l, m) /\ m.ops = [l.ops EXCEPT ![o] = Done]
  BY <1>1, <1>2, ReleaseType
<1>4. /\ m.reserved = l.reserved (-) Only(kind, unit) /\ m.consumed = l.consumed /\ m.childSpent = l.childSpent
      /\ m.lostReads = l.lostReads /\ m.queries = l.queries /\ m.read = l.read /\ m.validated = l.validated
  BY <1>1 DEF Release, LedgerType, Shape
<1> HIDE DEF m
<1>5. m.ops[o].at = "done" /\ \A i \in Ops \ {o} : m.ops[i] = l.ops[i]
  BY <1>1, <1>2, <1>3 DEF LedgerType, Done
<1>6. InFlight(m) = InFlight(l) \ {o}
  BY <1>5 DEF InFlight
<1>7. \A k : Open(m, k) = Open(l, k) \ {o} /\ Units(m, Open(m, k)) = Units(l, Open(l, k) \ {o})
  <2> TAKE k
  <2>1. Open(m, k) = Open(l, k) \ {o}
    BY <1>5, <1>6 DEF Open, OfKind, InFlight
  <2>2. \A i \in Open(l, k) \ {o} : m.ops[i] = l.ops[i]
    BY <1>5 DEF Open, OfKind, InFlight
  <2> QED BY <2>1, <2>2, UnitsSame
<1>8. ASSUME NEW k \in Kinds
      PROVE  /\ Units(l, Open(l, k)) = Units(m, Open(m, k)) + (IF k = kind THEN unit ELSE 0)
             /\ Units(m, Open(m, k)) \in Nat
  <2>1. Units(m, Open(m, k)) \in Nat
    BY <1>3, PlacesFinite DEF Open, OfKind
  <2>2. CASE k = kind
    <3> DEFINE rest == Open(l, k) \ {o}
    <3>1. rest \in SUBSET InFlight(l) /\ {o} \in SUBSET InFlight(l) /\ rest \cap {o} = {} /\ Open(l, k) = rest \cup {o}
      BY <2>2 DEF Open, OfKind
    <3> HIDE DEF rest
    <3>2. Units(l, rest \cup {o}) = Units(l, rest) + Units(l, {o})
      BY <1>1, <3>1, UnitsApart
    <3>3. Units(l, {o}) = unit
      BY <1>2, UnitsOfOne
    <3> QED BY <1>7, <2>1, <2>2, <3>1, <3>2, <3>3 DEF rest
  <2>3. CASE k # kind
    <3>1. o \notin Open(l, k)
      BY <2>3 DEF Open, OfKind
    <3>2. Open(l, k) \ {o} = Open(l, k)
      BY <3>1
    <3> QED BY <1>7, <2>1, <2>3, <3>2
  <2> QED BY <2>1, <2>2, <2>3
<1>9. ASSUME NEW k \in Kinds PROVE Sums(m, k) /\ (k = kind => unit <= Room(m, k))
  <2> DEFINE n == IF k = kind THEN unit ELSE 0
  <2>1. n \in Nat /\ m.reserved[k] = l.reserved[k] - n
    BY <1>2, <1>4, Vectors
  <2>2. Units(l, Open(l, k)) = Units(m, Open(m, k)) + n /\ Units(m, Open(m, k)) \in Nat
    BY <1>8
  <2>3. m.children = l.children /\ Found(m, k) = Found(l, k)
    BY <1>3, <1>4 DEF SameChildren, Found
  <2>4. Cardinality(l.children) * Share[k] \in Nat
    <3>1. Cardinality(l.children) \in {0, 1} /\ Share[k] \in Nat
      BY <1>1, ChildCount, Vectors
    <3> QED BY <3>1
  <2>5. /\ Sums(l, k) /\ l.consumed[k] \in Nat /\ l.reserved[k] \in Nat /\ Allocated[k] \in Nat
    BY <1>1, Numbers, Vectors
  <2>6. k = kind => n = unit
    OBVIOUS
  <2> HIDE DEF n
  <2>7. Held(m, k) = Held(l, k) - n /\ Held(l, k) \in Nat
    BY <2>1, <2>2, <2>3, <2>4 DEF Held
  <2>8. Sums(m, k)
    BY <1>4, <2>1, <2>3, <2>5, <2>7 DEF Sums
  <2>9. n <= Room(m, k)
    BY <1>4, <2>1, <2>5 DEF Sums, Room
  <2> QED BY <2>6, <2>8, <2>9
<1>10. Backed(m)
  BY <1>1, <1>4, <1>5, <1>7 DEF Backed, Open, OfKind, InFlight
<1>11. OnlyOne(m) /\ m.lostReads \in Nat
  BY <1>1, <1>3, <1>4 DEF OnlyOne, SameChildren
<1>12. Balanced(m)
  BY <1>3, <1>9, <1>10, <1>11 DEF Balanced
<1> QED BY <1>2, <1>4, <1>9, <1>12 DEF m

\* A query that a search found new is paid out of what the call reserved.
LEMMA SearchReceiptBalance ==
  ASSUME NEW l, Balanced(l), NEW o \in InFlight(l), l.ops[o].kind = "searches"
  PROVE  Balanced(SearchReceipt(l, o))
<1> DEFINE r   == Release(l, o)
           new == l.ops[o].request \ l.queries
           m   == SearchReceipt(l, o)
<1>1. LedgerType(l) /\ Backed(l) /\ o \in Ops /\ l.ops[o].at = "open" /\ l.ops[o].unit \in Nat
      /\ l.ops[o].request \in SUBSET Queries
  BY OpenOp DEF Balanced, Wanted
<1>2. Balanced(r) /\ r.queries = l.queries /\ l.ops[o].unit <= Room(r, "searches")
  BY ReleaseBalance
<1>3. LedgerType(m)
  BY <1>1, SearchReceiptType
<1>4. Cardinality(new) <= l.ops[o].unit
  BY <1>1 DEF Backed, Open, OfKind
<1>5. m = [r EXCEPT !.consumed = @ (+) Only("searches", Cardinality(new)), !.queries = @ \cup new]
  BY DEF SearchReceipt
<1>6. new \in SUBSET Queries /\ new \cap r.queries = {}
  BY <1>1, <1>2
<1> HIDE DEF r, m, new
<1>7. LedgerType(r)
  BY <1>2 DEF Balanced
<1>8. /\ m.ops = r.ops /\ m.children = r.children /\ m.reserved = r.reserved /\ m.childSpent = r.childSpent
      /\ m.lostReads = r.lostReads /\ m.queries = r.queries \cup new /\ m.read = r.read /\ m.validated = r.validated
      /\ m.consumed = r.consumed (+) Only("searches", Cardinality(new))
  BY <1>5, <1>7 DEF LedgerType, Shape
<1> DEFINE none == {}
           used == [searches |-> Cardinality(new), reads |-> Cardinality(none), validation |-> Cardinality(none)]
<1>9. Cardinality(none) = 0
  BY FS_EmptySet
<1>10. /\ none \in SUBSET Urls /\ none \cap r.read = {} /\ none \cap r.validated = {}
       /\ m.read = r.read \cup none /\ m.validated = r.validated \cup none
  BY <1>8
<1>11. Cardinality(new) \in Nat
  BY <1>6, WorkIsFinite
<1>12. \A k \in Kinds : m.consumed[k] = r.consumed[k] + used[k] /\ used[k] <= Room(r, k)
  <2> SUFFICES ASSUME NEW k \in Kinds PROVE m.consumed[k] = r.consumed[k] + used[k] /\ used[k] <= Room(r, k)
    OBVIOUS
  <2>1. used[k] = IF k = "searches" THEN Cardinality(new) ELSE 0
    BY <1>9 DEF Kinds
  <2>2. r.consumed[k] \in Nat /\ Room(r, k) \in Nat
    BY <1>2, Numbers
  <2>3. m.consumed[k] = r.consumed[k] + (IF k = "searches" THEN Cardinality(new) ELSE 0)
    BY <1>8, Vectors DEF Kinds
  <2> QED BY <1>1, <1>2, <1>4, <1>11, <2>1, <2>2, <2>3
<1>13. used = [searches |-> Cardinality(new), reads |-> Cardinality(none), validation |-> Cardinality(none)]
  OBVIOUS
<1> HIDE DEF none, used
<1>14. Balanced(m)
  BY <1>2, <1>3, <1>6, <1>8, <1>10, <1>12, <1>13, SpendBalance
<1> QED BY <1>14 DEF m

\* What is accepted of a proposal fits in the room.
LEMMA AcceptedFits ==
  ASSUME NEW new, NEW room \in Int, Cardinality(new) \in Nat, NEW s \in Accepted(new, room)
  PROVE  s \in SUBSET new /\ Cardinality(s) <= room
<1> DEFINE c == Cardinality(new)
<1>1. \E x \in {room, c} : \A y \in {room, c} : x <= y
  BY SMT
<1>2. Min({room, c}) \in {room, c} /\ \A y \in {room, c} : Min({room, c}) <= y
  BY <1>1 DEF Min
<1> QED BY <1>2 DEF Accepted

LEMMA RoundBalance ==
  ASSUME NEW l, Balanced(l), NEW q \in SUBSET Queries, NEW r \in SUBSET Urls, NEW v \in SUBSET Urls,
         NEW ok \in BOOLEAN, NEW c \in SUBSET Claims, NEW x \in SUBSET Claims, NEW y,
         NEW m \in Rounds(l, q, r, v, ok, c, x, y)
  PROVE  Balanced(m)
<1>1. PICK qs \in Accepted(q \ l.queries, Room(l, "searches")), rs \in Accepted(r \ l.read, Room(l, "reads")),
           vs \in Accepted(v \ l.validated, Room(l, "validation")) : m = Round(l, qs, rs, vs, ok, c, x, y)
  <2> DEFINE A == Accepted(q \ l.queries, Room(l, "searches"))
             B == Accepted(r \ l.read, Room(l, "reads"))
             C == Accepted(v \ l.validated, Room(l, "validation"))
  <2>1. m \in {n \in {Round(l, qs, rs, vs, ok, c, x, y) : qs \in A, rs \in B, vs \in C} : c = {} \/ n.usable # {}}
    <3>1. m \in Rounds(l, q, r, v, ok, c, x, y)
      OBVIOUS
    <3>2. Rounds(l, q, r, v, ok, c, x, y) =
            {n \in {Round(l, qs, rs, vs, ok, c, x, y) : qs \in A, rs \in B, vs \in C} : c = {} \/ n.usable # {}}
      BY DEF Rounds
    <3> HIDE DEF A, B, C
    <3> QED BY ONLY <3>1, <3>2
  <2> HIDE DEF A, B, C
  <2>2. \E qs \in A, rs \in B, vs \in C : m = Round(l, qs, rs, vs, ok, c, x, y)
    BY <2>1
  <2> QED BY <2>2 DEF A, B, C
<1>2. LedgerType(l)
  BY DEF Balanced
<1>3. LedgerType(m) /\ m.ops = l.ops /\ SameChildren(l, m)
  BY <1>2, RoundType
<1>4. \A k \in Kinds : Room(l, k) \in Nat
  BY Numbers
<1>5. qs \in SUBSET (q \ l.queries) /\ Cardinality(qs) <= Room(l, "searches")
  BY <1>4, AcceptedFits, WorkIsFinite DEF Kinds
<1>6. rs \in SUBSET (r \ l.read) /\ Cardinality(rs) <= Room(l, "reads")
  BY <1>4, AcceptedFits, WorkIsFinite DEF Kinds
<1>7. vs \in SUBSET (v \ l.validated) /\ Cardinality(vs) <= Room(l, "validation")
  BY <1>4, AcceptedFits, WorkIsFinite DEF Kinds
<1> DEFINE used == [searches |-> Cardinality(qs), reads |-> Cardinality(rs), validation |-> Cardinality(vs)]
<1>8. /\ m.reserved = l.reserved /\ m.childSpent = l.childSpent /\ m.lostReads = l.lostReads
      /\ m.queries = l.queries \cup qs /\ m.read = l.read \cup rs /\ m.validated = l.validated \cup vs
      /\ m.consumed = l.consumed (+) used
  BY <1>1, <1>2 DEF Round, LedgerType, Shape
<1>9. \A k \in Kinds : m.consumed[k] = l.consumed[k] + used[k] /\ used[k] <= Room(l, k)
  BY <1>5, <1>6, <1>7, <1>8, Vectors DEF Kinds
<1>10. /\ qs \in SUBSET Queries /\ rs \in SUBSET Urls /\ vs \in SUBSET Urls
       /\ qs \cap l.queries = {} /\ rs \cap l.read = {} /\ vs \cap l.validated = {}
  BY <1>5, <1>6, <1>7
<1>11. used = [searches |-> Cardinality(qs), reads |-> Cardinality(rs), validation |-> Cardinality(vs)]
       /\ m.children = l.children
  BY <1>3 DEF SameChildren
<1> HIDE DEF used
<1> QED BY <1>3, <1>8, <1>9, <1>10, <1>11, SpendBalance

LEMMA ReadReceiptBalance ==
  ASSUME NEW l, Balanced(l), NEW o \in InFlight(l), l.ops[o].kind = "reads", NEW m \in ReadReceipts(l, o)
  PROVE  Balanced(m)
<1> DEFINE r == Release(l, o)
<1>1. Balanced(r)
  BY ReleaseBalance
<1>2. m \in Rounds(r, {}, l.ops[o].request, {}, FALSE, {}, {}, {})
  BY DEF ReadReceipts
<1>3. l.ops[o].request \in SUBSET Urls
  BY OpenOp DEF Balanced, Wanted
<1> HIDE DEF r
<1> DEFINE us == l.ops[o].request
           ok == FALSE
           no == {}
<1>4. no \in SUBSET Queries /\ no \in SUBSET Claims /\ no \in SUBSET Urls /\ us \in SUBSET Urls /\ ok \in BOOLEAN
  BY <1>3
<1>5. m \in Rounds(r, no, us, no, ok, no, no, no)
  BY <1>2
<1> HIDE DEF us, ok, no
<1> QED BY <1>1, <1>4, <1>5, RoundBalance

\* A set of at most n elements fits in 1..n.
LEMMA Numbering ==
  ASSUME NEW S, IsFiniteSet(S), NEW n \in Nat, Cardinality(S) <= n
  PROVE  \E f \in [S -> 1..n] : \A a, b \in S : f[a] = f[b] => a = b
<1> DEFINE c == Cardinality(S)
<1>1. c \in Nat /\ ExistsBijection(1..c, S)
  BY FS_CardinalityType
<1>2. ExistsBijection(S, 1..c)
  BY <1>1, Fun_ExistsBijSymmetric
<1>3. PICK f \in Bijection(S, 1..c) : TRUE
  BY <1>2 DEF ExistsBijection
<1>4. f \in [S -> 1..c] /\ \A a, b \in S : f[a] = f[b] => a = b
  BY <1>3 DEF Bijection, Injection, IsInjective
<1>5. 1..c \subseteq 1..n
  BY <1>1
<1> HIDE DEF c
<1>6. f \in [S -> 1..n]
  BY <1>4, <1>5
<1> QED BY <1>4, <1>6

(* What abandoned searches asked for that is new fits in what they have     *)
(* reserved: each query is given a place of a search that asked for it.     *)
LEMMA RequestsCovered ==
  ASSUME NEW l, Balanced(l), NEW os \in SUBSET Open(l, "searches")
  PROVE  Cardinality((UNION {l.ops[o].request : o \in os}) \ l.queries) <= Units(l, os)
<1> DEFINE S == (UNION {l.ops[o].request : o \in os}) \ l.queries
           new(o) == l.ops[o].request \ l.queries
           F(o) == {f \in [new(o) -> 1..l.ops[o].unit] : \A a, b \in new(o) : f[a] = f[b] => a = b}
           num(o) == CHOOSE f \in F(o) : TRUE
           ask(q) == CHOOSE o \in os : q \in new(o)
           g == [q \in S |-> <<ask(q), num(ask(q))[q]>>]
<1>1. LedgerType(l) /\ Backed(l) /\ os \in SUBSET InFlight(l)
  BY DEF Balanced, Open, OfKind
<1>2. ASSUME NEW o \in os PROVE num(o) \in F(o)
  <2>1. l.ops[o].request \in SUBSET Queries /\ l.ops[o].unit \in Nat
    BY <1>1, OpenOp DEF Open, OfKind, Wanted
  <2>2. IsFiniteSet(new(o)) /\ Cardinality(new(o)) <= l.ops[o].unit
    BY <1>1, <2>1, WorkIsFinite DEF Backed
  <2> DEFINE T == new(o)
             n == l.ops[o].unit
  <2>3. n \in Nat /\ IsFiniteSet(T) /\ Cardinality(T) <= n
    BY <2>1, <2>2
  <2> HIDE DEF T, n
  <2>4. \E f \in [T -> 1..n] : \A a, b \in T : f[a] = f[b] => a = b
    BY <2>3, Numbering
  <2>5. F(o) # {}
    BY <2>4 DEF T, n
  <2> QED BY <2>5
<1>3. ASSUME NEW q \in S PROVE ask(q) \in os /\ q \in new(ask(q))
  <2>1. q \in UNION {l.ops[o].request : o \in os} /\ q \notin l.queries
    OBVIOUS
  <2>2. PICK t \in {l.ops[o].request : o \in os} : q \in t
    BY <2>1
  <2>3. PICK o \in os : t = l.ops[o].request
    BY <2>2
  <2>4. q \in new(o)
    BY <2>1, <2>2, <2>3
  <2> HIDE DEF new, S
  <2> QED BY <2>3, <2>4
<1> HIDE DEF num, ask
<1>4. ASSUME NEW q \in S PROVE num(ask(q))[q] \in 1..l.ops[ask(q)].unit
  <2> DEFINE o == ask(q)
  <2>1. o \in os /\ q \in new(o)
    BY <1>3
  <2> HIDE DEF o, new, S
  <2>2. num(o) \in [new(o) -> 1..l.ops[o].unit]
    BY <1>2, <2>1
  <2>3. num(o)[q] \in 1..l.ops[o].unit
    BY <2>1, <2>2
  <2> QED BY <2>3 DEF o
<1>5. g \in [S -> Places(l, os)]
  <2>1. ASSUME NEW q \in S PROVE <<ask(q), num(ask(q))[q]>> \in Places(l, os)
    BY <1>3, <1>4 DEF Places
  <2> QED BY <2>1
<1>6. \A a, b \in S : g[a] = g[b] => a = b
  <2> SUFFICES ASSUME NEW a \in S, NEW b \in S, g[a] = g[b] PROVE a = b
    OBVIOUS
  <2>1. ask(a) = ask(b) /\ num(ask(a))[a] = num(ask(a))[b]
    BY DEF g
  <2>2. a \in new(ask(a)) /\ b \in new(ask(a)) /\ ask(a) \in os
    BY <1>3, <2>1
  <2> QED BY <1>2, <2>1, <2>2
<1> HIDE DEF g, S
<1>7. g \in Injection(S, Places(l, os))
  BY <1>5, <1>6, Fun_IsInj
<1>8. IsFiniteSet(Places(l, os))
  BY <1>1, PlacesFinite
<1>9. Cardinality(S) <= Cardinality(Places(l, os))
  BY <1>7, <1>8, FS_Injection
<1> QED BY <1>9 DEF Units, S

\* The child's share is reserved, given back, or charged.
LEMMA ReserveBalance ==
  ASSUME NEW l, Balanced(l), NEW b \in Branches, MayReserveChild(l, b)
  PROVE  Balanced(ReserveChild(l, b))
<1> DEFINE m == ReserveChild(l, b)
<1>1. LedgerType(l) /\ OnlyOne(l) /\ l.children = {} /\ Fits(l, Share)
  BY DEF Balanced, MayReserveChild
<1>2. LedgerType(m) /\ m.ops = l.ops /\ m.children = {b}
  BY <1>1, ReserveType
<1>3. /\ m.reserved = l.reserved (+) Share /\ m.consumed = l.consumed /\ m.childSpent = l.childSpent
      /\ m.lostReads = l.lostReads /\ m.queries = l.queries /\ m.read = l.read /\ m.validated = l.validated
  BY <1>1 DEF ReserveChild, LedgerType, Shape
<1> HIDE DEF m
<1>4. OnlyOne(m) /\ Cardinality(m.children) = 1 /\ Cardinality(l.children) = 0
  BY <1>1, <1>2, FS_Singleton, FS_EmptySet DEF OnlyOne
<1>5. ASSUME NEW k \in Kinds
      PROVE  /\ Zero[k] \in Nat
             /\ m.consumed[k] = l.consumed[k] + Zero[k] /\ m.childSpent[k] = l.childSpent[k] + Zero[k]
             /\ m.reserved[k] = Units(l, Open(l, k)) + Cardinality(m.children) * Share[k]
             /\ m.consumed[k] + m.reserved[k] <= Allocated[k]
  <2>1. /\ Zero[k] = 0 /\ Share[k] \in Nat /\ m.reserved[k] = l.reserved[k] + Share[k]
    BY <1>3, Vectors
  <2>2. Sums(l, k) /\ Units(l, Open(l, k)) \in Nat /\ l.consumed[k] \in Nat /\ l.reserved[k] \in Nat
    BY Numbers DEF Balanced
  <2>3. (l.consumed (+) l.reserved (+) Share)[k] <= Allocated[k]
    BY <1>1 DEF Fits, Within
  <2>4. l.consumed[k] + l.reserved[k] + Share[k] <= Allocated[k]
    BY <2>3, Vectors
  <2>5. l.reserved[k] = Units(l, Open(l, k)) + 0 * Share[k]
    BY <1>4, <2>2 DEF Sums, Held
  <2> QED BY <1>3, <1>4, <2>1, <2>2, <2>4, <2>5 DEF Sums
<1>6. m.lostReads = l.lostReads /\ m.queries = l.queries /\ m.read = l.read /\ m.validated = l.validated
  BY <1>3
<1>7. LedgerType(m) /\ OnlyOne(m) /\ m.ops = l.ops
  BY <1>2, <1>4
<1> DEFINE d == Zero
<1>8. \A k \in Kinds :
        /\ d[k] \in Nat
        /\ m.consumed[k] = l.consumed[k] + d[k] /\ m.childSpent[k] = l.childSpent[k] + d[k]
        /\ m.reserved[k] = Units(l, Open(l, k)) + Cardinality(m.children) * Share[k]
        /\ m.consumed[k] + m.reserved[k] <= Allocated[k]
  BY <1>5
<1> HIDE DEF d
<1>9. Balanced(m)
  BY <1>6, <1>7, <1>8, ChildBalance
<1> QED BY <1>9 DEF m

LEMMA ReleaseChildBalance ==
  ASSUME NEW l, Balanced(l), NEW b \in Branches PROVE Balanced(ReleaseChild(l, b))
<1>1. CASE b \notin l.children
  BY <1>1 DEF ReleaseChild
<1>2. CASE b \in l.children
  <2> DEFINE m == ReleaseChild(l, b)
  <2>1. LedgerType(l) /\ OnlyOne(l)
    BY DEF Balanced
  <2>2. l.children = {b} /\ Cardinality(l.children) = 1
    BY <1>2, <2>1, ChildCount
  <2>3. LedgerType(m) /\ m.ops = l.ops /\ m.children = {}
    BY <2>1, <2>2, ReleaseChildType
  <2>4. /\ m.reserved = l.reserved (-) Share /\ m.consumed = l.consumed /\ m.childSpent = l.childSpent
        /\ m.lostReads = l.lostReads /\ m.queries = l.queries /\ m.read = l.read /\ m.validated = l.validated
    BY <1>2, <2>1 DEF ReleaseChild, LedgerType, Shape
  <2> HIDE DEF m
  <2>5. OnlyOne(m) /\ Cardinality(m.children) = 0
    BY <2>3, FS_EmptySet DEF OnlyOne
  <2>6. ASSUME NEW k \in Kinds
        PROVE  /\ Zero[k] \in Nat
               /\ m.consumed[k] = l.consumed[k] + Zero[k] /\ m.childSpent[k] = l.childSpent[k] + Zero[k]
               /\ m.reserved[k] = Units(l, Open(l, k)) + Cardinality(m.children) * Share[k]
               /\ m.consumed[k] + m.reserved[k] <= Allocated[k]
    <3>1. /\ Zero[k] = 0 /\ Share[k] \in Nat /\ Allocated[k] \in Nat /\ m.reserved[k] = l.reserved[k] - Share[k]
      BY <2>4, Vectors
    <3>2. Sums(l, k) /\ Units(l, Open(l, k)) \in Nat /\ l.consumed[k] \in Nat /\ l.reserved[k] \in Nat
      BY Numbers DEF Balanced
    <3>3. l.reserved[k] = Units(l, Open(l, k)) + 1 * Share[k]
      BY <2>2, <3>2 DEF Sums, Held
    <3> QED BY <2>4, <2>5, <3>1, <3>2, <3>3 DEF Sums
  <2>7. Balanced(m)
    BY <2>3, <2>4, <2>5, <2>6, ChildBalance
  <2> QED BY <2>7 DEF m
<1> QED BY <1>1, <1>2

\* A child that is gone is charged no more than its share, which it held.
LEMMA ChargeBalance ==
  ASSUME NEW l, Balanced(l), NEW b \in l.children, NEW m, LedgerType(m), m.ops = l.ops, m.children = {},
         m.lostReads = l.lostReads, m.queries = l.queries, m.read = l.read, m.validated = l.validated,
         NEW charged,
         \A k \in Kinds : /\ charged[k] \in 0..Share[k] /\ m.reserved[k] = l.reserved[k] - Share[k]
                          /\ m.consumed[k] = l.consumed[k] + charged[k]
                          /\ m.childSpent[k] = l.childSpent[k] + charged[k]
  PROVE  Balanced(m)
<1>1. LedgerType(l) /\ OnlyOne(l)
  BY DEF Balanced
<1>2. Cardinality(l.children) = 1
  BY <1>1, ChildCount
<1>3. OnlyOne(m) /\ Cardinality(m.children) = 0
  BY FS_EmptySet DEF OnlyOne
<1>4. ASSUME NEW k \in Kinds
      PROVE  /\ charged[k] \in Nat
             /\ m.consumed[k] = l.consumed[k] + charged[k] /\ m.childSpent[k] = l.childSpent[k] + charged[k]
             /\ m.reserved[k] = Units(l, Open(l, k)) + Cardinality(m.children) * Share[k]
             /\ m.consumed[k] + m.reserved[k] <= Allocated[k]
  <2>1. Share[k] \in Nat /\ Allocated[k] \in Nat
    BY Vectors
  <2>2. Sums(l, k) /\ Units(l, Open(l, k)) \in Nat /\ l.consumed[k] \in Nat /\ l.reserved[k] \in Nat
    BY Numbers DEF Balanced
  <2>3. l.reserved[k] = Units(l, Open(l, k)) + 1 * Share[k]
    BY <1>2, <2>2 DEF Sums, Held
  <2>4. charged[k] \in Nat /\ charged[k] <= Share[k]
    BY <2>1
  <2>5. m.reserved[k] = Units(l, Open(l, k)) + 0 * Share[k]
    BY <2>1, <2>2, <2>3
  <2> QED BY <1>3, <2>1, <2>2, <2>4, <2>5 DEF Sums
<1> QED BY <1>3, <1>4, ChildBalance

LEMMA MergeBalance ==
  ASSUME NEW l, Balanced(l), NEW b \in l.children, l.status # "settled", NEW used \in {Zero, Share}, NEW failed \in BOOLEAN
  PROVE  Balanced(MergeChild(l, b, used, failed))
<1> DEFINE charged == IF failed THEN Share ELSE used
           m == MergeChild(l, b, used, failed)
<1>1. LedgerType(l) /\ OnlyOne(l)
  BY DEF Balanced
<1>2. l.children = {b}
  BY <1>1, ChildCount
<1>3. LedgerType(m) /\ m.ops = l.ops /\ m.children = {}
  BY <1>1, <1>2, MergeType
<1>4. /\ m.reserved = l.reserved (-) Share /\ m.consumed = l.consumed (+) charged
      /\ m.childSpent = l.childSpent (+) charged
      /\ m.lostReads = l.lostReads /\ m.queries = l.queries /\ m.read = l.read /\ m.validated = l.validated
  BY <1>1 DEF MergeChild, LedgerType, Shape
<1>5. charged \in {Zero, Share}
  OBVIOUS
<1> HIDE DEF m, charged
<1>6. \A k \in Kinds : /\ charged[k] \in 0..Share[k] /\ m.reserved[k] = l.reserved[k] - Share[k]
                       /\ m.consumed[k] = l.consumed[k] + charged[k]
                       /\ m.childSpent[k] = l.childSpent[k] + charged[k]
  BY <1>4, <1>5, Vectors
<1>7. Balanced(m)
  BY <1>3, <1>4, <1>6, ChargeBalance
<1> QED BY <1>7 DEF m

LEMMA InterruptBalance ==
  ASSUME NEW l, Balanced(l), l.status = "settled" => l.children = {}, NEW bs PROVE Balanced(Interrupt(l, bs))
<1> DEFINE gone == bs \cap l.children
           m == Interrupt(l, bs)
<1>1. CASE l.status = "settled" \/ gone = {}
  BY <1>1 DEF Interrupt
<1>2. CASE l.status # "settled" /\ gone # {}
  <2>1. LedgerType(l) /\ OnlyOne(l)
    BY DEF Balanced
  <2>2. PICK b \in l.children : b \in bs
    BY <1>2
  <2>3. l.children = {b} /\ gone = {b} /\ Cardinality(gone) = 1
    BY <2>1, <2>2, ChildCount
  <2>4. LedgerType(m) /\ m.ops = l.ops /\ m.children = {}
    BY <2>1, <2>2, <2>3, InterruptType
  <2> DEFINE charged == Times(1, Share)
  <2>5. /\ m.reserved = l.reserved (-) charged /\ m.consumed = l.consumed (+) charged
        /\ m.childSpent = l.childSpent (+) charged
        /\ m.lostReads = l.lostReads /\ m.queries = l.queries /\ m.read = l.read /\ m.validated = l.validated
    BY <1>2, <2>1, <2>3 DEF Interrupt, LedgerType, Shape
  <2>6. \A k \in Kinds : charged[k] = 1 * Share[k]
    BY DEF Times
  <2> HIDE DEF m, charged, gone
  <2>7. \A k \in Kinds : /\ charged[k] \in 0..Share[k] /\ m.reserved[k] = l.reserved[k] - Share[k]
                         /\ m.consumed[k] = l.consumed[k] + charged[k]
                         /\ m.childSpent[k] = l.childSpent[k] + charged[k]
    BY <2>5, <2>6, Vectors
  <2>8. Balanced(m)
    BY <2>2, <2>4, <2>5, <2>7, ChargeBalance
  <2> QED BY <2>8 DEF m
<1> QED BY <1>1, <1>2

(* What abandoned operations have reserved is charged for what they asked   *)
(* for that is new, and the rest is given back.                             *)
LEMMA OpenApart ==
  ASSUME NEW l, LedgerType(l), NEW gone \in SUBSET InFlight(l), NEW k
  PROVE  Units(l, Open(l, k)) = Units(l, Open(l, k) \ gone) + Units(l, OfKind(l, gone, k))
<1> DEFINE A == Open(l, k) \ gone
           B == OfKind(l, gone, k)
<1>1. A \in SUBSET InFlight(l) /\ B \in SUBSET InFlight(l) /\ A \cap B = {} /\ Open(l, k) = A \cup B
  BY DEF Open, OfKind
<1> HIDE DEF A, B
<1>2. Units(l, A \cup B) = Units(l, A) + Units(l, B)
  BY <1>1, UnitsApart
<1> QED BY <1>1, <1>2 DEF A, B

LEMMA RecoverBalance ==
  ASSUME NEW l, Balanced(l), NEW dead PROVE Balanced(RecoverAbandoned(l, dead))
<1> DEFINE gone == Abandoned(l, dead)
           searches == OfKind(l, gone, "searches")
           reads == OfKind(l, gone, "reads")
           new == (UNION {l.ops[o].request : o \in searches}) \ l.queries
           m == RecoverAbandoned(l, dead)
<1>1. LedgerType(l) /\ OnlyOne(l) /\ l.lostReads \in Nat /\ Backed(l) /\ (\A k \in Kinds : Sums(l, k))
  BY DEF Balanced
<1>2. CASE gone = {}
  BY <1>2 DEF RecoverAbandoned
<1>3. CASE gone # {}
  <2>1. /\ m.reserved = l.reserved (-) Only("searches", Units(l, searches)) (-) Only("reads", Units(l, reads))
        /\ m.consumed = l.consumed (+) Only("searches", Cardinality(new)) (+) Only("reads", Units(l, reads))
        /\ m.queries = l.queries \cup new /\ m.lostReads = l.lostReads + Units(l, reads)
        /\ m.read = l.read /\ m.validated = l.validated /\ m.childSpent = l.childSpent
    BY <1>1, <1>3 DEF RecoverAbandoned, LedgerType, Shape
  <2>2. /\ LedgerType(m) /\ SameChildren(l, m)
        /\ \A o \in Ops : m.ops[o] = IF o \in gone THEN Done ELSE l.ops[o]
    BY <1>1, RecoverType
  <2> HIDE DEF m
  <2>3. gone \in SUBSET InFlight(l)
    BY DEF Abandoned
  <2> HIDE DEF gone
  <2>4. /\ searches \in SUBSET Open(l, "searches") /\ searches \in SUBSET InFlight(l)
        /\ reads \in SUBSET InFlight(l)
    BY <2>3 DEF Open, OfKind
  <2>5. Units(l, searches) \in Nat /\ Units(l, reads) \in Nat
    BY <1>1, <2>4, PlacesFinite
  <2>6. Cardinality(new) <= Units(l, searches)
    BY <2>4, RequestsCovered
  <2>7. new \in SUBSET Queries /\ new \cap l.queries = {}
    BY <1>1, <2>4, OpenOp DEF Wanted, OfKind
  <2>8. Cardinality(new) \in Nat /\ Cardinality(l.queries \cup new) = Cardinality(l.queries) + Cardinality(new)
        /\ Cardinality(l.queries) \in Nat
    <3> DEFINE s == l.queries
               t == new
    <3>1. s \in SUBSET Queries /\ t \in SUBSET Queries /\ s \cap t = {}
      BY <1>1, <2>7 DEF LedgerType
    <3> HIDE DEF s, t
    <3>2. Cardinality(s \cup t) = Cardinality(s) + Cardinality(t) /\ Cardinality(t) \in Nat /\ Cardinality(s) \in Nat
      BY <3>1, QueriesAdded, WorkIsFinite
    <3> QED BY <3>2 DEF s, t
  <2>9. \A o \in Ops : m.ops[o].at = IF o \in gone THEN "done" ELSE l.ops[o].at
    BY <2>2 DEF Done
  <2>10. InFlight(m) = InFlight(l) \ gone
    BY <2>9 DEF InFlight
  <2>11. ASSUME NEW k PROVE Open(m, k) = Open(l, k) \ gone /\ Units(m, Open(m, k)) = Units(l, Open(l, k) \ gone)
    <3>1. \A o \in InFlight(l) \ gone : m.ops[o] = l.ops[o]
      BY <2>2 DEF InFlight
    <3>2. Open(m, k) = Open(l, k) \ gone
      BY <2>10, <3>1 DEF Open, OfKind
    <3>3. \A o \in Open(l, k) \ gone : m.ops[o] = l.ops[o]
      BY <3>1 DEF Open, OfKind
    <3> QED BY <3>2, <3>3, UnitsSame
  <2> DEFINE freed == [k \in Kinds |-> Units(l, OfKind(l, gone, k))]
             charge == [k \in Kinds |-> IF k = "searches" THEN Cardinality(new) ELSE Units(l, OfKind(l, gone, k))]
  <2>12. OfKind(l, gone, "validation") = {}
    BY <1>1, <2>3, OpenOp DEF OfKind
  <2>13. Units(l, OfKind(l, gone, "validation")) = 0
    BY <2>12, NoUnits
  <2>14. ASSUME NEW k \in Kinds
         PROVE  /\ freed[k] \in Nat /\ charge[k] \in Nat /\ charge[k] <= freed[k]
                /\ m.reserved[k] = l.reserved[k] - freed[k] /\ m.consumed[k] = l.consumed[k] + charge[k]
                /\ Found(m, k) = Found(l, k) + charge[k]
    <3>1. l.reserved[k] \in Nat /\ l.consumed[k] \in Nat /\ Found(l, k) \in Nat
      BY Numbers
    <3> DEFINE U == Units(l, searches)
               R == Units(l, reads)
               N == Cardinality(new)
    <3>2. m.reserved[k] = l.reserved[k] - (IF k = "searches" THEN U ELSE 0) - (IF k = "reads" THEN R ELSE 0)
          /\ m.consumed[k] = l.consumed[k] + (IF k = "searches" THEN N ELSE 0) + (IF k = "reads" THEN R ELSE 0)
      <4> HIDE DEF U, R, N
      <4>1. "searches" \in Kinds /\ "reads" \in Kinds
        BY DEF Kinds
      <4>2. m.reserved = l.reserved (-) Only("searches", U) (-) Only("reads", R)
            /\ m.consumed = l.consumed (+) Only("searches", N) (+) Only("reads", R)
        BY <2>1 DEF U, R, N
      <4> QED BY <4>1, <4>2, Vectors
    <3>3. freed["searches"] = U /\ freed["reads"] = R /\ freed["validation"] = 0
          /\ charge["searches"] = N /\ charge["reads"] = R /\ charge["validation"] = 0
      BY <2>13 DEF Kinds
    <3>4. U \in Nat /\ R \in Nat /\ N \in Nat /\ N <= U
      BY <2>5, <2>6, <2>8
    <3>5. k = "searches" \/ k = "reads" \/ k = "validation"
      BY DEF Kinds
    <3>6. /\ Found(m, "searches") = Found(l, "searches") + N /\ Found(m, "validation") = Found(l, "validation")
          /\ Found(m, "reads") = Found(l, "reads") + R
      <4>1. Found(m, "searches") = Found(l, "searches") + N
        BY <2>1, <2>8 DEF Found
      <4>2. Found(m, "validation") = Found(l, "validation")
        BY <2>1 DEF Found
      <4>3. Found(m, "reads") = Found(l, "reads") + R
        <5>1. Cardinality(l.read) \in Nat
          BY <1>1, WorkIsFinite DEF LedgerType
        <5> HIDE DEF R
        <5>2. m.lostReads = l.lostReads + R /\ m.read = l.read
          BY <2>1 DEF R
        <5> QED BY <1>1, <3>4, <5>1, <5>2 DEF Found
      <4> QED BY <4>1, <4>2, <4>3
    <3> HIDE DEF freed, charge, U, R, N
    <3>7. CASE k = "searches"
      BY <3>1, <3>2, <3>3, <3>4, <3>6, <3>7
    <3>8. CASE k = "reads"
      BY <3>1, <3>2, <3>3, <3>4, <3>6, <3>8
    <3>9. CASE k = "validation"
      BY <3>1, <3>2, <3>3, <3>4, <3>6, <3>9
    <3> QED BY <3>5, <3>7, <3>8, <3>9
  <2>15. ASSUME NEW k \in Kinds
         PROVE  Units(l, Open(l, k)) = Units(m, Open(m, k)) + freed[k] /\ Units(m, Open(m, k)) \in Nat
    <3>1. Units(l, Open(l, k)) = Units(l, Open(l, k) \ gone) + Units(l, OfKind(l, gone, k))
      BY <1>1, <2>3, OpenApart
    <3>2. Units(m, Open(m, k)) \in Nat
      BY <2>2, PlacesFinite DEF Open, OfKind
    <3> QED BY <2>11, <3>1, <3>2
  <2> HIDE DEF freed, charge, new, searches, reads
  <2>16. ASSUME NEW k \in Kinds PROVE Sums(m, k)
    <3>1. m.children = l.children
      BY <2>2 DEF SameChildren
    <3>2. Cardinality(l.children) * Share[k] \in Nat
      <4>1. Cardinality(l.children) \in {0, 1} /\ Share[k] \in Nat
        BY <1>1, ChildCount, Vectors
      <4> QED BY <4>1
    <3>3. Held(m, k) = Held(l, k) - freed[k] /\ Held(l, k) \in Nat
      BY <2>14, <2>15, <3>1, <3>2 DEF Held
    <3>4. /\ Sums(l, k) /\ l.consumed[k] \in Nat /\ l.reserved[k] \in Nat /\ Allocated[k] \in Nat
      BY <1>1, Numbers, Vectors
    <3>5. m.childSpent[k] = l.childSpent[k]
      BY <2>1
    <3>6. freed[k] \in Nat /\ charge[k] \in Nat /\ charge[k] <= freed[k]
          /\ m.reserved[k] = l.reserved[k] - freed[k] /\ m.consumed[k] = l.consumed[k] + charge[k]
          /\ Found(m, k) = Found(l, k) + charge[k]
      BY <2>14
    <3>7. Found(l, k) \in Nat
      BY Numbers
    <3> QED BY <3>3, <3>4, <3>5, <3>6, <3>7 DEF Sums
  <2>17. Backed(m)
    <3> SUFFICES ASSUME NEW o \in Open(m, "searches")
                 PROVE  Cardinality(m.ops[o].request \ m.queries) <= m.ops[o].unit
      BY DEF Backed
    <3> DEFINE s == m.ops[o].request \ m.queries
               t == l.ops[o].request \ l.queries
    <3>1. o \in Open(l, "searches") /\ o \in InFlight(l) /\ m.ops[o] = l.ops[o] /\ l.ops[o].kind = "searches"
      <4>1. o \in Open(l, "searches") /\ o \notin gone
        BY <2>11
      <4>2. o \in InFlight(l) /\ l.ops[o].kind = "searches" /\ o \in Ops
        BY <4>1 DEF Open, OfKind, InFlight
      <4> QED BY <2>2, <4>1, <4>2
    <3>2. l.ops[o].request \in SUBSET Queries /\ l.ops[o].unit \in Nat
      BY <1>1, <3>1, OpenOp DEF Wanted
    <3>3. s \in SUBSET t /\ t \in SUBSET Queries
      BY <2>1, <3>1, <3>2
    <3>4. Cardinality(t) <= l.ops[o].unit
      BY <1>1, <3>1 DEF Backed
    <3> HIDE DEF s, t
    <3>5. Cardinality(s) <= Cardinality(t) /\ Cardinality(s) \in Nat /\ Cardinality(t) \in Nat
      BY <3>3, WorkIsFinite, FS_Subset
    <3>6. Cardinality(s) <= l.ops[o].unit
      BY <3>2, <3>4, <3>5
    <3> QED BY <3>1, <3>6 DEF s
  <2>18. OnlyOne(m) /\ m.lostReads \in Nat
    BY <1>1, <2>1, <2>2, <2>5 DEF OnlyOne, SameChildren
  <2>19. Balanced(m)
    BY <2>2, <2>16, <2>17, <2>18 DEF Balanced
  <2> QED BY <2>19 DEF m
<1> QED BY <1>2, <1>3

-----------------------------------------------------------------------------
(* Every step keeps the books.                                             *)
LEMMA Committed == \A l : Balanced(l) /\ Commit(l) => Balanced(L')
  BY DEF Commit

LEMMA OutcomeBalance == ASSUME IInv, Balanced(L), NEW o \in Ops, Outcome(o) PROVE Balanced(L')
<1>1. o \in InFlight(L) /\ L.ops[o].kind \in {"searches", "reads"}
  <2>1. o \in InFlight(L) /\ LedgerType(L)
    BY DEF Outcome, IInv, Linked, Owned, InFlight
  <2> QED BY <2>1, OpenOp
<1>2. PICK l : Commit(l) /\ l \in IF L.ops[o].kind = "searches" THEN {SearchReceipt(L, o)} ELSE ReadReceipts(L, o)
  BY DEF Outcome
<1>3. CASE L.ops[o].kind = "searches"
  <2>1. Balanced(SearchReceipt(L, o)) /\ l = SearchReceipt(L, o)
    BY <1>1, <1>2, <1>3, SearchReceiptBalance
  <2> QED BY <1>2, <2>1, Committed
<1>4. CASE L.ops[o].kind = "reads"
  <2>1. l \in ReadReceipts(L, o)
    BY <1>2, <1>4
  <2>2. Balanced(l)
    BY <1>1, <1>4, <2>1, ReadReceiptBalance
  <2> QED BY <1>2, <2>2, Committed
<1> QED BY <1>1, <1>3, <1>4

LEMMA RecordBalance == ASSUME Balanced(L), NEW p \in Procs, Recording(p) PROVE Balanced(L')
<1>1. PICK r \in Proposals : RecordRound(p, r)
  BY DEF Recording
<1>2. PICK l : Commit(l) /\ l \in Rounds(L, r.queries, r.reads, r.validation, r.ok, r.covers, r.opens, r.closes)
  BY <1>1 DEF RecordRound
<1>3. r.queries \in SUBSET Queries /\ r.reads \in SUBSET Urls /\ r.validation \in SUBSET Urls
      /\ r.covers \in SUBSET Claims /\ r.opens \in SUBSET Claims
  BY ProposalShape
<1>4. r.ok \in BOOLEAN
  BY ProposalShape
<1>5. Balanced(l)
  BY <1>2, <1>3, <1>4, RoundBalance
<1> QED BY <1>2, <1>5, Committed

LEMMA NoteBalance == ASSUME Balanced(L), NEW p \in Procs, NEW n \in Notes, NoteCard(p, n) PROVE Balanced(L')
<1> DEFINE ok == n.covers # {}
           no == {}
<1>1. PICK l : Commit(l) /\ l \in Rounds(L, no, no, {n.page}, ok, n.covers, no, no)
  BY DEF NoteCard
<1>2. no \in SUBSET Queries /\ no \in SUBSET Urls /\ {n.page} \in SUBSET Urls /\ n.covers \in SUBSET Claims
      /\ no \in SUBSET Claims
  BY NoteShape
<1>3. ok \in BOOLEAN
  OBVIOUS
<1> HIDE DEF ok, no
<1>4. Balanced(l)
  BY <1>1, <1>2, <1>3, RoundBalance
<1> QED BY <1>1, <1>4, Committed

LEMMA ChildResultBalance == ASSUME IInv, Balanced(L), NEW k \in kids, ChildResult(k) PROVE Balanced(L')
<1> DEFINE b == k.branch
<1>1. CASE Live(k) /\ ~settled /\ st[b] = "open"
  <2>1. k \in Kids /\ b \in Branches /\ k.lease # 0
    BY DEF IInv, RunType, Kids
  <2>2. b \in L.children /\ L.status # "settled"
    BY <1>1, <2>1 DEF IInv, Linked, Leased, Live, AtRest
  <2>3. PICK failed \in BOOLEAN, used \in {Zero, Share} : Commit(MergeChild(L, b, used, failed))
    <3>1. CASE \E status \in Terminal, used \in {Zero, Share} : MergeReport(b, status, used)
      BY <3>1 DEF MergeReport
    <3>2. CASE \E failure \in Failures : MergeFailure(b, failure)
      BY <3>2 DEF MergeFailure
    <3> QED BY <1>1, <3>1, <3>2 DEF ChildResult
  <2>4. Balanced(MergeChild(L, b, used, failed))
    BY <2>2, MergeBalance
  <2> QED BY <2>3, <2>4, Committed
<1>2. CASE ~(Live(k) /\ ~settled /\ st[b] = "open")
  BY <1>2 DEF ChildResult
<1> QED BY <1>1, <1>2

LEMMA BalanceStep == ASSUME IInv, Balanced(L), [Next]_vars PROVE Balanced(L')
<1>1. L.status = "settled" => L.children = {}
  BY DEF IInv, Linked, AtRest
<1>2. CASE UNCHANGED vars \/ Tick \/ \E p \in Procs : Deadlines(p)
  BY <1>2 DEF vars, Tick, Deadlines, TimerExpire, DeadlineSeen, LateExpire, Extend, Cancel
<1>3. ASSUME NEW p \in Procs, Retrieval(p) PROVE Balanced(L')
  <2>1. CASE \E n \in Notes : NoteCard(p, n)
    BY <2>1, NoteBalance
  <2>2. CASE \E o \in Ops, r \in Requests : AuthorizeCall(p, o, r[1], r[2])
    <3>1. PICK o \in Ops, r \in Requests : AuthorizeCall(p, o, r[1], r[2])
      BY <2>2
    <3> DEFINE kind == r[1]
               request == r[2]
    <3>2. kind \in {"searches", "reads"} /\ request \in SUBSET Wanted(kind)
      BY <3>1 DEF Requests, Wanted
    <3>3. MayAuthorize(L, o, kind, request) /\ Commit(Authorize(L, o, kind, request, p))
      BY <3>1 DEF AuthorizeCall
    <3> HIDE DEF kind, request
    <3>4. Balanced(Authorize(L, o, kind, request, p))
      BY <3>2, <3>3, AuthorizeBalance
    <3> QED BY <3>3, <3>4, Committed
  <2> QED BY <1>3, <2>1, <2>2 DEF Retrieval
<1>4. ASSUME NEW p \in Procs, Recording(p) PROVE Balanced(L')
  BY <1>4, RecordBalance
<1>5. ASSUME NEW p \in Procs, GraphWork(p) PROVE Balanced(L')
  <2>1. ASSUME NEW b \in Branches, AcquireLease(p, b) PROVE Balanced(L')
    <3>1. MayReserveChild(L, b) /\ Commit(ReserveChild(L, b))
      BY <2>1 DEF AcquireLease
    <3> QED BY <3>1, ReserveBalance, Committed
  <2>2. ASSUME NEW b \in Branches, NEW s \in Terminal, CloseBranch(p, b, s) PROVE Balanced(L')
    <3>1. Commit(Interrupt(L, {b} \cap Leased))
      BY <2>2 DEF CloseBranch
    <3> QED BY <1>1, <3>1, InterruptBalance, Committed
  <2>3. ASSUME NEW b \in Branches, ReopenBranch(p, b) PROVE Balanced(L')
    BY <2>3 DEF ReopenBranch
  <2> QED BY <1>5, <2>1, <2>2, <2>3 DEF GraphWork
<1>6. ASSUME NEW p \in Procs, Closing(p) PROVE Balanced(L')
  <2>1. L' = Settle(L) \/ L' = L
    BY <1>6 DEF Closing, SettleRound, Commit, PlanSettle, Finish, AgentEnd
  <2> QED BY <2>1, SettleBalance
<1>7. ASSUME NEW p \in Procs, Sessions(p) PROVE Balanced(L')
  <2>1. CASE SessionStart(p)
    <3>1. Commit(Interrupt(L, {b \in Leased : st[b] = "open"}))
      BY <2>1 DEF SessionStart
    <3> QED BY <1>1, <3>1, InterruptBalance, Committed
  <2>2. CASE Recover(p)
    <3>1. Commit(RecoverAbandoned(L, Dead))
      BY <2>2 DEF Recover
    <3> QED BY <3>1, RecoverBalance, Committed
  <2>3. CASE Die(p)
    BY <2>3 DEF Die
  <2> QED BY <1>7, <2>1, <2>2, <2>3 DEF Sessions
<1>8. ASSUME NEW o \in Ops, Calls(o) PROVE Balanced(L')
  <2>1. CASE ReceiptLost(o)
    BY <2>1 DEF ReceiptLost
  <2> QED BY <1>8, <2>1, OutcomeBalance DEF Calls
<1>9. ASSUME NEW k \in kids, Children(k) PROVE Balanced(L')
  <2>1. CASE ReleaseLease(k)
    <3>1. k.branch \in Branches
      BY DEF IInv, RunType, Kids
    <3>2. L' = L \/ Commit(ReleaseChild(L, k.branch))
      BY <2>1 DEF ReleaseLease
    <3> QED BY <3>1, <3>2, ReleaseChildBalance, Committed
  <2>2. CASE Launch(k) \/ KidLost(k)
    BY <2>2 DEF Launch, KidLost
  <2> QED BY <1>9, <2>1, <2>2, ChildResultBalance DEF Children
<1> QED BY <1>2, <1>3, <1>4, <1>5, <1>6, <1>7, <1>8, <1>9 DEF Next

(* The budget is never overdrawn and its entries add up, whatever fails,   *)
(* is lost, is recovered or reports late, for every budget and every       *)
(* number of calls.                                                        *)
THEOREM LedgerBalancedAlways == Spec => []LedgerBalanced
<1>1. Init => IInv /\ Balanced(L)
  BY InitOk, EmptyBalance DEF Init
<1>2. IInv /\ Balanced(L) /\ [Next]_vars => (IInv /\ Balanced(L))'
  BY IInvStep, BalanceStep
<1>3. IInv /\ Balanced(L) => LedgerBalanced
  BY DEF Balanced, Sums, Held, Found, Open, Kinds, LedgerBalanced
<1> QED BY <1>1, <1>2, <1>3, PTL DEF Spec

-----------------------------------------------------------------------------
(* What was charged or found is never taken back.                           *)
Keeps(l, m) ==
  /\ l.queries \subseteq m.queries /\ l.read \subseteq m.read /\ l.validated \subseteq m.validated
  /\ l.usable \subseteq m.usable /\ l.lost \subseteq m.lost /\ l.covered \subseteq m.covered
  /\ l.reports \subseteq m.reports

Grows(l, m) == Keeps(l, m) /\ \A k \in Kinds : l.consumed[k] <= m.consumed[k]

\* Given the balance, the columns are numbers.
LEMMA Uncharged ==
  ASSUME NEW l, Balanced(l), NEW m, Keeps(l, m), m.consumed = l.consumed
  PROVE  Grows(l, m)
<1>1. \A k \in Kinds : l.consumed[k] \in Nat
  BY Numbers
<1> QED BY <1>1 DEF Grows

LEMMA Charged ==
  ASSUME NEW l, Balanced(l), NEW m, Keeps(l, m), NEW d, m.consumed = l.consumed (+) d,
         \A k \in Kinds : d[k] \in Nat
  PROVE  Grows(l, m)
<1>1. \A k \in Kinds : l.consumed[k] \in Nat
  BY Numbers
<1>2. \A k \in Kinds : m.consumed[k] = l.consumed[k] + d[k]
  BY Vectors
<1> QED BY <1>1, <1>2 DEF Grows

LEMMA OnlyIsNat == \A j \in Kinds, n \in Nat : \A k \in Kinds : Only(j, n)[k] \in Nat
  BY Vectors

LEMMA ReleaseKeeps ==
  ASSUME NEW l, LedgerType(l), NEW o \in Ops
  PROVE  LET r == Release(l, o) IN
         /\ r.consumed = l.consumed /\ r.queries = l.queries
         /\ \A m : Keeps(r, m) => Keeps(l, m)
<1> DEFINE r == Release(l, o)
           a == l.reserved (-) Only(l.ops[o].kind, l.ops[o].unit)
<1>1. r = [l EXCEPT !.reserved = a, !.ops[o] = Done]
  BY DEF Release
<1> HIDE DEF r, a
<1>2. /\ r.consumed = l.consumed /\ r.queries = l.queries /\ r.read = l.read /\ r.validated = l.validated
      /\ r.usable = l.usable /\ r.lost = l.lost /\ r.covered = l.covered /\ r.reports = l.reports
  BY <1>1 DEF LedgerType, Shape
<1>3. \A m : Keeps(r, m) => Keeps(l, m)
  BY <1>2 DEF Keeps
<1> QED BY <1>2, <1>3 DEF r

LEMMA SearchReceiptGrows ==
  ASSUME NEW l, Balanced(l), NEW o \in Ops, l.ops[o].request \in SUBSET Queries
  PROVE  Grows(l, SearchReceipt(l, o))
<1> DEFINE r   == Release(l, o)
           new == l.ops[o].request \ l.queries
           d   == Only("searches", Cardinality(new))
           m   == SearchReceipt(l, o)
<1>1. m = [r EXCEPT !.consumed = @ (+) d, !.queries = @ \cup new]
  BY DEF SearchReceipt
<1>2. LedgerType(l) /\ LedgerType(r)
  BY ReleaseType DEF Balanced
<1>3. r.consumed = l.consumed /\ \A n : Keeps(r, n) => Keeps(l, n)
  BY <1>2, ReleaseKeeps
<1>4. Cardinality(new) \in Nat
  BY WorkIsFinite
<1>5. \A k \in Kinds : d[k] \in Nat
  BY <1>4, OnlyIsNat DEF Kinds
<1> HIDE DEF r, new, d, m
<1>6. Keeps(r, m) /\ m.consumed = r.consumed (+) d
  BY <1>1, <1>2 DEF Keeps, LedgerType, Shape
<1>7. Grows(l, m)
  BY <1>3, <1>5, <1>6, Charged
<1> QED BY <1>7 DEF m

LEMMA RoundGrows ==
  ASSUME NEW l, Balanced(l), NEW q \in SUBSET Queries, NEW r \in SUBSET Urls, NEW v \in SUBSET Urls,
         NEW ok \in BOOLEAN, NEW c \in SUBSET Claims, NEW x \in SUBSET Claims, NEW y,
         NEW m \in Rounds(l, q, r, v, ok, c, x, y)
  PROVE  Keeps(l, m) /\ Grows(l, m)
<1>1. PICK qs \in SUBSET Queries, rs \in SUBSET Urls, vs \in SUBSET Urls : m = Round(l, qs, rs, vs, ok, c, x, y)
  BY DEF Rounds, Accepted
<1> DEFINE d == [searches |-> Cardinality(qs), reads |-> Cardinality(rs), validation |-> Cardinality(vs)]
<1>2. LedgerType(l)
  BY DEF Balanced
<1>3. m.consumed = l.consumed (+) d /\ m.queries = l.queries \cup qs /\ m.read = l.read \cup rs
      /\ m.validated = l.validated \cup vs
  BY <1>1, <1>2 DEF Round, LedgerType, Shape
<1>4. m.usable = (IF ok THEN l.usable \cup vs ELSE l.usable) /\ m.covered = l.covered \cup c
      /\ m.lost = l.lost /\ m.reports = l.reports
  BY <1>1, <1>2 DEF Round, LedgerType, Shape
<1>5. Keeps(l, m)
  BY <1>3, <1>4 DEF Keeps
<1>6. Cardinality(qs) \in Nat /\ Cardinality(rs) \in Nat /\ Cardinality(vs) \in Nat
  BY WorkIsFinite
<1>7. \A k \in Kinds : d[k] \in Nat
  BY <1>6 DEF Kinds
<1> HIDE DEF d
<1> QED BY <1>3, <1>5, <1>7, Charged

LEMMA ReadReceiptGrows ==
  ASSUME NEW l, Balanced(l), NEW o \in InFlight(l), l.ops[o].kind = "reads", NEW m \in ReadReceipts(l, o)
  PROVE  Grows(l, m)
<1> DEFINE r  == Release(l, o)
           us == l.ops[o].request
           ok == FALSE
           no == {}
<1>1. LedgerType(l) /\ o \in Ops /\ us \in SUBSET Urls
  BY OpenOp DEF Balanced, Wanted
<1>2. Balanced(r)
  BY ReleaseBalance
<1>3. m \in Rounds(r, no, us, no, ok, no, no, no)
  BY DEF ReadReceipts
<1>4. no \in SUBSET Queries /\ no \in SUBSET Claims /\ no \in SUBSET Urls /\ ok \in BOOLEAN
  OBVIOUS
<1>5. r.consumed = l.consumed /\ (Keeps(r, m) => Keeps(l, m))
  BY <1>1, ReleaseKeeps
<1> HIDE DEF r, us, ok, no
<1>6. Keeps(r, m) /\ Grows(r, m)
  BY <1>1, <1>2, <1>3, <1>4, RoundGrows
<1> QED BY <1>5, <1>6 DEF Grows

LEMMA RecoverGrows ==
  ASSUME NEW l, Balanced(l), NEW dead
  PROVE  Grows(l, RecoverAbandoned(l, dead))
<1> DEFINE gone == Abandoned(l, dead)
           searches == OfKind(l, gone, "searches")
           reads == OfKind(l, gone, "reads")
           new == (UNION {l.ops[o].request : o \in searches}) \ l.queries
           lost == UNION {l.ops[o].request : o \in reads}
           a == Only("searches", Cardinality(new))
           b == Only("reads", Units(l, reads))
           reserved == l.reserved (-) Only("searches", Units(l, searches)) (-) Only("reads", Units(l, reads))
           lostReads == l.lostReads + Units(l, reads)
           ops == [o \in Ops |-> IF o \in gone THEN Done ELSE l.ops[o]]
           m == RecoverAbandoned(l, dead)
<1>1. LedgerType(l)
  BY DEF Balanced
<1>2. CASE gone = {}
  <2>1. m = l
    BY <1>2 DEF RecoverAbandoned
  <2> QED BY <2>1, Uncharged DEF Keeps
<1>3. CASE gone # {}
  <2>1. m = [l EXCEPT !.reserved = reserved, !.consumed = @ (+) a (+) b, !.queries = @ \cup new,
                      !.lost = @ \cup lost, !.lostReads = lostReads, !.ops = ops]
    BY <1>1, <1>3 DEF RecoverAbandoned, LedgerType, Shape
  <2>2. Cardinality(new) \in Nat
    <3>1. \A o \in searches : l.ops[o].request \in SUBSET Queries
      <4>1. \A o \in searches : o \in InFlight(l) /\ l.ops[o].kind = "searches"
        BY DEF OfKind, Abandoned
      <4> QED BY <1>1, <4>1, OpenOp DEF Wanted
    <3>2. new \in SUBSET Queries
      BY <3>1
    <3> QED BY <3>2, WorkIsFinite
  <2>3. Units(l, reads) \in Nat
    <3>1. reads \in SUBSET InFlight(l)
      BY DEF OfKind, Abandoned
    <3> HIDE DEF reads
    <3> QED BY <1>1, <3>1, PlacesFinite
  <2>4. \A k \in Kinds : a[k] \in Nat /\ b[k] \in Nat
    BY <2>2, <2>3, OnlyIsNat DEF Kinds
  <2> HIDE DEF m, gone, searches, reads, new, lost, a, b, reserved, lostReads, ops
  <2>5. Keeps(l, m) /\ m.consumed = l.consumed (+) a (+) b
    BY <1>1, <2>1 DEF Keeps, LedgerType, Shape
  <2>6. \A k \in Kinds : l.consumed[k] \in Nat
    BY Numbers
  <2>7. \A k \in Kinds : m.consumed[k] = l.consumed[k] + a[k] + b[k]
    BY <2>5, Vectors
  <2>8. Grows(l, m)
    BY <2>4, <2>5, <2>6, <2>7 DEF Grows
  <2> QED BY <2>8 DEF m
<1> QED BY <1>2, <1>3

LEMMA ChildGrows ==
  ASSUME NEW l, Balanced(l), NEW b
  PROVE  Grows(l, ReserveChild(l, b)) /\ Grows(l, ReleaseChild(l, b))
<1>1. LedgerType(l)
  BY DEF Balanced
<1>2. ASSUME NEW m \in {l, ReserveChild(l, b), ReleaseChild(l, b)} PROVE Grows(l, m)
  <2>1. Keeps(l, m) /\ m.consumed = l.consumed
    BY <1>1, <1>2 DEF Keeps, ReserveChild, ReleaseChild, LedgerType, Shape
  <2> QED BY <2>1, Uncharged
<1> QED BY <1>2

LEMMA MergeGrows ==
  ASSUME NEW l, Balanced(l), NEW b, NEW used \in {Zero, Share}, NEW failed \in BOOLEAN
  PROVE  Grows(l, MergeChild(l, b, used, failed))
<1> DEFINE d == IF failed THEN Share ELSE used
           m == MergeChild(l, b, used, failed)
<1>1. LedgerType(l)
  BY DEF Balanced
<1>2. \A k \in Kinds : d[k] \in Nat
  BY Vectors
<1> HIDE DEF d
<1>3. CASE l.status = "settled" \/ b \notin l.children
  <2>1. m = l
    BY <1>3 DEF MergeChild
  <2> QED BY <2>1, Uncharged DEF Keeps
<1>4. CASE l.status # "settled" /\ b \in l.children
  <2>1. m = [l EXCEPT !.children = @ \ {b}, !.reports = @ \cup {b}, !.reserved = @ (-) Share,
                      !.consumed = @ (+) d, !.childSpent = @ (+) d, !.status = IF failed THEN "blocked" ELSE @]
    BY <1>4 DEF MergeChild, d
  <2> HIDE DEF m
  <2>2. Keeps(l, m) /\ m.consumed = l.consumed (+) d
    BY <1>1, <2>1 DEF Keeps, LedgerType, Shape
  <2>3. Grows(l, m)
    BY <1>2, <2>2, Charged
  <2> QED BY <2>3 DEF m
<1> QED BY <1>3, <1>4

LEMMA InterruptGrows ==
  ASSUME NEW l, Balanced(l), NEW bs
  PROVE  Grows(l, Interrupt(l, bs))
<1> DEFINE gone == bs \cap l.children
           d == Times(Cardinality(gone), Share)
           m == Interrupt(l, bs)
<1>1. LedgerType(l) /\ OnlyOne(l)
  BY DEF Balanced
<1>2. CASE l.status = "settled" \/ gone = {}
  <2>1. m = l
    BY <1>2 DEF Interrupt
  <2> QED BY <2>1, Uncharged DEF Keeps
<1>3. CASE l.status # "settled" /\ gone # {}
  <2>1. Cardinality(gone) \in Nat
    <3>1. PICK b \in gone : TRUE
      BY <1>3
    <3>2. gone = {b}
      BY <1>1, ChildCount
    <3> QED BY <3>2, FS_Singleton
  <2>2. \A k \in Kinds : d[k] \in Nat
    BY <2>1, Vectors DEF Times
  <2>3. m = [l EXCEPT !.children = @ \ gone, !.reports = @ \cup gone, !.status = "blocked",
                      !.reserved = @ (-) d, !.consumed = @ (+) d, !.childSpent = @ (+) d]
    BY <1>3 DEF Interrupt
  <2> HIDE DEF m, d, gone
  <2>4. Keeps(l, m) /\ m.consumed = l.consumed (+) d
    BY <1>1, <2>3 DEF Keeps, LedgerType, Shape
  <2>5. Grows(l, m)
    BY <2>2, <2>4, Charged
  <2> QED BY <2>5 DEF m
<1> QED BY <1>2, <1>3

LEMMA CommittedGrows == \A l : Grows(L, l) /\ Commit(l) => Grows(L, L')
  BY DEF Commit

LEMMA RetrievalGrows ==
  ASSUME Balanced(L), NEW p \in Procs, Retrieval(p) \/ Recording(p)
  PROVE  Grows(L, L')
<1>1. CASE \E o \in Ops, r \in Requests : AuthorizeCall(p, o, r[1], r[2])
  <2>1. PICK o \in Ops, r \in Requests : AuthorizeCall(p, o, r[1], r[2])
    BY <1>1
  <2> DEFINE m == Authorize(L, o, r[1], r[2], p)
  <2>2. Keeps(L, m) /\ m.consumed = L.consumed
    BY DEF Keeps, Authorize, Balanced, LedgerType, Shape
  <2>3. Commit(m)
    BY <2>1 DEF AuthorizeCall
  <2> HIDE DEF m
  <2>4. Grows(L, m)
    BY <2>2, Uncharged
  <2> QED BY <2>3, <2>4, CommittedGrows
<1>2. ASSUME NEW n \in Notes, NoteCard(p, n) PROVE Grows(L, L')
  <2> DEFINE ok == n.covers # {}
             no == {}
  <2>1. PICK l : Commit(l) /\ l \in Rounds(L, no, no, {n.page}, ok, n.covers, no, no)
    BY <1>2 DEF NoteCard
  <2>2. no \in SUBSET Queries /\ no \in SUBSET Urls /\ {n.page} \in SUBSET Urls /\ n.covers \in SUBSET Claims
        /\ no \in SUBSET Claims
    BY NoteShape
  <2>3. ok \in BOOLEAN
    OBVIOUS
  <2> HIDE DEF ok, no
  <2>4. Grows(L, l)
    BY <2>1, <2>2, <2>3, RoundGrows
  <2> QED BY <2>1, <2>4, CommittedGrows
<1>3. ASSUME NEW r \in Proposals, RecordRound(p, r) PROVE Grows(L, L')
  <2>1. PICK l : Commit(l) /\ l \in Rounds(L, r.queries, r.reads, r.validation, r.ok, r.covers, r.opens, r.closes)
    BY <1>3 DEF RecordRound
  <2>2. r.queries \in SUBSET Queries /\ r.reads \in SUBSET Urls /\ r.validation \in SUBSET Urls
        /\ r.covers \in SUBSET Claims /\ r.opens \in SUBSET Claims
    BY ProposalShape
  <2>3. r.ok \in BOOLEAN
    BY ProposalShape
  <2>4. Grows(L, l)
    BY <2>1, <2>2, <2>3, RoundGrows
  <2> QED BY <2>1, <2>4, CommittedGrows
<1> QED BY <1>1, <1>2, <1>3 DEF Retrieval, Recording

LEMMA OutcomeGrows == ASSUME IInv, Balanced(L), NEW o \in Ops, Outcome(o) PROVE Grows(L, L')
<1>1. o \in InFlight(L) /\ L.ops[o].kind \in {"searches", "reads"} /\ L.ops[o].request \in SUBSET Wanted(L.ops[o].kind)
  <2>1. o \in InFlight(L) /\ LedgerType(L)
    BY DEF Outcome, IInv, Linked, Owned, InFlight
  <2> QED BY <2>1, OpenOp
<1>2. PICK l : Commit(l) /\ l \in IF L.ops[o].kind = "searches" THEN {SearchReceipt(L, o)} ELSE ReadReceipts(L, o)
  BY DEF Outcome
<1>3. CASE L.ops[o].kind = "searches"
  <2>1. L.ops[o].request \in SUBSET Queries /\ l = SearchReceipt(L, o)
    BY <1>1, <1>2, <1>3 DEF Wanted
  <2>2. Grows(L, SearchReceipt(L, o))
    BY <2>1, SearchReceiptGrows
  <2> QED BY <1>2, <2>1, <2>2, CommittedGrows
<1>4. CASE L.ops[o].kind = "reads"
  <2>1. l \in ReadReceipts(L, o)
    BY <1>2, <1>4
  <2>2. Grows(L, l)
    BY <1>1, <1>4, <2>1, ReadReceiptGrows
  <2> QED BY <1>2, <2>2, CommittedGrows
<1> QED BY <1>1, <1>3, <1>4

LEMMA ChildrenGrow == ASSUME IInv, Balanced(L), NEW k \in kids, Children(k) PROVE Grows(L, L')
<1>0. Grows(L, L)
  BY Uncharged DEF Keeps
<1>1. CASE Launch(k) \/ KidLost(k)
  BY <1>0, <1>1 DEF Launch, KidLost
<1>2. CASE ReleaseLease(k)
  <2>1. L' = L \/ Commit(ReleaseChild(L, k.branch))
    BY <1>2 DEF ReleaseLease
  <2> QED BY <1>0, <2>1, ChildGrows, CommittedGrows
<1>3. CASE ChildResult(k)
  <2>1. L' = L \/ \E used \in {Zero, Share}, failed \in BOOLEAN : Commit(MergeChild(L, k.branch, used, failed))
    <3>1. CASE \E status \in Terminal, used \in {Zero, Share} : MergeReport(k.branch, status, used)
      BY <3>1 DEF MergeReport
    <3>2. CASE \E failure \in Failures : MergeFailure(k.branch, failure)
      BY <3>2 DEF MergeFailure
    <3> QED BY <1>3, <3>1, <3>2 DEF ChildResult
  <2> QED BY <1>0, <2>1, MergeGrows, CommittedGrows
<1> QED BY <1>1, <1>2, <1>3 DEF Children

LEMMA GrowthStep == ASSUME IInv, Balanced(L), [Next]_vars PROVE Grows(L, L')
<1>0. Grows(L, L)
  BY Uncharged DEF Keeps
<1>1. CASE UNCHANGED vars \/ Tick \/ \E p \in Procs : Deadlines(p)
  BY <1>0, <1>1 DEF vars, Tick, Deadlines, TimerExpire, DeadlineSeen, LateExpire, Extend, Cancel
<1>2. ASSUME NEW p \in Procs, GraphWork(p) PROVE Grows(L, L')
  <2>1. \/ L' = L \/ \E b : Commit(ReserveChild(L, b))
        \/ \E b : Commit(Interrupt(L, {b} \cap Leased))
    BY <1>2 DEF GraphWork, AcquireLease, ReopenBranch, CloseBranch
  <2> QED BY <1>0, <2>1, ChildGrows, InterruptGrows, CommittedGrows
<1>3. ASSUME NEW p \in Procs, Closing(p) PROVE Grows(L, L')
  <2>1. L' = Settle(L) \/ L' = L
    BY <1>3 DEF Closing, SettleRound, Commit, PlanSettle, Finish, AgentEnd
  <2>2. Keeps(L, Settle(L)) /\ Settle(L).consumed = L.consumed
    BY DEF Keeps, Settle, Balanced, LedgerType, Shape
  <2> QED BY <1>0, <2>1, <2>2, Uncharged
<1>4. ASSUME NEW p \in Procs, Sessions(p) PROVE Grows(L, L')
  <2>1. CASE SessionStart(p)
    <3>1. Commit(Interrupt(L, {b \in Leased : st[b] = "open"}))
      BY <2>1 DEF SessionStart
    <3> QED BY <3>1, InterruptGrows, CommittedGrows
  <2>2. CASE Recover(p)
    BY <2>2, RecoverGrows, CommittedGrows DEF Recover
  <2>3. CASE Die(p)
    BY <1>0, <2>3 DEF Die
  <2> QED BY <1>4, <2>1, <2>2, <2>3 DEF Sessions
<1>5. ASSUME NEW o \in Ops, ReceiptLost(o) PROVE Grows(L, L')
  BY <1>0, <1>5 DEF ReceiptLost
<1> QED BY <1>1, <1>2, <1>3, <1>4, <1>5, RetrievalGrows, OutcomeGrows, ChildrenGrow DEF Next, Calls

(* No failure, late answer, lost receipt, interrupted child or recovery     *)
(* gives back what was charged, or drops evidence that was accepted.        *)
THEOREM ChargesStand == Spec => [][Grows(L, L')]_vars
<1>1. Init => IInv /\ Balanced(L)
  BY InitOk, EmptyBalance DEF Init
<1>2. IInv /\ Balanced(L) /\ [Next]_vars => (IInv /\ Balanced(L))'
  BY IInvStep, BalanceStep
<1>3. IInv /\ Balanced(L) /\ [Next]_vars => [Grows(L, L')]_vars
  BY GrowthStep
<1> QED BY <1>1, <1>2, <1>3, PTL DEF Spec
=============================================================================
