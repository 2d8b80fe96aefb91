----------------------------- MODULE PlanProofs -----------------------------
(***************************************************************************)
(* The guarantees of the plan, for any number of items and any limits, and *)
(* of the lock under which processes change it.                            *)
(*                                                                         *)
(* The inductive invariant of the items adds to the properties that the    *)
(* dependencies are acyclic and that only graph plans are ever settled.    *)
(*                                                                         *)
(* A lock is taken over in two steps, so a second process that waits for   *)
(* the same dead owner may remove the lock the first one has just taken, a *)
(* race the project knows of and accepts                                   *)
(* (docs/HARNESS_MODERNIZATION_2026-10.md).  With one waiter at most, or   *)
(* when nobody dies, the lock excludes and no update is lost.              *)
(***************************************************************************)
EXTENDS PlanItems, PlanLock, FiniteSetTheorems, WellFoundedInduction, TLAPS

AcyclicInv == Acyclic(deps)
SettledInv == settled => PlanGraph

IInv == TypeOK /\ AcyclicInv /\ StartedAfterDeps /\ OneInProgress /\ SettledInv

-----------------------------------------------------------------------------
(* No dependencies, no cycle.                                              *)
LEMMA EmptyIsAcyclic == Acyclic([i \in Items |-> {}])
<1> DEFINE r == [i \in Items |-> 1]
<1>1. ASSUME NEW i \in Items PROVE 1 \in 1..Cardinality(Items)
  BY ItemsFinite, FS_CardinalityType, FS_EmptySet
<1>2. r \in Ranks
  BY <1>1 DEF Ranks
<1>3. RankedBy([i \in Items |-> {}], r)
  BY DEF RankedBy
<1> QED BY <1>2, <1>3 DEF Acyclic

(* Every check of a whole plan includes its dependencies, and excludes     *)
(* running work with an unmet one.                                         *)
LEMMA ValidHas ==
  ASSUME NEW st, NEW dp, NEW pa, NEW hd, NEW se, NEW ph, Valid(st, dp, pa, hd, se, ph)
  PROVE  /\ Acyclic(dp)
         /\ \A i \in Items : \A d \in dp[i] : d # i /\ st[d] # "absent"
         /\ \A i \in Items : st[i] = "in_progress" => \A d \in dp[i] : st[d] = "done"
  BY DEF Valid, StructureOk, DependencyStatusOk, Unmet

-----------------------------------------------------------------------------
(* A set of items that is not empty has one of lowest rank.  The sets of   *)
(* items ranked below each are ordered by inclusion, which is well founded *)
(* on the subsets of a finite set.                                         *)
LEMMA LowestItem ==
  ASSUME NEW r \in Ranks, NEW S \in SUBSET Items, S # {}
  PROVE  \E i \in S : \A j \in S : ~ (r[j] < r[i])
<1> DEFINE Below(i) == {j \in Items : r[j] < r[i]}
           Downs == {Below(i) : i \in S}
           R == StrictSubsetOrdering(Items)
<1>1. IsWellFoundedOn(R, SUBSET Items)
  BY ItemsFinite, FS_FiniteSubsetsOfFinite, FS_StrictSubsetOrderingWellFounded
<1>2. Downs \subseteq SUBSET Items /\ Downs # {}
  OBVIOUS
<1>3. PICK D \in Downs : \A E \in Downs : ~ (<<E, D>> \in R)
  <2> HIDE DEF Downs, R
  <2> QED BY <1>1, <1>2, WFMin
<1>4. PICK i \in S : D = Below(i)
  OBVIOUS
<1>5. ASSUME NEW j \in S, r[j] < r[i] PROVE FALSE
  <2>1. \A k \in Items : r[k] \in Nat
    <3>1. Cardinality(Items) \in Nat
      BY ItemsFinite, FS_CardinalityType
    <3> QED BY <3>1 DEF Ranks
  <2>2. Below(j) \subseteq Below(i)
    BY <1>5, <2>1
  <2>3. j \in Below(i) /\ j \notin Below(j)
    BY <1>5, <2>1
  <2>4. <<Below(j), Below(i)>> \in R
    BY <2>2, <2>3 DEF StrictSubsetOrdering
  <2> QED BY <2>4, <1>3, <1>4
<1> QED BY <1>5

(* With acyclic dependencies, a pending item of lowest rank waits for no   *)
(* pending one: it is ready, or it waits for running, blocked or deferred  *)
(* work.                                                                   *)
LEMMA AcyclicIsLive == TypeOK /\ AcyclicInv => StuckIsReported
<1> SUFFICES ASSUME TypeOK, AcyclicInv,
                    ~ AllTerminal(status),
                    \A i \in Items : status[i] # "in_progress",
                    Ready = {}
             PROVE  \E i \in Items : /\ status[i] = "pending"
                                     /\ \E d \in deps[i] : status[d] \in {"blocked", "deferred"}
  BY DEF StuckIsReported
<1> DEFINE Pending == {i \in Items : status[i] = "pending"}
<1>1. Pending # {}
  BY DEF AllTerminal, Terminal, Statuses, Open, TypeOK
<1>2. PICK r \in Ranks : RankedBy(deps, r)
  BY DEF AcyclicInv, Acyclic
<1>3. PICK i \in Pending : \A j \in Pending : ~ (r[j] < r[i])
  BY <1>1, LowestItem
<1>4. PICK d \in deps[i] : status[d] # "done"
  BY DEF Ready, Unmet
<1>5. d \in Items /\ status[d] # "absent"
  BY <1>4 DEF TypeOK, Present
<1>6. status[d] # "pending"
  BY <1>2, <1>3, <1>4, <1>5 DEF RankedBy
<1>7. status[d] \in {"blocked", "deferred"}
  BY <1>4, <1>5, <1>6 DEF TypeOK, Statuses, Open, Terminal
<1> QED BY <1>4, <1>7
-----------------------------------------------------------------------------
LEMMA InitInvariant == Init => IInv
<1> SUFFICES ASSUME Init PROVE IInv
  OBVIOUS
<1>1. AcyclicInv
  BY EmptyIsAcyclic DEF AcyclicInv, Init
<1> QED BY <1>1 DEF Init, IInv, TypeOK, Present, StartedAfterDeps, OneInProgress, SettledInv

(* /plan, its failure and /plan-cancel leave no item.                      *)
LEMMA EraseInvariant ==
  ASSUME Erase, exists' \in BOOLEAN, planning' \in BOOLEAN
  PROVE  IInv'
<1>1. AcyclicInv'
  BY EmptyIsAcyclic DEF AcyclicInv, Erase
<1>2. TypeOK'
  BY DEF TypeOK, Erase, Present
<1> QED BY <1>1, <1>2 DEF IInv, Erase, StartedAfterDeps, OneInProgress, SettledInv

LEMMA WriteInvariant ==
  ASSUME IInv, NEW kept \in SUBSET Items, NEW given \in SUBSET kept,
         NEW list \in [given -> SUBSET Items], PlanWrite(kept, given, list)
  PROVE  IInv'
<1> USE DEF IInv
<1>1. Valid(status', deps', parent', head', settled', phase')
  BY DEF PlanWrite
<1>2. AcyclicInv' /\ StartedAfterDeps'
  BY <1>1, ValidHas DEF AcyclicInv, StartedAfterDeps
<1>3. ASSUME NEW i \in Items
      PROVE  /\ i \notin kept => status'[i] = "absent" /\ deps'[i] = {}
             /\ i \in kept => status'[i] \in {status[i], "pending"} /\ status'[i] # "absent"
  <2>1. CASE i \notin kept
    BY <2>1 DEF PlanWrite, RevisedDeps
  <2>2. CASE i \in kept /\ i \in Present
    <3>1. status'[i] = status[i]
      BY <2>2 DEF PlanWrite
    <3> QED BY <2>2, <3>1 DEF Present
  <2>3. CASE i \in kept /\ i \notin Present
    BY <2>3 DEF PlanWrite
  <2> QED BY <2>1, <2>2, <2>3
<1>4. OneInProgress'
  BY <1>3 DEF OneInProgress
<1>5. TypeOK'
  <2>1. status' \in [Items -> Statuses \cup {"absent"}]
    BY DEF PlanWrite, TypeOK, Statuses, Open
  <2>2. deps' \in [Items -> SUBSET Items]
    BY DEF PlanWrite, RevisedDeps, TypeOK
  <2>3. \A i \in Items : /\ deps'[i] \subseteq Present' \ {i}
                         /\ parent'[i] = None
    BY <1>1, <2>2, ValidHas DEF Present, PlanWrite, Revisable
  <2>4. \A i \in Items \ Present' : deps'[i] = {}
    BY <1>3 DEF Present
  <2> QED BY <2>1, <2>2, <2>3, <2>4 DEF TypeOK, PlanWrite, Kept
<1> QED BY <1>2, <1>4, <1>5 DEF SettledInv, PlanWrite

LEMMA UpdateInvariant ==
  ASSUME IInv, NEW changed \in SUBSET Present, NEW to \in [changed -> DeltaStatuses],
         PlanUpdate(changed, to)
  PROVE  IInv'
<1> USE DEF IInv
<1>1. AcyclicInv' /\ StartedAfterDeps'
  BY ValidHas DEF PlanUpdate, AcyclicInv, StartedAfterDeps
<1>2. OneInProgress'
  BY DEF PlanUpdate, OneActive, OneInProgress
<1>3. status' \in [Items -> Statuses \cup {"absent"}]
  BY DEF PlanUpdate, TypeOK, DeltaStatuses, Present
<1>4. Present' = Present
  BY DEF PlanUpdate, Present, DeltaStatuses, Statuses, Open, Terminal
<1>5. TypeOK'
  BY <1>3, <1>4 DEF TypeOK, PlanUpdate, AllTerminal
<1> QED BY <1>1, <1>2, <1>5 DEF PlanUpdate, SettledInv

LEMMA ExpandInvariant ==
  ASSUME IInv, NEW p \in Items, NEW kids \in SUBSET Items, PlanExpand(p, kids)
  PROVE  IInv'
<1> USE DEF IInv
<1>1. AcyclicInv' /\ StartedAfterDeps'
  BY ValidHas DEF PlanExpand, AcyclicInv, StartedAfterDeps
<1>2. OneInProgress'
  BY DEF PlanExpand, OneInProgress
<1>3. status' \in [Items -> Statuses \cup {"absent"}] /\ parent' \in [Items -> Items \cup {None}]
  BY DEF PlanExpand, TypeOK, Statuses, Open
<1>4. Present' = Present \cup kids
  BY DEF PlanExpand, Present
<1>5. \A i \in Items : /\ deps'[i] \subseteq Present' \ {i}
                       /\ parent'[i] \in Present' \cup {None}
  <2>1. deps' = deps /\ \A i \in Items : parent'[i] \in {p, parent[i]}
    BY DEF PlanExpand, TypeOK
  <2>2. p \in Present
    BY DEF PlanExpand
  <2> QED BY <2>1, <2>2, <1>4 DEF TypeOK
<1>6. \A i \in Items \ Present' : deps'[i] = {} /\ parent'[i] = None
  BY <1>4 DEF TypeOK, PlanExpand
<1>7. TypeOK'
  BY <1>3, <1>5, <1>6 DEF TypeOK, PlanExpand
<1> QED BY <1>1, <1>2, <1>7 DEF PlanExpand, SettledInv

LEMMA StepInvariant == IInv /\ [Next]_vars => IInv'
<1> SUFFICES ASSUME IInv, [Next]_vars PROVE IInv'
  OBVIOUS
<1> USE DEF IInv
<1>1. ASSUME UNCHANGED vars PROVE IInv'
  BY <1>1 DEF vars, plan, TypeOK, Present, AcyclicInv, StartedAfterDeps, OneInProgress, SettledInv
<1>2. ASSUME PlanStart PROVE IInv'
  BY <1>2, EraseInvariant DEF PlanStart
<1>3. ASSUME PlanStartFails PROVE IInv'
  BY <1>3, EraseInvariant DEF PlanStartFails, TypeOK
<1>4. ASSUME PlanCancel PROVE IInv'
  BY <1>4, EraseInvariant DEF PlanCancel
<1>5. ASSUME PlanSettle PROVE IInv'
  BY <1>5 DEF PlanSettle, TypeOK, Present, AcyclicInv, StartedAfterDeps, OneInProgress, SettledInv
<1>6. ASSUME PlanGo PROVE IInv'
  <2>1. TypeOK'
    BY <1>6 DEF PlanGo, TypeOK, Present, Kept
  <2> QED BY <1>6, <2>1 DEF PlanGo, AcyclicInv, StartedAfterDeps, OneInProgress, SettledInv
<1>7. ASSUME Restart PROVE IInv'
  BY <1>7 DEF Restart, plan, TypeOK, Present, AcyclicInv, StartedAfterDeps, OneInProgress, SettledInv
<1>8. ASSUME NEW kept \in SUBSET Items, NEW given \in SUBSET kept,
             NEW list \in [given -> SUBSET Items], PlanWrite(kept, given, list)
      PROVE  IInv'
  BY <1>8, WriteInvariant
<1>9. ASSUME NEW changed \in SUBSET Present, NEW to \in [changed -> DeltaStatuses],
             PlanUpdate(changed, to)
      PROVE  IInv'
  BY <1>9, UpdateInvariant
<1>10. ASSUME NEW p \in Items, NEW kids \in SUBSET Items, PlanExpand(p, kids) PROVE IInv'
  BY <1>10, ExpandInvariant
<1> QED
  BY <1>1, <1>2, <1>3, <1>4, <1>5, <1>6, <1>7, <1>8, <1>9, <1>10 DEF Next

(* The inductive invariant of the plan holds after every operation.        *)
THEOREM Invariance == Spec => []IInv
  BY InitInvariant, StepInvariant, PTL DEF Spec

-----------------------------------------------------------------------------
(* Every operation keeps the plan's types and leaves no dangling reference *)
(* to a dependency or a parent.                                            *)
THEOREM TypeCorrect == Spec => []TypeOK
<1>1. IInv => TypeOK
  BY DEF IInv
<1> QED BY Invariance, <1>1, PTL

(* No item is in progress before everything it depends on is done.         *)
THEOREM RunningAfterDeps == Spec => []StartedAfterDeps
<1>1. IInv => StartedAfterDeps
  BY DEF IInv
<1> QED BY Invariance, <1>1, PTL

(* No sequence of operations leaves two items in progress.                 *)
THEOREM AtMostOneRuns == Spec => []OneInProgress
<1>1. IInv => OneInProgress
  BY DEF IInv
<1> QED BY Invariance, <1>1, PTL

(* A plan with open work always has running or ready work, or work behind  *)
(* a blocked or deferred item.                                             *)
THEOREM NoSilentStandstill == Spec => []StuckIsReported
<1>1. IInv => StuckIsReported
  BY AcyclicIsLive DEF IInv
<1> QED BY Invariance, <1>1, PTL

-----------------------------------------------------------------------------
(* What a step may not do: one step for each operation that changes an     *)
(* item, the others having erased the plan or kept its items.              *)
LEMMA DoneStep ==
  IInv /\ [Next]_vars =>
    \A i \in Items : status[i] # "done" /\ status'[i] = "done" =>
      \A d \in deps'[i] : status'[d] = "done"
<1> SUFFICES ASSUME IInv, [Next]_vars, NEW i \in Items,
                    status[i] # "done", status'[i] = "done"
             PROVE  \A d \in deps'[i] : status'[d] = "done"
  OBVIOUS
<1>1. ASSUME NEW kept \in SUBSET Items, NEW given \in SUBSET kept,
             NEW list \in [given -> SUBSET Items], PlanWrite(kept, given, list)
      PROVE  FALSE
  BY <1>1 DEF PlanWrite
<1>2. ASSUME NEW changed \in SUBSET Present, NEW to \in [changed -> DeltaStatuses],
             PlanUpdate(changed, to)
      PROVE  \A d \in deps'[i] : status'[d] = "done"
  BY <1>2 DEF PlanUpdate, DependencyStatusOk, Unmet
<1>3. ASSUME NEW p \in Items, NEW kids \in SUBSET Items, PlanExpand(p, kids) PROVE FALSE
  BY <1>3 DEF PlanExpand
<1>4. ASSUME Erase PROVE FALSE
  BY <1>4 DEF Erase
<1>5. ASSUME status' = status PROVE FALSE
  BY <1>5
<1> QED BY <1>1, <1>2, <1>3, <1>4, <1>5
        DEF Next, PlanStart, PlanStartFails, PlanCancel, PlanSettle, PlanGo, Restart, vars, plan

LEMMA OpenStep ==
  IInv /\ [Next]_vars =>
    (exists /\ phase = "executing" /\ phase' = "executing" =>
       \A i \in Items : status[i] \in Open => status'[i] # "absent")
<1> SUFFICES ASSUME IInv, [Next]_vars, exists, phase = "executing", phase' = "executing",
                    NEW i \in Items, status[i] \in Open
             PROVE  status'[i] # "absent"
  OBVIOUS
<1>1. ASSUME NEW kept \in SUBSET Items, NEW given \in SUBSET kept,
             NEW list \in [given -> SUBSET Items], PlanWrite(kept, given, list)
      PROVE  status'[i] # "absent"
  BY <1>1 DEF PlanWrite, OmitsNoOpenWork, Present, Open
<1>2. ASSUME NEW changed \in SUBSET Present, NEW to \in [changed -> DeltaStatuses],
             PlanUpdate(changed, to)
      PROVE  status'[i] # "absent"
  BY <1>2 DEF PlanUpdate, DeltaStatuses, Statuses, Open, Terminal
<1>3. ASSUME NEW p \in Items, NEW kids \in SUBSET Items, PlanExpand(p, kids)
      PROVE  status'[i] # "absent"
  BY <1>3 DEF PlanExpand, Open
<1>4. ASSUME Erase PROVE FALSE
  BY <1>4 DEF Erase
<1>5. ASSUME status' = status PROVE status'[i] # "absent"
  BY <1>5 DEF Open
<1> QED BY <1>1, <1>2, <1>3, <1>4, <1>5
        DEF Next, PlanStart, PlanStartFails, PlanCancel, PlanSettle, PlanGo, Restart, vars, plan

LEMMA SettledStep ==
  IInv /\ [Next]_vars =>
    (settled /\ settled' => UNCHANGED <<phase, status, deps, parent>>)
<1> SUFFICES ASSUME IInv, [Next]_vars, settled, settled'
             PROVE  UNCHANGED <<phase, status, deps, parent>>
  OBVIOUS
<1>1. ASSUME PlanGo PROVE FALSE
  <2>1. AllTerminal(status)
    BY <1>1 DEF PlanGo, Valid, GraphOk, IInv, SettledInv
  <2> QED BY <1>1, <2>1 DEF PlanGo, AllTerminal, Open, Terminal
<1>2. ASSUME Erase PROVE FALSE
  BY <1>2 DEF Erase
<1> QED BY <1>1, <1>2
        DEF Next, PlanStart, PlanStartFails, PlanCancel, PlanSettle, Restart, PlanWrite,
            Revisable, PlanUpdate, PlanExpand, vars, plan

(* An item is marked done only after what it depends on.                   *)
THEOREM DoneAfterDeps == Spec => NewlyDoneAfterDeps
<1>1. IInv /\ [Next]_vars =>
        [\A i \in Items : status[i] # "done" /\ status'[i] = "done" =>
           \A d \in deps'[i] : status'[d] = "done"]_vars
  BY DoneStep
<1> QED BY Invariance, <1>1, PTL DEF Spec, NewlyDoneAfterDeps

(* An executing plan loses no open item.                                   *)
THEOREM OpenWorkStays == Spec => OpenWorkKept
<1>1. IInv /\ [Next]_vars =>
        [exists /\ phase = "executing" /\ phase' = "executing" =>
           \A i \in Items : status[i] \in Open => status'[i] # "absent"]_vars
  BY OpenStep
<1> QED BY Invariance, <1>1, PTL DEF Spec, OpenWorkKept

(* A settled plan does not change.                                         *)
THEOREM SettledStays == Spec => SettledFrozen
<1>1. IInv /\ [Next]_vars => [settled /\ settled' => UNCHANGED <<phase, status, deps, parent>>]_vars
  BY SettledStep
<1> QED BY Invariance, <1>1, PTL DEF Spec, SettledFrozen
-----------------------------------------------------------------------------
(* The plan lock.                                                          *)

(* Whoever got past Create has the lock until it removes it, unless it was *)
(* taken from him.                                                         *)
Past == {"created", "reading", "writing", "releasing", "unlinking"}
OwnInv == usurped \/ \A p \in alive : pc[p] \in Past => lock.owner = p

(* Only a dead process's lock grows old, and whoever is about to remove a  *)
(* lock judged a dead process's.                                           *)
AgeInv == lock.old => lock.owner \notin alive
StealInv == \A p \in alive : pc[p] = "stealing" => judged[p] \in Procs \ alive

(* Who is about to write read the latest revision.                         *)
CopyInv == usurped \/ \A p \in alive : pc[p] = "writing" => copy[p] = file

(* What a process may write is at most one more than the completed writes. *)
Bounds == file =< commits /\ \A p \in Procs : copy[p] =< commits

LockInv == /\ LockTypeOK /\ Bounds
           /\ OwnInv /\ AgeInv /\ StealInv /\ CopyInv /\ NoLostUpdate

-----------------------------------------------------------------------------
(* The types hold for any number of processes and crashes.                 *)
LEMMA LockTypeInit == LockInit => LockTypeOK /\ Bounds
<1> SUFFICES ASSUME LockInit PROVE LockTypeOK /\ Bounds
  OBVIOUS
<1>1. 0 \in 0..MaxWrites
  BY PlanLockBounds
<1>2. /\ pc \in [Procs -> Steps] /\ copy \in [Procs -> 0..MaxWrites]
      /\ judged \in [Procs -> Procs \cup {NoProc}]
  BY <1>1 DEF LockInit, Steps
<1>3. Bounds
  BY DEF LockInit, Bounds
<1> QED
  BY <1>1, <1>2, <1>3 DEF LockInit, LockTypeOK

LEMMA LockTypeStep == LockTypeOK /\ Bounds /\ [LockNext]_lockVars => LockTypeOK' /\ Bounds'
<1> USE PlanLockBounds, NoProcIsNone DEF LockTypeOK, Bounds, NoLock, Steps, Goto, theft
<1> SUFFICES ASSUME LockTypeOK, Bounds, [LockNext]_lockVars PROVE LockTypeOK' /\ Bounds'
  OBVIOUS
<1>1. CASE UNCHANGED lockVars
  BY <1>1 DEF lockVars
<1>2. ASSUME Age PROVE LockTypeOK' /\ Bounds'
  <2>1. lock' \in {NoLock} \cup [owner: Procs, written: BOOLEAN, old: BOOLEAN]
    BY <1>2 DEF Age
  <2> QED BY <1>2, <2>1 DEF Age
<1>3. ASSUME NEW p \in Procs, Request(p) PROVE LockTypeOK' /\ Bounds'
  BY <1>3 DEF Request
<1>4. ASSUME NEW p \in Procs, Create(p) PROVE LockTypeOK' /\ Bounds'
  BY <1>4 DEF Create
<1>5. ASSUME NEW p \in Procs, WriteOwner(p) PROVE LockTypeOK' /\ Bounds'
  <2>1. CASE lock.owner = p
    <3>1. lock \in [owner: Procs, written: BOOLEAN, old: BOOLEAN]
      BY <2>1
    <3>2. lock' \in [owner: Procs, written: BOOLEAN, old: BOOLEAN]
      BY <1>5, <2>1, <3>1 DEF WriteOwner
    <3> QED BY <1>5, <3>2 DEF WriteOwner
  <2>2. CASE lock.owner # p
    BY <1>5, <2>2 DEF WriteOwner
  <2> QED BY <2>1, <2>2
<1>6. ASSUME NEW p \in Procs, LookForStale(p) PROVE LockTypeOK' /\ Bounds'
  BY <1>6 DEF LookForStale
<1>7. ASSUME NEW p \in Procs, UnlinkStale(p) PROVE LockTypeOK' /\ Bounds'
  BY <1>7 DEF UnlinkStale
<1>8. ASSUME NEW p \in Procs, Wait(p) PROVE LockTypeOK' /\ Bounds'
  BY <1>8 DEF Wait
<1>9. ASSUME NEW p \in Procs, Retry(p) PROVE LockTypeOK' /\ Bounds'
  BY <1>9 DEF Retry
<1>10. ASSUME NEW p \in Procs, GiveUp(p) PROVE LockTypeOK' /\ Bounds'
  BY <1>10 DEF GiveUp
<1>11. ASSUME NEW p \in Procs, ReadState(p) PROVE LockTypeOK' /\ Bounds'
  BY <1>11 DEF ReadState
<1>12. ASSUME NEW p \in Procs, WriteState(p) PROVE LockTypeOK' /\ Bounds'
  BY <1>12 DEF WriteState
<1>13. ASSUME NEW p \in Procs, LeaveState(p) PROVE LockTypeOK' /\ Bounds'
  BY <1>13 DEF LeaveState
<1>14. ASSUME NEW p \in Procs, ReadOwner(p) PROVE LockTypeOK' /\ Bounds'
  BY <1>14 DEF ReadOwner
<1>15. ASSUME NEW p \in Procs, UnlinkOwn(p) PROVE LockTypeOK' /\ Bounds'
  BY <1>15 DEF UnlinkOwn
<1>16. ASSUME NEW p \in Procs, Crash(p) PROVE LockTypeOK' /\ Bounds'
  BY <1>16 DEF Crash
<1> QED
  BY <1>1, <1>2, <1>3, <1>4, <1>5, <1>6, <1>7, <1>8, <1>9, <1>10, <1>11, <1>12, <1>13, <1>14, <1>15, <1>16
  DEF LockNext, Step

(* The lock, the plan file and every process keep their types, whoever     *)
(* dies where (acquirePlanFileLock to releasePlanFileLock).                *)
THEOREM LockTypeCorrect == LockSpec => []LockTypeOK
<1>1. LockInit => LockTypeOK /\ Bounds
  BY LockTypeInit
<1>2. LockTypeOK /\ Bounds /\ [LockNext]_lockVars => LockTypeOK' /\ Bounds'
  BY LockTypeStep
<1> QED
  BY <1>1, <1>2, PTL DEF LockSpec

-----------------------------------------------------------------------------
LEMMA LockInitInv == LockInit => LockInv
<1> SUFFICES ASSUME LockInit PROVE LockInv
  OBVIOUS
<1>1. LockTypeOK /\ Bounds
  BY LockTypeInit
<1> QED
  BY <1>1 DEF LockInit, LockInv, OwnInv, AgeInv, StealInv, CopyInv, NoLostUpdate, Past, NoLock

(* A lock found stale is a dead process's.                                 *)
LEMMA StaleIsDead ==
  LockTypeOK /\ AgeInv /\ lock # NoLock /\ Stale(lock) => lock.owner \in Procs \ alive
  BY DEF LockTypeOK, AgeInv, Stale

LEMMA LockStepInv == LockInv /\ [LockNext]_lockVars => LockInv'
<1> SUFFICES ASSUME LockInv, [LockNext]_lockVars PROVE LockInv'
  OBVIOUS
<1> DEFINE Rest == OwnInv /\ AgeInv /\ StealInv /\ CopyInv /\ NoLostUpdate
<1>a. LockTypeOK /\ Bounds /\ LockTypeOK' /\ Bounds'
  BY LockTypeStep DEF LockInv
<1>b. /\ alive \subseteq Procs /\ pc \in [Procs -> Steps]
      /\ judged \in [Procs -> Procs \cup {NoProc}] /\ usurped \in BOOLEAN
      /\ NoProc \notin Procs
      /\ file \in Nat /\ commits \in Nat /\ copy \in [Procs -> 0..MaxWrites]
  BY <1>a, NoProcIsNone, PlanLockBounds DEF LockTypeOK
<1>c. Rest
  BY DEF LockInv
<1> USE DEF OwnInv, AgeInv, StealInv, CopyInv, NoLostUpdate, Past, Goto, theft
<1>1. ASSUME UNCHANGED lockVars PROVE Rest'
  BY <1>1, <1>c DEF lockVars
<1>2. ASSUME Age PROVE Rest'
  <2>1. lock'.owner = lock.owner /\ lock.owner \notin alive
    BY <1>2, <1>a DEF Age, LockTypeOK, NoLock
  <2> QED
    BY <2>1, <1>2, <1>b, <1>c DEF Age
<1>3. ASSUME NEW p \in Procs, Request(p) PROVE Rest'
  BY <1>3, <1>b, <1>c DEF Request
<1>4. ASSUME NEW p \in Procs, Create(p) PROVE Rest'
  <2>1. lock'.owner = p /\ ~ lock'.old /\ lock.owner = NoProc
    BY <1>4 DEF Create, NoLock
  <2> QED
    BY <2>1, <1>4, <1>b, <1>c DEF Create
<1>5. ASSUME NEW p \in Procs, WriteOwner(p) PROVE Rest'
  <2>1. lock'.owner = lock.owner /\ lock'.old = lock.old
    BY <1>5, <1>a DEF WriteOwner, LockTypeOK, NoLock
  <2> QED
    BY <2>1, <1>5, <1>b, <1>c DEF WriteOwner
<1>6. ASSUME NEW p \in Procs, LookForStale(p) PROVE Rest'
  <2>1. lock.owner \in Procs \ alive
    BY <1>6, <1>a, <1>c, StaleIsDead DEF LookForStale
  <2> QED
    BY <2>1, <1>6, <1>b, <1>c DEF LookForStale
<1>7. ASSUME NEW p \in Procs, UnlinkStale(p) PROVE Rest'
  <2>1. ~ lock'.old
    BY <1>7 DEF UnlinkStale, NoLock
  <2>2. judged[p] \in Procs \ alive
    BY <1>7, <1>c DEF UnlinkStale
  <2>3. ASSUME ~ usurped', NEW q \in alive, pc[q] \in Past PROVE FALSE
    <3>1. ~ usurped /\ lock.owner \in {judged[p], NoProc}
      BY <1>7, <2>3, <1>b DEF UnlinkStale
    <3>2. lock.owner = q
      BY <3>1, <2>3, <1>c
    <3> QED
      BY <3>1, <3>2, <2>2, <1>b
  <2>4. StealInv' /\ AgeInv'
    BY <2>1, <1>7, <1>b, <1>c DEF UnlinkStale
  <2>5. OwnInv'
    BY <2>3, <1>7, <1>b DEF UnlinkStale
  <2>6. CopyInv' /\ NoLostUpdate'
    BY <1>7, <1>b, <1>c DEF UnlinkStale
  <2> QED
    BY <2>4, <2>5, <2>6
<1>8. ASSUME NEW p \in Procs, Wait(p) PROVE Rest'
  BY <1>8, <1>b, <1>c DEF Wait
<1>9. ASSUME NEW p \in Procs, Retry(p) PROVE Rest'
  BY <1>9, <1>b, <1>c DEF Retry
<1>10. ASSUME NEW p \in Procs, GiveUp(p) PROVE Rest'
  BY <1>10, <1>b, <1>c DEF GiveUp
<1>11. ASSUME NEW p \in Procs, ReadState(p) PROVE Rest'
  BY <1>11, <1>b, <1>c DEF ReadState
<1>12. ASSUME NEW p \in Procs, WriteState(p) PROVE Rest'
  <2>1. usurped \/ \A q \in alive : pc[q] = "writing" => q = p
    BY <1>12, <1>b, <1>c DEF WriteState
  <2>2. usurped \/ copy[p] = file
    BY <1>12, <1>b, <1>c DEF WriteState
  <2> QED
    BY <2>1, <2>2, <1>12, <1>b, <1>c DEF WriteState
<1>13. ASSUME NEW p \in Procs, LeaveState(p) PROVE Rest'
  BY <1>13, <1>b, <1>c DEF LeaveState
<1>14. ASSUME NEW p \in Procs, ReadOwner(p) PROVE Rest'
  BY <1>14, <1>b, <1>c DEF ReadOwner, Owns
<1>15. ASSUME NEW p \in Procs, UnlinkOwn(p) PROVE Rest'
  <2>1. ~ lock'.old
    BY <1>15 DEF UnlinkOwn, NoLock
  <2> QED
    BY <2>1, <1>15, <1>b, <1>c DEF UnlinkOwn
<1>16. ASSUME NEW p \in Procs, Crash(p) PROVE Rest'
  BY <1>16, <1>b, <1>c DEF Crash
<1> QED
  BY <1>a, <1>1, <1>2, <1>3, <1>4, <1>5, <1>6, <1>7, <1>8, <1>9, <1>10, <1>11, <1>12, <1>13, <1>14, <1>15, <1>16
  DEF LockNext, Step, LockInv

(* The inductive invariant of the lock: outside the race, whoever is past  *)
(* acquirePlanFileLock owns the lock file, and who removes a stale one     *)
(* removes a dead process's.                                               *)
THEOREM LockInvariance == LockSpec => []LockInv
<1>1. LockInit => LockInv
  BY LockInitInv
<1>2. LockInv /\ [LockNext]_lockVars => LockInv'
  BY LockStepInv
<1> QED
  BY <1>1, <1>2, PTL DEF LockSpec

(* However many processes share the plan and wherever they die, two of     *)
(* them are between reading and writing it only after the race of stealing *)
(* a stale lock (withPlanFileLock).                                        *)
THEOREM MutualExclusionAlways == LockSpec => []MutualExclusion
<1>1. LockInv => MutualExclusion
  BY DEF LockInv, OwnInv, MutualExclusion, Holds, Past
<1> QED
  BY <1>1, LockInvariance, PTL

(* Short of that race every completed write of mutatePlan is in the plan   *)
(* file.                                                                   *)
THEOREM NoLostUpdateAlways == LockSpec => []NoLostUpdate
<1>1. LockInv => NoLostUpdate
  BY DEF LockInv
<1> QED
  BY <1>1, LockInvariance, PTL
-----------------------------------------------------------------------------
(* The race needs two processes that wait for a dead owner's lock.         *)
OneWaiter ==
  \/ MaxCrashes = 0
  \/ \A p, q, r \in Procs : p = q \/ q = r \/ p = r

(* Who waits alone removes the lock it judged.                             *)
OneInv ==
  /\ ~ usurped
  /\ MaxCrashes = 0 => alive = Procs
  /\ \A p \in alive : pc[p] = "stealing" => lock.owner = judged[p]

(* Who removes a dead owner's lock is the only process alive.              *)
LEMMA AloneWhenStealing ==
  ASSUME OneWaiter, LockInv, OneInv, NEW p \in alive, pc[p] = "stealing"
  PROVE  alive = {p} /\ lock.owner \in Procs
<1>1. lock.owner \in Procs \ alive
  BY DEF LockInv, StealInv, OneInv
<1>2. alive # Procs
  BY <1>1
<1>3. alive \subseteq Procs
  BY DEF LockInv, LockTypeOK
<1>4. \A q \in alive : q = p
  BY <1>1, <1>2, <1>3 DEF OneWaiter, OneInv
<1> QED
  BY <1>1, <1>4

LEMMA OneStep == ASSUME OneWaiter PROVE LockInv /\ OneInv /\ [LockNext]_lockVars => OneInv'
<1> SUFFICES ASSUME LockInv, OneInv, [LockNext]_lockVars PROVE OneInv'
  OBVIOUS
<1>a. /\ alive \subseteq Procs /\ pc \in [Procs -> Steps] /\ usurped \in BOOLEAN
      /\ judged \in [Procs -> Procs \cup {NoProc}] /\ NoProc \notin Procs
  BY NoProcIsNone DEF LockInv, LockTypeOK
<1>b. \A p \in alive : pc[p] = "stealing" => alive = {p} /\ lock.owner \in Procs
  BY AloneWhenStealing
<1> USE DEF OneInv, Goto, theft
<1>1. CASE UNCHANGED lockVars
  BY <1>1 DEF lockVars
<1>2. ASSUME Age PROVE OneInv'
  <2>1. lock'.owner = lock.owner
    BY <1>2 DEF Age, LockInv, LockTypeOK, NoLock
  <2> QED
    BY <2>1, <1>2, <1>a DEF Age
<1>3. ASSUME NEW p \in Procs, Request(p) PROVE OneInv'
  BY <1>3, <1>a DEF Request
<1>4. ASSUME NEW p \in Procs, Create(p) PROVE OneInv'
  <2>1. lock.owner = NoProc
    BY <1>4 DEF Create, NoLock
  <2>2. \A q \in alive : pc[q] # "stealing"
    BY <2>1, <1>a, <1>b
  <2> QED
    BY <2>2, <1>4, <1>a DEF Create
<1>5. ASSUME NEW p \in Procs, WriteOwner(p) PROVE OneInv'
  <2>1. lock'.owner = lock.owner
    BY <1>5 DEF WriteOwner, LockInv, LockTypeOK, NoLock
  <2> QED
    BY <2>1, <1>5, <1>a DEF WriteOwner
<1>6. ASSUME NEW p \in Procs, LookForStale(p) PROVE OneInv'
  BY <1>6, <1>a DEF LookForStale
<1>7. ASSUME NEW p \in Procs, UnlinkStale(p) PROVE OneInv'
  <2>1. alive = {p} /\ lock.owner = judged[p]
    BY <1>7, <1>b DEF UnlinkStale
  <2> QED
    BY <2>1, <1>7, <1>a DEF UnlinkStale
<1>8. ASSUME NEW p \in Procs, Wait(p) PROVE OneInv'
  BY <1>8, <1>a DEF Wait
<1>9. ASSUME NEW p \in Procs, Retry(p) PROVE OneInv'
  BY <1>9, <1>a DEF Retry
<1>10. ASSUME NEW p \in Procs, GiveUp(p) PROVE OneInv'
  BY <1>10, <1>a DEF GiveUp
<1>11. ASSUME NEW p \in Procs, ReadState(p) PROVE OneInv'
  BY <1>11, <1>a DEF ReadState
<1>12. ASSUME NEW p \in Procs, WriteState(p) PROVE OneInv'
  BY <1>12, <1>a DEF WriteState
<1>13. ASSUME NEW p \in Procs, LeaveState(p) PROVE OneInv'
  BY <1>13, <1>a DEF LeaveState
<1>14. ASSUME NEW p \in Procs, ReadOwner(p) PROVE OneInv'
  BY <1>14, <1>a DEF ReadOwner
<1>15. ASSUME NEW p \in Procs, UnlinkOwn(p) PROVE OneInv'
  <2>1. \A q \in alive : pc[q] # "stealing"
    BY <1>15, <1>b DEF UnlinkOwn
  <2> QED
    BY <2>1, <1>15, <1>a DEF UnlinkOwn
<1>16. ASSUME NEW p \in Procs, Crash(p) PROVE OneInv'
  <2>1. ASSUME MaxCrashes = 0 PROVE FALSE
    <3>1. Procs \ alive = {}
      BY <2>1
    <3> QED
      BY <2>1, <3>1, <1>16, FS_EmptySet DEF Crash
  <2> QED
    BY <2>1, <1>16, <1>a DEF Crash
<1> QED
  BY <1>1, <1>2, <1>3, <1>4, <1>5, <1>6, <1>7, <1>8, <1>9, <1>10, <1>11, <1>12, <1>13, <1>14, <1>15, <1>16
  DEF LockNext, Step

(* With nobody dying, or with at most two processes, the race never        *)
(* happens: the condition under which the plan is simply updated under     *)
(* mutual exclusion (stalePlanLock, acquirePlanFileLock).                  *)
THEOREM NoTheftWithOneWaiter ==
  ASSUME OneWaiter
  PROVE  LockSpec => [](~ usurped /\ MutualExclusion /\ NoLostUpdate)
<1>1. LockInit => OneInv
  BY DEF LockInit, OneInv
<1>2. LockInv /\ OneInv /\ [LockNext]_lockVars => OneInv'
  BY OneStep
<1>3. OneInv => ~ usurped
  BY DEF OneInv
<1> QED
  BY <1>1, <1>2, <1>3, LockInvariance, MutualExclusionAlways, NoLostUpdateAlways, PTL DEF LockSpec
-----------------------------------------------------------------------------
(* Nobody waits for a process that does not go on: the lock is a dead       *)
(* process's, or of one that has yet to release it.                         *)
OwnerGoesOn == lock.owner \in alive => pc[lock.owner] \in Past

LEMMA OwnerStep == LockTypeOK /\ OwnerGoesOn /\ [LockNext]_lockVars => OwnerGoesOn'
<1> SUFFICES ASSUME LockTypeOK, OwnerGoesOn, [LockNext]_lockVars PROVE OwnerGoesOn'
  OBVIOUS
<1>1. /\ alive \subseteq Procs /\ pc \in [Procs -> Steps] /\ NoProc \notin Procs
      /\ lock \in {NoLock} \cup [owner : Procs, written : BOOLEAN, old : BOOLEAN]
  BY NoProcIsNone DEF LockTypeOK
<1> USE DEF OwnerGoesOn, Past, Goto
<1>2. CASE UNCHANGED lockVars
  BY <1>2 DEF lockVars
<1>3. ASSUME NEW p \in Procs,
             Request(p) \/ GiveUp(p) \/ LookForStale(p) \/ Wait(p) \/ Retry(p)
      PROVE  OwnerGoesOn'
  BY <1>1, <1>3 DEF Request, GiveUp, LookForStale, Wait, Retry
<1>4. ASSUME NEW p \in Procs, Create(p) PROVE OwnerGoesOn'
  BY <1>1, <1>4 DEF Create
<1>5. ASSUME NEW p \in Procs, WriteOwner(p) PROVE OwnerGoesOn'
  <2>1. lock'.owner = lock.owner
    BY <1>1, <1>5 DEF WriteOwner, NoLock
  <2> QED BY <1>1, <1>5, <2>1 DEF WriteOwner
<1>6. ASSUME NEW p \in Procs, UnlinkStale(p) \/ UnlinkOwn(p) PROVE OwnerGoesOn'
  BY <1>1, <1>6 DEF UnlinkStale, UnlinkOwn, NoLock
<1>7. ASSUME NEW p \in Procs, ReadState(p) \/ WriteState(p) \/ LeaveState(p) PROVE OwnerGoesOn'
  BY <1>1, <1>7 DEF ReadState, WriteState, LeaveState
<1>8. ASSUME NEW p \in Procs, ReadOwner(p) PROVE OwnerGoesOn'
  BY <1>1, <1>8 DEF ReadOwner, Owns
<1>9. ASSUME NEW p \in Procs, Crash(p) PROVE OwnerGoesOn'
  BY <1>1, <1>9 DEF Crash
<1>10. ASSUME Age PROVE OwnerGoesOn'
  <2>1. lock'.owner = lock.owner
    BY <1>1, <1>10 DEF Age, NoLock
  <2> QED BY <1>1, <1>10, <2>1 DEF Age
<1> QED BY <1>2, <1>3, <1>4, <1>5, <1>6, <1>7, <1>8, <1>9, <1>10 DEF LockNext, Step

(* However many processes die and steal, who waits for the lock may take    *)
(* it, finds it stale, finds one without a name that only has to grow old,  *)
(* or waits for a live process that is on its way to release it             *)
(* (acquirePlanFileLock): what is left of DeadLockRecovered is fairness.    *)
THEOREM WaiterNeverStuck ==
  LockSpec => [](\A p \in alive : pc[p] = "trying" =>
                   \/ lock = NoLock
                   \/ Stale(lock)
                   \/ lock.owner \notin alive /\ ~ lock.written
                   \/ lock.owner # p /\ pc[lock.owner] \in Past)
<1>1. LockInit => LockTypeOK /\ OwnerGoesOn
  BY LockTypeInit, NoProcIsNone DEF LockInit, OwnerGoesOn, NoLock
<1>2. LockTypeOK /\ OwnerGoesOn /\ [LockNext]_lockVars => OwnerGoesOn'
  BY OwnerStep
<1>3. LockTypeOK /\ OwnerGoesOn =>
        \A p \in alive : pc[p] = "trying" =>
          \/ lock = NoLock
          \/ Stale(lock)
          \/ lock.owner \notin alive /\ ~ lock.written
          \/ lock.owner # p /\ pc[lock.owner] \in Past
  BY DEF OwnerGoesOn, Stale, Past, LockTypeOK
<1> QED BY <1>1, <1>2, <1>3, LockTypeCorrect, PTL DEF LockSpec
=============================================================================
