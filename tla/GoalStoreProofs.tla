--------------------------- MODULE GoalStoreProofs ---------------------------
(***************************************************************************)
(* The goal ledger, for any number of processes, goals and criteria: the   *)
(* processes together do what one ledger would that is changed by one      *)
(* operation at a time, and what holds of such a ledger holds of the file. *)
(***************************************************************************)
EXTENDS GoalStore, SequenceTheorems, TLAPS

(* Whoever got past mkdir has the lock until it removes it.                *)
Past  == Steps \ {"idle", "waiting"}
Named == {"named", "loaded", "done", "leaving"}

LockTypes == /\ lock \in {NoLock} \cup [owner: Procs, named: BOOLEAN]
             /\ pc \in [Procs -> Steps] /\ DOMAIN copy = Procs
OwnInv  == \A p \in Procs : /\ pc[p] \in Past => lock.owner = p
                            /\ pc[p] \in Named => lock.named
CopyInv == \A p \in Procs : pc[p] = "loaded" => copy[p] = file

LockInv == LockTypes /\ OwnInv /\ CopyInv

-----------------------------------------------------------------------------
LEMMA LockInit == Init => LockInv
  BY DEF Init, LockInv, LockTypes, OwnInv, CopyInv, Past, Named, Steps

(* A step of one process leaves the lock of another one alone: whoever     *)
(* changes the lock made it, or there is none.                             *)
LEMMA LockStep == LockInv /\ [Next]_vars => LockInv'
<1> USE NoneIsNoProc DEF LockInv, LockTypes, OwnInv, CopyInv, Past, Named, Steps, NoLock,
                         Goto
<1> SUFFICES ASSUME LockInv, [Next]_vars PROVE LockInv'
  OBVIOUS
<1>1. CASE UNCHANGED vars
  BY <1>1 DEF vars
<1>2. ASSUME NEW p \in Procs, Request(p) PROVE LockInv'
  BY <1>2 DEF Request
<1>3. ASSUME NEW p \in Procs, Mkdir(p) PROVE LockInv'
  BY <1>3 DEF Mkdir, Free
<1>4. ASSUME NEW p \in Procs, GiveUp(p) PROVE LockInv'
  BY <1>4 DEF GiveUp
<1>5. ASSUME NEW p \in Procs, WriteOwner(p) PROVE LockInv'
  BY <1>5 DEF WriteOwner
<1>6. ASSUME NEW p \in Procs, OwnerFails(p) PROVE LockInv'
  BY <1>6 DEF OwnerFails
<1>7. ASSUME NEW p \in Procs, RmdirFailed(p) PROVE LockInv'
  BY <1>7 DEF RmdirFailed
<1>8. ASSUME NEW p \in Procs, LoadGoalLedger(p) PROVE LockInv'
  BY <1>8 DEF LoadGoalLedger
<1>9. ASSUME NEW p \in Procs, Write(p) PROVE LockInv'
  BY <1>9 DEF Write, Done
<1>10. ASSUME NEW p \in Procs, Refuse(p) PROVE LockInv'
  BY <1>10 DEF Refuse, Done
<1>11. ASSUME NEW p \in Procs, ReadOwner(p) PROVE LockInv'
  BY <1>11 DEF ReadOwner
<1>12. ASSUME NEW p \in Procs, UnlinkOwner(p) PROVE LockInv'
  BY <1>12 DEF UnlinkOwner
<1>13. ASSUME NEW p \in Procs, Rmdir(p) PROVE LockInv'
  BY <1>13 DEF Rmdir
<1>14. ASSUME NEW p \in Procs, CleanupFails(p) PROVE LockInv'
  BY <1>14 DEF CleanupFails
<1>15. ASSUME NEW p \in Procs, Crash(p) PROVE LockInv'
  BY <1>15 DEF Crash
<1>16. ASSUME NEW p \in Procs, Restart(p) PROVE LockInv'
  BY <1>16 DEF Restart
<1>17. CASE RemoveLock
  BY <1>17 DEF RemoveLock, Stopped
<1> QED
  BY <1>1, <1>2, <1>3, <1>4, <1>5, <1>6, <1>7, <1>8, <1>9, <1>10, <1>11, <1>12, <1>13,
     <1>14, <1>15, <1>16, <1>17 DEF Next

(* The lock excludes for any number of processes and crashes: it is never  *)
(* stolen, and removed by hand only when all sessions have stopped.        *)
THEOREM LockHeld == Spec => []LockInv
<1>1. Init => LockInv
  BY LockInit
<1>2. LockInv /\ [Next]_vars => LockInv'
  BY LockStep
<1> QED
  BY <1>1, <1>2, PTL DEF Spec

(* A step writes the file from the latest contents, or leaves it alone.    *)
LEMMA OneMutation == LockInv /\ [Next]_vars => Mutation(file, file') \/ UNCHANGED file
<1> SUFFICES ASSUME LockInv, [Next]_vars, ~ UNCHANGED file PROVE Mutation(file, file')
  OBVIOUS
<1>1. PICK p \in Procs : Write(p)
  BY DEF Next, vars, Request, Mkdir, GiveUp, WriteOwner, OwnerFails, RmdirFailed,
         LoadGoalLedger, Refuse, ReadOwner, UnlinkOwner, Rmdir, CleanupFails,
         Crash, Restart, RemoveLock
<1>2. copy[p] = file
  BY <1>1 DEF Write, Done, Goto, LockInv, CopyInv
<1> QED
  BY <1>1, <1>2 DEF Write

(* The reducers the lifecycle is written with are the store's.             *)
LEMMA SameMutation == \A l, m : Mutation(l, m) <=> Lifecycle!Mutation(l, m)
  BY DEF Mutation, Propose, Update, Complete, ProposeSettlement, Block, Goal,
         AcceptGoal, AcceptSettlement, Resume, Pause, Cancel, New, Transition,
         MayComplete, MayAccept, Superseded, Put, Without, Latest, CreateGoal,
         CurrentGoals, GoalsOf, Terminal, Statuses, Lifecycle!Mutation,
         Lifecycle!Propose, Lifecycle!Update, Lifecycle!Complete,
         Lifecycle!ProposeSettlement, Lifecycle!Block, Lifecycle!Goal,
         Lifecycle!AcceptGoal, Lifecycle!AcceptSettlement, Lifecycle!Resume,
         Lifecycle!Pause, Lifecycle!Cancel, Lifecycle!New, Lifecycle!Transition,
         Lifecycle!MayComplete, Lifecycle!MayAccept, Lifecycle!Superseded,
         Lifecycle!Put, Lifecycle!Without, Lifecycle!Latest, Lifecycle!CreateGoal,
         Lifecycle!CurrentGoals, Lifecycle!GoalsOf, Lifecycle!Terminal,
         Lifecycle!Statuses

(* "Goal writes serialize across processes" (README.md 171).               *)
THEOREM SerializedAlways == Spec => Serialized
<1>1. Init => Lifecycle!Init
  BY DEF Init, Lifecycle!Init, EmptyLedger, Lifecycle!EmptyLedger
<1>2. LockInv /\ [Next]_vars => [Lifecycle!Next]_file
  BY OneMutation, SameMutation DEF Lifecycle!Next
<1> QED
  BY <1>1, <1>2, LockHeld, PTL DEF Spec, Serialized, Lifecycle!Spec

-----------------------------------------------------------------------------
(* What the list of the goals of another id is: the same list, or one      *)
(* shorter.                                                                *)
LEMMA WithoutGoals ==
  ASSUME NEW s \in Seq(Goals), NEW id,
         \A i, j \in DOMAIN s : s[i].id = s[j].id => i = j
  PROVE  LET w == Without(s, id)
         IN  /\ w \in Seq(Goals)
             /\ \A i \in DOMAIN w : w[i].id # id /\ \E j \in DOMAIN s : w[i] = s[j]
             /\ \A i, j \in DOMAIN w : w[i].id = w[j].id => i = j
<1>1. CASE \A i \in DOMAIN s : s[i].id # id
  BY <1>1 DEF Without
<1>2. ASSUME NEW k \in DOMAIN s, s[k].id = id
      PROVE  LET w == Without(s, id)
             IN  /\ w \in Seq(Goals)
                 /\ \A i \in DOMAIN w : w[i].id # id /\ \E j \in DOMAIN s : w[i] = s[j]
                 /\ \A i, j \in DOMAIN w : w[i].id = w[j].id => i = j
  <2> DEFINE a == SubSeq(s, 1, k - 1)
             b == SubSeq(s, k + 1, Len(s))
             w == a \o b
  <2>1. Without(s, id) = w
    <3>1. k = CHOOSE i \in DOMAIN s : s[i].id = id
      BY <1>2
    <3> QED BY <1>2, <3>1 DEF Without
  <2>2. k \in 1..Len(s) /\ Len(s) \in Nat /\ DOMAIN s = 1..Len(s)
    OBVIOUS
  <2>3. /\ a \in Seq(Goals) /\ Len(a) = k - 1
        /\ \A i \in 1..(k - 1) : a[i] = s[i]
    BY <2>2
  <2>4. /\ b \in Seq(Goals) /\ Len(b) = Len(s) - k
        /\ \A i \in 1..(Len(s) - k) : b[i] = s[k + i]
    BY <2>2
  <2> HIDE DEF a, b
  <2>5. /\ w \in Seq(Goals) /\ Len(w) = Len(s) - 1
        /\ \A i \in 1..(Len(s) - 1) : w[i] = IF i < k THEN s[i] ELSE s[i + 1]
    <3>a. a \in Seq(Goals) /\ b \in Seq(Goals)
      BY <2>3, <2>4
    <3>b. a \o b \in Seq(Goals) /\ Len(a \o b) = Len(a) + Len(b)
      BY <3>a
    <3>c. \A i \in 1..(Len(a) + Len(b)) :
            (a \o b)[i] = IF i =< Len(a) THEN a[i] ELSE b[i - Len(a)]
      BY <3>a
    <3>0. /\ w \in Seq(Goals) /\ Len(w) = Len(a) + Len(b)
          /\ \A i \in 1..(Len(a) + Len(b)) :
               w[i] = IF i =< Len(a) THEN a[i] ELSE b[i - Len(a)]
      BY <3>b, <3>c, Zenon
    <3> HIDE DEF w
    <3>1. w \in Seq(Goals) /\ Len(w) = Len(s) - 1
      BY <3>0, <2>2, <2>3, <2>4
    <3>2. ASSUME NEW i \in 1..(Len(s) - 1) PROVE w[i] = IF i < k THEN s[i] ELSE s[i + 1]
      <4>1. CASE i < k
        <5>1. i \in 1..(Len(a) + Len(b)) /\ i =< Len(a) /\ i \in 1..(k - 1)
          BY <4>1, <2>2, <2>3, <2>4
        <5>2. w[i] = a[i]
          BY <5>1, <3>0
        <5> QED BY <4>1, <5>1, <5>2, <2>3
      <4>2. CASE i >= k
        <5>1. w[i] = b[i - (k - 1)]
          <6>1. i \in 1..(Len(a) + Len(b)) /\ i > Len(a)
            BY <4>2, <2>2, <2>3, <2>4
          <6>2. w[i] = b[i - Len(a)]
            BY <6>1, <3>0, <2>3, <2>4
          <6> QED BY <6>2, <2>3
        <5>2. i - (k - 1) \in 1..(Len(s) - k)
          BY <4>2, <2>2
        <5>3. b[i - (k - 1)] = s[k + (i - (k - 1))]
          BY <5>2, <2>4
        <5>4. k + (i - (k - 1)) = i + 1
          BY <2>2
        <5> QED BY <4>2, <5>1, <5>3, <5>4, <2>2
      <4>3. i < k \/ i >= k
        BY <2>2
      <4> QED BY <4>1, <4>2, <4>3
    <3> QED BY <3>1, <3>2
  <2> HIDE DEF w
  <2>6. \A i \in DOMAIN w : \E j \in DOMAIN s \ {k} : w[i] = s[j]
    <3> SUFFICES ASSUME NEW i \in DOMAIN w PROVE \E j \in DOMAIN s \ {k} : w[i] = s[j]
      OBVIOUS
    <3>1. i \in 1..(Len(s) - 1)
      BY <2>5
    <3>2. CASE i < k
      <4>1. w[i] = s[i] /\ i \in DOMAIN s \ {k}
        BY <3>1, <3>2, <2>2, <2>5
      <4> QED BY <4>1
    <3>3. CASE i >= k
      <4>1. w[i] = s[i + 1] /\ i + 1 \in DOMAIN s \ {k}
        BY <3>1, <3>3, <2>2, <2>5
      <4> QED BY <4>1
    <3> QED BY <3>1, <3>2, <3>3, <2>2
  <2>7. \A i, j \in DOMAIN w : w[i].id = w[j].id => i = j
    <3> DEFINE at(i) == IF i < k THEN i ELSE i + 1
    <3>1. \A i \in DOMAIN w : i \in 1..(Len(s) - 1) /\ at(i) \in DOMAIN s /\ w[i] = s[at(i)]
      BY <2>2, <2>5
    <3>2. \A i, j \in 1..(Len(s) - 1) : at(i) = at(j) => i = j
      BY <2>2
    <3> HIDE DEF at
    <3> QED BY <3>1, <3>2
  <2> QED BY <1>2, <2>1, <2>5, <2>6, <2>7
<1> QED BY <1>1, <1>2

(* What is dropped are goals at the front.                                 *)
LEMMA LatestGoals ==
  ASSUME NEW s \in Seq(Goals), s # <<>>
  PROVE  LET t == Latest(s)
         IN  /\ t \in Seq(Goals) /\ Len(t) =< MaxGoals
             /\ Len(t) \in DOMAIN t /\ t[Len(t)] = s[Len(s)]
             /\ \E d \in Nat : \A i \in DOMAIN t : i + d \in DOMAIN s /\ t[i] = s[i + d]
<1> DEFINE n == Len(s)
           t == Latest(s)
<1>1. n \in Nat \ {0} /\ DOMAIN s = 1..n
  OBVIOUS
<1>2. CASE n =< MaxGoals
  <2>1. t = s
    BY <1>1, <1>2, GoalsKept DEF Latest
  <2>2. \A i \in DOMAIN t : i + 0 \in DOMAIN s /\ t[i] = s[i + 0]
    BY <1>1, <2>1
  <2> QED BY <1>1, <1>2, <2>1, <2>2
<1>3. CASE n > MaxGoals
  <2>1. t = SubSeq(s, n - MaxGoals + 1, n)
    BY <1>3 DEF Latest
  <2>2. /\ t \in Seq(Goals) /\ Len(t) = MaxGoals
        /\ \A i \in 1..MaxGoals : t[i] = s[i + (n - MaxGoals)]
    BY <1>1, <1>3, <2>1, GoalsKept
  <2>3. n - MaxGoals \in Nat /\ \A i \in 1..MaxGoals : i + (n - MaxGoals) \in DOMAIN s
    BY <1>1, <1>3, GoalsKept
  <2> HIDE DEF t
  <2>4. DOMAIN t = 1..MaxGoals /\ MaxGoals \in DOMAIN t
    BY <2>2, GoalsKept
  <2>5. t[MaxGoals] = s[n]
    BY <1>1, <1>3, <2>2, GoalsKept
  <2>6. DOMAIN t = 1..Len(t) /\ Len(t) = MaxGoals
    BY <2>2
  <2>7. \E d \in Nat : \A i \in DOMAIN t : i + d \in DOMAIN s /\ t[i] = s[i + d]
    BY <2>2, <2>3, <2>4
  <2>8. /\ t \in Seq(Goals) /\ Len(t) =< MaxGoals
        /\ Len(t) \in DOMAIN t /\ t[Len(t)] = s[Len(s)]
    BY <2>2, <2>4, <2>5, GoalsKept
  <2> QED BY <2>7, <2>8 DEF t
<1> QED BY <1>1, <1>2, <1>3, GoalsKept

(* An id names one goal, so an index of one is the goal's only one.        *)
LEMMA OneGoalPerId ==
  ASSUME NEW l \in Ledgers, Valid(l), NEW g \in GoalsOf(l), NEW h \in GoalsOf(l),
         g.id = h.id
  PROVE  g = h
  BY DEF Valid, GoalsOf

(* Whoever writes a goal while all others are settled keeps the ledger     *)
(* valid; of the other goals it changes none, though it may drop some.     *)
LEMMA PutGoals ==
  ASSUME NEW l \in Ledgers, Valid(l), NEW g \in Goals,
         \A h \in GoalsOf(l) : h.id # g.id => h.status \in Terminal
  PROVE  /\ Put(l, g) \in Ledgers /\ Valid(Put(l, g))
         /\ \A h \in GoalsOf(Put(l, g)) : h = g \/ (h \in GoalsOf(l) /\ h.id # g.id)
<1> DEFINE w == Without(l.goals, g.id)
           s == Append(w, g)
           t == Latest(s)
           m == Put(l, g)
<1>1. l.goals \in Seq(Goals) /\ l.current_goal_id \in Ids \cup {None}
  BY DEF Ledgers
<1>2. \A i, j \in DOMAIN l.goals : l.goals[i].id = l.goals[j].id => i = j
  BY DEF Valid
<1>3. /\ w \in Seq(Goals)
      /\ \A i \in DOMAIN w : w[i].id # g.id /\ \E j \in DOMAIN l.goals : w[i] = l.goals[j]
      /\ \A i, j \in DOMAIN w : w[i].id = w[j].id => i = j
  BY <1>1, <1>2, WithoutGoals
<1>4. \A i \in DOMAIN w : w[i].id # g.id /\ w[i] \in GoalsOf(l)
  BY <1>3 DEF GoalsOf
<1> HIDE DEF w
<1>5. /\ s \in Seq(Goals) /\ s # <<>> /\ Len(s) = Len(w) + 1 /\ s[Len(s)] = g
      /\ \A i \in DOMAIN s : i = Len(s) \/ (i \in DOMAIN w /\ s[i] = w[i])
  <2>1. w \in Seq(Goals) /\ Len(w) \in Nat /\ DOMAIN w = 1..Len(w)
    BY <1>3
  <2>2. /\ s \in Seq(Goals) /\ Len(s) = Len(w) + 1 /\ s[Len(w) + 1] = g
        /\ \A i \in 1..Len(w) : s[i] = w[i]
    BY <2>1
  <2> HIDE DEF s
  <2>3. DOMAIN s = 1..(Len(w) + 1)
    BY <2>2
  <2>4. \A i \in DOMAIN s : i = Len(s) \/ (i \in DOMAIN w /\ s[i] = w[i])
    BY <2>1, <2>2, <2>3
  <2> QED BY <2>1, <2>2, <2>3, <2>4
<1> HIDE DEF s
<1>6. \A i \in DOMAIN s : s[i] = g \/ (s[i] \in GoalsOf(l) /\ s[i].id # g.id)
  BY <1>4, <1>5
<1>7. \A i, j \in DOMAIN s : s[i].id = s[j].id => i = j
  BY <1>3, <1>4, <1>5
<1>8. /\ t \in Seq(Goals) /\ Len(t) =< MaxGoals
      /\ Len(t) \in DOMAIN t /\ t[Len(t)] = s[Len(s)]
      /\ \E d \in Nat : \A i \in DOMAIN t : i + d \in DOMAIN s /\ t[i] = s[i + d]
  BY <1>5, LatestGoals
<1> HIDE DEF t
<1>9. PICK d \in Nat : \A i \in DOMAIN t : i + d \in DOMAIN s /\ t[i] = s[i + d]
  BY <1>8
<1>10. \A i \in DOMAIN t : t[i] = g \/ (t[i] \in GoalsOf(l) /\ t[i].id # g.id)
  BY <1>6, <1>9
<1>11. \A i, j \in DOMAIN t : t[i].id = t[j].id => i = j
  <2> SUFFICES ASSUME NEW i \in DOMAIN t, NEW j \in DOMAIN t, t[i].id = t[j].id
               PROVE  i = j
    OBVIOUS
  <2>1. DOMAIN t = 1..Len(t) /\ Len(t) \in Nat
    BY <1>8
  <2>2. i + d = j + d
    BY <1>7, <1>9
  <2>3. \A x, y \in 1..Len(t) : x + d = y + d => x = y
    BY <2>1
  <2> QED BY <2>1, <2>2, <2>3
<1>12. /\ m.goals = t
       /\ m.current_goal_id = IF g.status \notin Terminal THEN g.id
                              ELSE IF l.current_goal_id = g.id THEN None
                              ELSE l.current_goal_id
       /\ m = [goals |-> t, current_goal_id |-> m.current_goal_id]
  BY DEF Put, s, t, w
<1> HIDE DEF m
<1>13. m \in Ledgers
  <2>1. m.current_goal_id \in Ids \cup {None}
    BY <1>1, <1>12 DEF Goals
  <2> QED BY <1>8, <1>12, <2>1 DEF Ledgers
<1>14. \A h \in GoalsOf(m) : h = g \/ (h \in GoalsOf(l) /\ h.id # g.id)
  BY <1>10, <1>12 DEF GoalsOf
<1>15. g \in GoalsOf(m)
  BY <1>5, <1>8, <1>12 DEF GoalsOf
<1>16. \A h \in GoalsOf(m) : h.status \notin Terminal => h = g
  BY <1>14
<1>17. ASSUME g.status \in Terminal PROVE m.current_goal_id = None
  <2>1. CASE l.current_goal_id = g.id
    BY <1>12, <1>17, <2>1
  <2>2. CASE l.current_goal_id # g.id
    <3>1. \A h \in GoalsOf(l) : h.status \in Terminal
      BY <2>2 DEF Valid
    <3>2. l.current_goal_id = None
      BY <3>1 DEF Valid
    <3> QED BY <1>12, <1>17, <2>2, <3>2
  <2> QED BY <2>1, <2>2
<1>18. Valid(m)
  BY <1>8, <1>11, <1>12, <1>15, <1>16, <1>17 DEF Valid
<1> QED BY <1>13, <1>14, <1>18 DEF m

(* The rules a settled goal, or a proposal of its settlement, satisfies.   *)
Earned(g) == /\ g.status = "complete" => MayComplete(g)
             /\ g.status = "accepted_80_20" => MayAccept(g)
             /\ g.settlement_proposal => MayAccept(g)

(* An accepted goal was active, and its settlement waited for the user.    *)
Offered(l, g) ==
  g.status = "accepted_80_20" =>
    \E k \in GoalsOf(l) : k.id = g.id /\ k.status = "active" /\ k.settlement_proposal /\ MayAccept(k)

(* What every operation does: it writes one goal, which is new or has not  *)
(* been settled for good, and keeps the rules.                             *)
Writes(l, m, g) ==
  /\ g \in Goals /\ Earned(g) /\ Offered(l, g) /\ m = Put(l, g)
  /\ \A h \in GoalsOf(l) : IF h.id = g.id THEN h.status \notin Terminal
                                          ELSE h.status \in Terminal

(* A goal that is neither settled nor new is the only one of its kind.     *)
LEMMA CurrentWrites ==
  ASSUME NEW l \in Ledgers, Valid(l), NEW g \in CurrentGoals(l), g.status \notin Terminal,
         NEW h \in Goals, h.id = g.id, Earned(h), Offered(l, h)
  PROVE  Writes(l, Put(l, h), h)
<1>1. g \in GoalsOf(l)
  BY DEF CurrentGoals
<1>2. \A k \in GoalsOf(l) : k.status \notin Terminal => k = g
  BY <1>1 DEF Valid
<1>3. \A k \in GoalsOf(l) : k.id = g.id => k = g
  BY <1>1, OneGoalPerId
<1> QED BY <1>2, <1>3 DEF Writes

LEMMA MutationWrites ==
  ASSUME NEW l \in Ledgers, NEW m, Valid(l), SettlementIsEarned(l), Mutation(l, m)
  PROVE  \E g \in Goals : Writes(l, m, g)
<1>1. \A g \in CurrentGoals(l) : g \in Goals /\ Earned(g)
  BY DEF CurrentGoals, GoalsOf, Ledgers, SettlementIsEarned, Earned
<1>2. ASSUME NEW from \in SUBSET (Statuses \ Terminal), NEW to \in Statuses,
             to \notin {"complete", "accepted_80_20"}, Transition(l, m, from, to)
      PROVE  \E g \in Goals : Writes(l, m, g)
  <2>1. PICK g \in CurrentGoals(l) : g.status \in from /\ m = Put(l, [g EXCEPT !.status = to])
    BY <1>2 DEF Transition
  <2> DEFINE h == [g EXCEPT !.status = to]
  <2>2. h \in Goals /\ h.id = g.id /\ Earned(h) /\ Offered(l, h)
    BY <1>1, <1>2 DEF Offered, CurrentGoals, Goals, Earned, MayAccept, MayComplete
  <2> QED BY <1>2, <2>1, <2>2, CurrentWrites
<1>3. ASSUME NEW status \in {"proposed", "active"}, New(l, m, status)
      PROVE  \E g \in Goals : Writes(l, m, g)
  <2>1. PICK id \in Ids \ {h.id : h \in GoalsOf(l)} : m = Put(l, CreateGoal(id, status))
    BY <1>3 DEF New
  <2> DEFINE g == CreateGoal(id, status)
  <2>2. g \in Goals /\ g.id = id /\ Earned(g) /\ Offered(l, g)
    BY DEF Offered, CreateGoal, Goals, Statuses, Earned
  <2>3. \A h \in GoalsOf(l) : h.id # id /\ h.status \in Terminal
    BY <1>3 DEF New, Valid, CurrentGoals
  <2> QED BY <2>1, <2>2, <2>3 DEF Writes
<1>4. CASE Update(l, m)
  <2>1. PICK g \in CurrentGoals(l), c \in Criteria, to \in {"open", "met", "deferred"} :
          /\ g.status = "active"
          /\ m = Put(l, [g EXCEPT !.criteria[c] = to, !.settlement_proposal = Superseded(g)])
    BY <1>4 DEF Update
  <2> DEFINE h == [g EXCEPT !.criteria[c] = to, !.settlement_proposal = Superseded(g)]
  <2>2. h \in Goals /\ h.id = g.id /\ Earned(h) /\ Offered(l, h)
    BY <1>1, <2>1 DEF Offered, CurrentGoals, Goals, Earned, Superseded
  <2> QED BY <2>1, <2>2, CurrentWrites DEF Terminal
<1>5. CASE Complete(l, m)
  <2>1. PICK g \in CurrentGoals(l) :
          /\ g.status = "active" /\ MayComplete(g)
          /\ m = Put(l, [g EXCEPT !.status = "complete", !.settlement_proposal = FALSE])
    BY <1>5 DEF Complete
  <2> DEFINE h == [g EXCEPT !.status = "complete", !.settlement_proposal = FALSE]
  <2>2. h \in Goals /\ h.id = g.id /\ Earned(h) /\ Offered(l, h)
    BY <1>1, <2>1 DEF Offered, CurrentGoals, Goals, Statuses, Earned, MayComplete
  <2> QED BY <2>1, <2>2, CurrentWrites DEF Terminal
<1>6. CASE ProposeSettlement(l, m)
  <2>1. PICK g \in CurrentGoals(l) :
          /\ g.status = "active" /\ MayAccept(g)
          /\ m = Put(l, [g EXCEPT !.settlement_proposal = TRUE])
    BY <1>6 DEF ProposeSettlement
  <2> DEFINE h == [g EXCEPT !.settlement_proposal = TRUE]
  <2>2. h \in Goals /\ h.id = g.id /\ Earned(h) /\ Offered(l, h)
    BY <1>1, <2>1 DEF Offered, CurrentGoals, Goals, Earned, MayAccept
  <2> QED BY <2>1, <2>2, CurrentWrites DEF Terminal
<1>7. CASE AcceptSettlement(l, m)
  <2>1. PICK g \in CurrentGoals(l) :
          /\ g.status = "active" /\ g.settlement_proposal /\ MayAccept(g)
          /\ m = Put(l, [g EXCEPT !.status = "accepted_80_20", !.settlement_proposal = FALSE])
    BY <1>7 DEF AcceptSettlement
  <2> DEFINE h == [g EXCEPT !.status = "accepted_80_20", !.settlement_proposal = FALSE]
  <2>2. h \in Goals /\ h.id = g.id /\ Earned(h)
    BY <1>1, <2>1 DEF Goals, Statuses, Earned, MayAccept
  <2>3. g \in GoalsOf(l) /\ g.status = "active" /\ g.settlement_proposal /\ MayAccept(g)
    BY <2>1 DEF CurrentGoals
  <2>4. m = Put(l, h) /\ g.status \notin Terminal
    BY <2>1 DEF Terminal
  <2> HIDE DEF h
  <2>5. Offered(l, h)
    BY <2>2, <2>3 DEF Offered
  <2>6. Writes(l, m, h)
    BY <2>1, <2>2, <2>4, <2>5, CurrentWrites
  <2> QED BY <2>2, <2>6
<1>8. CASE Resume(l, m)
  <2>1. CASE Transition(l, m, {"accepted_80_20", "paused", "blocked"}, "active")
    BY <1>2, <2>1 DEF Statuses, Terminal
  <2>2. CASE \E g \in CurrentGoals(l) :
               /\ g.status = "active" /\ m = Put(l, [g EXCEPT !.settlement_proposal = FALSE])
    <3>1. PICK g \in CurrentGoals(l) :
            /\ g.status = "active" /\ m = Put(l, [g EXCEPT !.settlement_proposal = FALSE])
      BY <2>2
    <3> DEFINE h == [g EXCEPT !.settlement_proposal = FALSE]
    <3>2. h \in Goals /\ h.id = g.id /\ Earned(h) /\ Offered(l, h)
      BY <1>1, <3>1 DEF Offered, CurrentGoals, Goals, Earned
    <3> QED BY <3>1, <3>2, CurrentWrites DEF Terminal
  <2> QED BY <1>8, <2>1, <2>2 DEF Resume
<1>9. CASE Propose(l, m) \/ Goal(l, m)
  BY <1>3, <1>9 DEF Propose, Goal
<1>10. CASE Block(l, m) \/ AcceptGoal(l, m) \/ Pause(l, m) \/ Cancel(l, m)
  BY <1>2, <1>10 DEF Block, AcceptGoal, Pause, Cancel, Statuses, Terminal
<1> QED BY <1>4, <1>5, <1>6, <1>7, <1>8, <1>9, <1>10 DEF Mutation

-----------------------------------------------------------------------------
(* What holds of the file, for any number of goals and criteria.  None of  *)
(* the parts is inductive alone: that no settled goal is lost or changed   *)
(* needs the ledger to be valid, and that needs the lock.                  *)
FileInv == file \in Ledgers /\ Valid(file) /\ SettlementIsEarned(file)

LEMMA FileInit == Init => FileInv
<1> SUFFICES ASSUME Init PROVE FileInv
  OBVIOUS
<1>1. file.goals = <<>> /\ file.current_goal_id = None /\ DOMAIN file.goals = {}
  BY DEF Init, EmptyLedger
<1>2. GoalsOf(file) = {}
  BY <1>1 DEF GoalsOf
<1>3. file \in Ledgers
  BY DEF Init, EmptyLedger, Ledgers
<1>4. Valid(file)
  BY <1>1, <1>2, GoalsKept DEF Valid
<1>5. SettlementIsEarned(file)
  BY <1>2 DEF SettlementIsEarned
<1> QED BY <1>3, <1>4, <1>5 DEF FileInv

LEMMA FileMutation ==
  ASSUME FileInv, Mutation(file, file')
  PROVE  FileInv' /\ SettledStays(file, file') /\ \A h \in GoalsOf(file') \ GoalsOf(file) : Offered(file, h)
<1>1. PICK g \in Goals : Writes(file, file', g)
  BY MutationWrites DEF FileInv
<1>2. /\ file' \in Ledgers /\ Valid(file')
      /\ \A h \in GoalsOf(file') : h = g \/ (h \in GoalsOf(file) /\ h.id # g.id)
  BY <1>1, PutGoals DEF Writes, FileInv
<1>3. SettlementIsEarned(file')
  BY <1>1, <1>2 DEF SettlementIsEarned, FileInv, Writes, Earned
<1>4. SettledStays(file, file')
  <2> SUFFICES ASSUME NEW h \in GoalsOf(file), h.status \in Terminal,
                      NEW k \in GoalsOf(file'), k.id = h.id
               PROVE  k = h
    BY DEF SettledStays
  <2>1. k # g
    BY <1>1 DEF Writes
  <2> QED BY <1>2, <2>1, OneGoalPerId DEF FileInv
<1>5. \A h \in GoalsOf(file') \ GoalsOf(file) : Offered(file, h)
  BY <1>1, <1>2 DEF Writes
<1> QED BY <1>2, <1>3, <1>4, <1>5 DEF FileInv

LEMMA FileStep == LockInv /\ FileInv /\ [Next]_vars => FileInv' /\ SettledStays(file, file')
<1>1. ASSUME FileInv, UNCHANGED file PROVE FileInv' /\ SettledStays(file, file')
  BY <1>1, OneGoalPerId DEF FileInv, SettledStays, SettlementIsEarned, Valid, GoalsOf
<1> QED BY <1>1, OneMutation, FileMutation

THEOREM FileHolds == Spec => []FileInv
<1>1. Init => FileInv
  BY FileInit
<1>2. LockInv /\ FileInv /\ [Next]_vars => FileInv'
  BY FileStep
<1> QED BY <1>1, <1>2, LockHeld, PTL DEF Spec

(* No operation is refused because it would make the ledger invalid, and   *)
(* the current goal is never dropped (writeGoalUnlocked).                  *)
THEOREM LedgerValidAlways == Spec => []LedgerValid
<1>1. FileInv => LedgerValid
  BY DEF FileInv, LedgerValid, LedgerIsValid
<1> QED BY <1>1, FileHolds, PTL

(* No goal is settled, nor a settlement proposed, against the rules of     *)
(* settleGoal.                                                             *)
THEOREM SettlementEarnedAlways == Spec => []SettlementEarned
<1>1. FileInv => SettlementEarned
  BY DEF FileInv, SettlementEarned
<1> QED BY <1>1, FileHolds, PTL

(* A goal that is complete or cancelled is never changed again.            *)
THEOREM SettledFrozenAlways == Spec => SettledFrozen
<1>1. LockInv /\ FileInv /\ [Next]_vars => [SettledStays(file, file')]_vars
  BY FileStep
<1> QED BY <1>1, LockHeld, FileHolds, PTL DEF Spec, SettledFrozen

(* A settlement that leaves criteria unmet is accepted only while it waits  *)
(* for the user on an active goal, whose criteria still allow it in the     *)
(* file that the command read: progress that another process recorded       *)
(* between the proposal and the command takes it back                       *)
(* (acceptSettlementProposal).                                              *)
THEOREM AcceptedWhenOffered ==
  Spec => [][\A h \in GoalsOf(file') \ GoalsOf(file) : Offered(file, h)]_vars
<1>1. LockInv /\ FileInv /\ [Next]_vars => [\A h \in GoalsOf(file') \ GoalsOf(file) : Offered(file, h)]_vars
  BY OneMutation, FileMutation
<1> QED BY <1>1, LockHeld, FileHolds, PTL DEF Spec

(* The types of the store's state; a copy is what was in the file once.    *)
THEOREM TypeCorrect == Spec => []TypeOK
<1> DEFINE Rest == /\ copy \in [Procs -> Ledgers] /\ alive \in [Procs -> BOOLEAN]
                   /\ crashes \in 0..MaxCrashes
<1>1. Init => Rest
  BY FileInit, CrashLimit DEF Init, FileInv
<1>2. LockInv /\ FileInv /\ Rest /\ [Next]_vars => Rest'
  <2> SUFFICES ASSUME FileInv, Rest, [Next]_vars PROVE Rest'
    OBVIOUS
  <2>1. file \in Ledgers /\ EmptyLedger \in Ledgers
    BY DEF FileInv, EmptyLedger, Ledgers
  <2>2. CASE UNCHANGED <<alive, crashes>>
    <3>1. \/ UNCHANGED copy
          \/ \E p \in Procs : copy' = [copy EXCEPT ![p] = file]
          \/ \E p \in Procs : copy' = [copy EXCEPT ![p] = EmptyLedger]
      BY DEF Next, vars, Request, Mkdir, GiveUp, WriteOwner, OwnerFails, RmdirFailed,
             LoadGoalLedger, Write, Refuse, Done, ReadOwner, UnlinkOwner, Rmdir,
             CleanupFails, Crash, Restart, RemoveLock
    <3> QED BY <2>1, <2>2, <3>1
  <2>3. CASE \E p \in Procs : Crash(p) \/ Restart(p)
    <3>1. ASSUME NEW p \in Procs, Crash(p) PROVE Rest'
      <4>1. crashes' \in 0..MaxCrashes
        BY <3>1, CrashLimit DEF Crash
      <4>2. copy' \in [Procs -> Ledgers] /\ alive' \in [Procs -> BOOLEAN]
        BY <2>1, <3>1 DEF Crash
      <4> QED BY <4>1, <4>2
    <3>2. ASSUME NEW p \in Procs, Restart(p) PROVE Rest'
      BY <3>2 DEF Restart
    <3> QED BY <2>3, <3>1, <3>2
  <2>4. UNCHANGED <<alive, crashes>> \/ \E p \in Procs : Crash(p) \/ Restart(p)
    BY DEF Next, vars, Request, Mkdir, GiveUp, WriteOwner, OwnerFails, RmdirFailed,
           LoadGoalLedger, Write, Refuse, Done, ReadOwner, UnlinkOwner, Rmdir,
           CleanupFails, Goto, RemoveLock
  <2> QED BY <2>2, <2>3, <2>4
<1>3. LockInv /\ FileInv /\ Rest => TypeOK
  BY DEF LockInv, LockTypes, FileInv, TypeOK
<1> QED BY <1>1, <1>2, <1>3, LockHeld, FileHolds, PTL DEF Spec

=============================================================================
