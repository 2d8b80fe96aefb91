-------------------------- MODULE RunCapsuleProofs --------------------------
(***************************************************************************)
(* What holds of the run capsule for any number of sessions, runs, events  *)
(* and compactions, and wherever the process ends: a capsule's file is     *)
(* about one run for ever, a boundary returns only when its change of      *)
(* phase is on disk or has failed to get there, and the model is owed the  *)
(* brief of a compaction until a request carries it.                       *)
(***************************************************************************)
EXTENDS RunCapsule, FiniteSetTheorems, TLAPS

Alive == {"starting", "resuming", "up"}

Waiting == {"none", "shutdown", "phase", "compact", "settle"}

-----------------------------------------------------------------------------
(* The inductive invariant.  What a capsule's queue, its file, the entry    *)
(* that names it and the binding of the process say of a capsule, they say  *)
(* of the same run; a number not given out has left no trace; and while a   *)
(* change of phase is due its write waits in the queue of the capsule the   *)
(* process is bound to, or is under way.                                    *)

QueueType == [pending : States \cup {None}, scheduled : BOOLEAN, writing : States \cup {None}]

Types ==
  /\ process \in {"down", "between"} \cup Alive /\ handler \in Waiting
  /\ sessions \in 0..MaxSessions /\ runs \in 0..MaxRuns /\ events \in Nat
  /\ state \in States
  /\ capsule \in Nat /\ capsules \in Nat /\ capsuleRun \in Nat /\ capsuleGeneration \in Nat
  /\ ready \in BOOLEAN /\ phaseDirty \in BOOLEAN
  /\ pendingCompaction \in BOOLEAN /\ owed \in BOOLEAN
  /\ queue \in [Capsules -> QueueType] /\ file \in [Capsules -> States \cup {None}]
  /\ entry \in Entries \cup {None} /\ late \in [Capsules -> SUBSET States] /\ due \in Nat

\* What the life of the process says of the kernel's state and the binding.
Bound ==
  /\ handler # "none" => process = "up"
  /\ ready <=> process = "up"
  /\ process \in Alive => capsuleGeneration = state.generation
  /\ process = "up" => capsuleRun = state.run /\ capsule >= 1
  /\ capsule <= capsules
  /\ capsules + (IF process \in {"starting", "resuming"} THEN 1 ELSE 0) <= sessions + runs

OfRun(c, r) ==
  /\ queue[c].pending # None => queue[c].pending.run = r
  /\ queue[c].writing # None => queue[c].writing.run = r
  /\ file[c] # None => file[c].run = r
  /\ \A s \in late[c] : s.run = r
  /\ entry # None /\ entry.capsule = c => entry.state.run = r
  /\ capsule = c => capsuleRun = r

OneRun == \A c \in Capsules : \E r \in Nat : OfRun(c, r)

Untouched(c) ==
  queue[c] = Idle /\ file[c] = None /\ late[c] = {} /\ (entry # None => entry.capsule # c)

Fresh ==
  /\ \A c \in Capsules : c > capsules => Untouched(c)
  /\ entry # None => entry.capsule \in Capsules

Due ==
  due # 0 => /\ handler = "phase" /\ due <= events
             /\ \/ queue[capsule].pending # None /\ queue[capsule].pending.number >= due
                \/ queue[capsule].writing # None /\ queue[capsule].writing.number >= due

IInv == Types /\ Bound /\ OneRun /\ Fresh /\ Due /\ BriefOwed

-----------------------------------------------------------------------------
LEMMA RecordsAreSomething ==
  /\ \A s \in States : s # None
  /\ \A e \in Entries : e # None /\ e.state \in States /\ e.capsule \in Nat
  BY NoneIsNoState DEF States, Entries

LEMMA NumberedType ==
  ASSUME NEW s \in States, NEW n \in Nat
  PROVE  LET t == [s EXCEPT !.number = n] IN
         t \in States /\ t.number = n /\ t.run = s.run /\ t.generation = s.generation
                      /\ t.starting = s.starting /\ t.changed = s.changed
  BY DEF States

LEMMA ChangedType ==
  ASSUME NEW s \in States, NEW n \in Nat
  PROVE  LET t == [s EXCEPT !.changed = n] IN
         t \in States /\ t.run = s.run /\ t.generation = s.generation
  BY DEF States

LEMMA LifecycleType ==
  ASSUME NEW s \in States, NEW b \in BOOLEAN, NEW n \in Nat
  PROVE  LET t == [s EXCEPT !.starting = b, !.changed = n] IN
         t \in States /\ t.run = s.run /\ t.generation = s.generation
  BY DEF States

OfAnotherRun(s, r, b, n) == [s EXCEPT !.run = r, !.starting = b, !.changed = n]

LEMMA NewRunType ==
  ASSUME NEW s \in States, NEW r \in Nat, NEW b \in BOOLEAN, NEW n \in Nat
  PROVE  LET t == OfAnotherRun(s, r, b, n) IN
         t \in States /\ t.run = r /\ t.generation = s.generation
<1> DEFINE u == [s EXCEPT !.run = r]
           t == OfAnotherRun(s, r, b, n)
<1>1. u \in States /\ u.run = r /\ u.generation = s.generation
  BY DEF States
<1>2. t = [u EXCEPT !.starting = b, !.changed = n]
  BY Zenon DEF OfAnotherRun
<1> HIDE DEF u, t
<1>3. t \in States /\ t.run = u.run /\ t.generation = u.generation
  BY <1>1, <1>2, LifecycleType
<1>4. t \in States /\ t.run = r /\ t.generation = s.generation
  BY <1>1, <1>3
<1> QED BY <1>4 DEF t

LEMMA SessionType ==
  ASSUME NEW s \in States, NEW n \in Nat
  PROVE  LET t == [s EXCEPT !.generation = @ + 1, !.starting = TRUE, !.changed = n] IN
         t \in States /\ t.starting = TRUE
<1> DEFINE u == [s EXCEPT !.generation = s.generation + 1]
           v == [u EXCEPT !.starting = TRUE]
           t == [s EXCEPT !.generation = @ + 1, !.starting = TRUE, !.changed = n]
<1>1. u \in States
  BY DEF States
<1>2. t = [v EXCEPT !.changed = n]
  BY Zenon
<1> HIDE DEF u, t
<1>3. v \in States /\ v.starting = TRUE
  BY <1>1 DEF States
<1> HIDE DEF v
<1>4. t \in States /\ t.starting = TRUE
  BY <1>2, <1>3 DEF States
<1> QED BY <1>4 DEF t

\* What the request of a state t leaves of the queues.
Asked(t) ==
  /\ capsule' \in Capsules /\ queue' \in [Capsules -> QueueType]
  /\ queue'[capsule'].pending = t /\ queue'[capsule'].writing = queue[capsule'].writing
  /\ \A c \in Capsules \ {capsule'} : queue'[c] = queue[c]

(* A capsule that hears of a state of its run, or a number not given out    *)
(* that hears of any, still speaks of one run.                               *)
LEMMA AskedOneRun ==
  ASSUME IInv, NEW t \in States, Asked(t), UNCHANGED disk, capsuleRun' = t.run,
         capsules' \in Nat, capsules' >= capsules, capsule' <= capsules',
         \/ capsule' = capsule /\ t.run = capsuleRun
         \/ capsule' = capsules + 1
  PROVE  OneRun' /\ Fresh'
<1> USE DEF IInv
<1>1. ASSUME NEW c \in Capsules PROVE \E r \in Nat : OfRun(c, r)'
  <2>1. PICK r \in Nat : OfRun(c, r)
    BY DEF OneRun
  <2>2. CASE c # capsule'
    <3>1. queue'[c] = queue[c]
      BY <2>2 DEF Asked
    <3> QED BY <2>1, <2>2, <3>1 DEF OfRun, disk
  <2>3. CASE c = capsule' /\ capsule' = capsule /\ t.run = capsuleRun
    <3>1. r = t.run
      BY <2>1, <2>3 DEF OfRun
    <3> QED BY <2>1, <2>3, <3>1 DEF OfRun, disk, Asked
  <2>4. CASE c = capsule' /\ capsule' = capsules + 1
    <3>1. Untouched(c) /\ capsule # c
      BY <2>4 DEF Fresh, Bound, Types, Capsules
    <3>2. queue'[c].writing = None
      BY <2>4, <3>1 DEF Asked, Untouched, Idle
    <3>3. OfRun(c, t.run)'
      BY <2>4, <3>1, <3>2 DEF OfRun, disk, Asked, Untouched
    <3> QED BY <3>3 DEF States
  <2> QED BY <2>2, <2>3, <2>4
<1>2. ASSUME NEW c \in Capsules, c > capsules' PROVE Untouched(c)'
  <2>1. c # capsule' /\ c > capsules /\ c \in Nat
    BY <1>2 DEF Types, Capsules, Asked, Bound
  <2>2. queue'[c] = queue[c] /\ Untouched(c)
    BY <2>1 DEF Asked, Fresh
  <2> QED BY <2>2 DEF Untouched, disk
<1>3. entry' # None => entry'.capsule \in Capsules
  BY DEF Fresh, disk
<1> QED BY <1>1, <1>2, <1>3 DEF OneRun, Fresh

-----------------------------------------------------------------------------
\* A capsule for each session and each run there has been is in the bounds.
LEMMA CapsuleNumber ==
  ASSUME NEW a \in 0..MaxSessions, NEW b \in 0..MaxRuns, NEW k \in Nat, k >= 1, k <= a + b
  PROVE  k \in Capsules
  BY CapsuleBounds DEF Capsules

\* A state that the kernel publishes while the capsule listens.
LEMMA PublishUp ==
  ASSUME IInv, process = "up", NEW s \in States, s.generation = state.generation,
         NEW moved \in BOOLEAN, NEW flush \in BOOLEAN, Publish(s, moved, flush), UNCHANGED disk,
         sessions' = sessions, runs' \in 0..MaxRuns,
         (runs' = runs /\ s.run = state.run) \/ runs' = runs + 1
  PROVE  /\ events' = events + 1 /\ state' \in States /\ state'.number = events'
         /\ state'.run = s.run /\ state'.generation = state.generation
         /\ ready' = TRUE /\ capsuleGeneration' = state'.generation /\ capsuleRun' = state'.run
         /\ capsule' \in Nat /\ capsules' \in Nat /\ capsule' >= 1 /\ capsule' <= capsules'
         /\ capsules' <= sessions' + runs'
         /\ s.run = state.run => capsule' = capsule
         /\ phaseDirty' = (Dirty(moved) /\ ~flush) /\ phaseDirty' \in BOOLEAN
         /\ Asked(state') /\ OneRun' /\ Fresh'
<1> USE DEF IInv
<1> DEFINE t == [s EXCEPT !.number = Next1]
<1>1. t \in States /\ t.number = events + 1 /\ t.run = s.run /\ t.generation = s.generation
  BY NumberedType DEF Next1, Types
<1>2. events' = events + 1 /\ state' = t /\ Hear(t, moved, flush)
  BY DEF Publish, Next1
<1> HIDE DEF t
<1>3. ~Deaf(t) /\ ready
  BY <1>1 DEF Deaf, Bound, Alive
<1>4. /\ capsule' = Target(t) /\ capsuleRun' = t.run
      /\ capsules' = IF Target(t) > capsules THEN Target(t) ELSE capsules
      /\ phaseDirty' = (Dirty(moved) /\ ~flush)
      /\ queue' = [queue EXCEPT ![Target(t)] = Requested(@, t)]
      /\ UNCHANGED <<capsuleGeneration, ready>>
  BY <1>2, <1>3 DEF Hear
<1>5. capsule \in Nat /\ capsules \in Nat /\ capsule >= 1 /\ capsule <= capsules
      /\ capsules <= sessions + runs /\ sessions \in 0..MaxSessions /\ runs \in Nat
      /\ capsuleRun = state.run
  BY DEF Bound, Types
<1>6. \/ Target(t) = capsule /\ t.run = capsuleRun
      \/ Target(t) = capsules + 1 /\ runs' = runs + 1 /\ s.run # state.run
  BY <1>1, <1>5 DEF Target
<1>7. Target(t) \in Nat /\ Target(t) >= 1 /\ capsules' \in Nat /\ Target(t) <= capsules'
      /\ capsules' >= capsules /\ capsules' <= sessions' + runs'
      /\ sessions' \in 0..MaxSessions /\ Target(t) <= sessions' + runs'
  BY <1>4, <1>5, <1>6
<1>8. Target(t) \in Capsules
  BY <1>5, <1>7, CapsuleNumber
<1>9. Requested(queue[Target(t)], t) \in QueueType /\ Requested(queue[Target(t)], t).pending = t
      /\ Requested(queue[Target(t)], t).writing = queue[Target(t)].writing
  BY <1>1, <1>8 DEF Types, QueueType, Requested
<1>10. Asked(t)
  BY <1>4, <1>8, <1>9 DEF Asked, Types
<1>11. s.run = state.run => capsule' = capsule
  BY <1>4, <1>6
<1>12. OneRun' /\ Fresh'
  BY <1>1, <1>4, <1>6, <1>7, <1>10, AskedOneRun
<1> QED BY <1>1, <1>2, <1>3, <1>4, <1>5, <1>7, <1>10, <1>11, <1>12 DEF Bound, Alive, Types, Dirty

\* Before it listens nothing of it changes.
LEMMA PublishStarting ==
  ASSUME IInv, process \in {"starting", "resuming"}, NEW s \in States, s.generation = state.generation,
         NEW moved \in BOOLEAN, NEW flush \in BOOLEAN, Publish(s, moved, flush)
  PROVE  /\ events' = events + 1 /\ state' \in States /\ state'.number = events'
         /\ state'.generation = state.generation
         /\ UNCHANGED store
<1> USE DEF IInv
<1> DEFINE t == [s EXCEPT !.number = Next1]
<1>1. t \in States /\ t.number = events + 1 /\ t.generation = s.generation
  BY NumberedType DEF Next1, Types
<1>2. events' = events + 1 /\ state' = t /\ Hear(t, moved, flush)
  BY DEF Publish, Next1
<1> HIDE DEF t
<1>3. ~Deaf(t) /\ ~ready
  BY <1>1 DEF Deaf, Bound, Alive
<1> QED BY <1>1, <1>2, <1>3 DEF Hear

LEMMA SameStoreOneRun ==
  ASSUME IInv, UNCHANGED <<queue, file, entry, late>>, capsules' = capsules,
         UNCHANGED <<capsule, capsuleRun>>
  PROVE  OneRun' /\ Fresh'
  BY DEF IInv, OneRun, OfRun, Fresh, Untouched

-----------------------------------------------------------------------------
(* Init and the steps.                                                      *)

LEMMA InitIInv == Init => IInv
<1> SUFFICES ASSUME Init PROVE IInv
  OBVIOUS
<1> USE DEF Init
<1>1. NoState \in States
  BY DEF NoState, States
<1>a. Idle \in QueueType
  BY DEF Idle, QueueType
<1>b. queue \in [Capsules -> QueueType] /\ file \in [Capsules -> States \cup {None}]
  BY <1>a
<1>c. sessions \in 0..MaxSessions /\ runs \in 0..MaxRuns
  BY CapsuleBounds
<1>2. Types
  BY <1>1, <1>b, <1>c DEF Types, Alive, Waiting
<1>3. Bound /\ Due /\ BriefOwed
  BY CapsuleBounds DEF Bound, Alive, Due, BriefOwed
<1>4. \A c \in Capsules : OfRun(c, 0)
  BY DEF OfRun, Idle
<1>5. Fresh
  BY DEF Fresh, Untouched
<1> QED BY <1>2, <1>3, <1>4, <1>5 DEF IInv, OneRun

\* What a step that only publishes leaves alone.
Frame ==
  /\ UNCHANGED disk /\ sessions' = sessions /\ process' = process /\ handler' \in Waiting
  /\ pendingCompaction' \in BOOLEAN /\ owed' \in BOOLEAN /\ due' \in Nat

LEMMA SomeTypes ==
  ASSUME IInv
  PROVE  /\ state \in States /\ Next1 \in Nat /\ Next1 = events + 1 /\ runs \in 0..MaxRuns
         /\ handler \in Waiting /\ pendingCompaction \in BOOLEAN /\ owed \in BOOLEAN /\ due \in Nat
  BY DEF IInv, Types, Next1

\* A state published between two handlers, or by a signal.
LEMMA PublishInv ==
  ASSUME IInv, process = "up", NEW s \in States, s.generation = state.generation,
         NEW moved \in BOOLEAN, NEW flush \in BOOLEAN, Publish(s, moved, flush), Frame,
         runs' \in 0..MaxRuns, (runs' = runs /\ s.run = state.run) \/ runs' = runs + 1,
         Due', BriefOwed'
  PROVE  IInv'
<1>0. events \in Nat
  BY DEF IInv, Types
<1>1. /\ events' = events + 1 /\ state' \in States /\ state'.run = s.run /\ state'.generation = state.generation
      /\ ready' = TRUE /\ capsuleGeneration' = state'.generation /\ capsuleRun' = state'.run
      /\ capsule' \in Nat /\ capsules' \in Nat /\ capsule' >= 1 /\ capsule' <= capsules'
      /\ capsules' <= sessions' + runs' /\ phaseDirty' \in BOOLEAN
      /\ Asked(state') /\ OneRun' /\ Fresh'
  BY PublishUp DEF Frame
<1>2. Types'
  BY <1>0, <1>1 DEF IInv, Types, Asked, Frame, disk, States
<1>3. Bound'
  <2>1. process' = "up" /\ (ready' <=> TRUE)
    BY <1>1 DEF Frame
  <2> QED BY <1>1, <2>1 DEF Bound
<1> QED BY <1>1, <1>2, <1>3 DEF IInv

\* Between two handlers no change of phase is due.
LEMMA NothingDue == ASSUME IInv, Between PROVE process = "up" /\ handler = "none" /\ due = 0
  BY DEF IInv, Between, Due

LEMMA SessionShutdownInv == ASSUME IInv, SessionShutdown PROVE IInv'
<1> DEFINE s == [state EXCEPT !.starting = FALSE, !.changed = Next1]
<1>1. process = "up" /\ handler = "none" /\ due = 0
  BY NothingDue DEF SessionShutdown
<1>2. s \in States /\ s.run = state.run /\ s.generation = state.generation
  BY SomeTypes, LifecycleType
<1> HIDE DEF s
<1>3. Publish(s, FALSE, FALSE) /\ Due' /\ BriefOwed'
  BY <1>1 DEF SessionShutdown, s, Due, BriefOwed, IInv, briefs
<1>4. Frame /\ runs' = runs /\ runs \in 0..MaxRuns
  BY SomeTypes DEF SessionShutdown, Frame, Waiting, briefs
<1> QED BY <1>1, <1>2, <1>3, <1>4, PublishInv

LEMMA BeforeAgentStartInv == ASSUME IInv, NEW newRun \in BOOLEAN, BeforeAgentStart(newRun) PROVE IInv'
<1> DEFINE s == IF newRun THEN [state EXCEPT !.run = runs + 1, !.starting = TRUE, !.changed = 0] ELSE state
<1>1. process = "up" /\ handler = "none" /\ due = 0
  BY NothingDue DEF BeforeAgentStart
<1>2. s \in States /\ s.generation = state.generation /\ (~newRun => s.run = state.run)
  <2>1. state \in States /\ runs + 1 \in Nat
    BY SomeTypes, CapsuleBounds
  <2>2. CASE newRun
    <3>1. s = OfAnotherRun(state, runs + 1, TRUE, 0)
      BY <2>2, Zenon DEF OfAnotherRun
    <3> HIDE DEF s
    <3> DEFINE r == runs + 1
               n == 0
    <3>2. r \in Nat /\ n \in Nat /\ s = OfAnotherRun(state, r, TRUE, n)
      BY <2>1, <3>1
    <3> HIDE DEF r, n
    <3> DEFINE t == OfAnotherRun(state, r, TRUE, n)
    <3>3. TRUE \in BOOLEAN /\ state \in States
      BY <2>1
    <3>4. t \in States /\ t.generation = state.generation
      BY <3>2, <3>3, NewRunType
    <3> QED BY <2>2, <3>2, <3>4
  <2> QED BY <2>1, <2>2
<1> HIDE DEF s
<1>3. Publish(s, FALSE, FALSE) /\ Due' /\ BriefOwed'
  BY <1>1 DEF BeforeAgentStart, s, Due, BriefOwed, IInv, briefs
<1>4. runs' \in 0..MaxRuns /\ ((runs' = runs /\ s.run = state.run) \/ runs' = runs + 1)
  BY <1>2, SomeTypes, CapsuleBounds DEF BeforeAgentStart
<1>5. Frame
  BY SomeTypes DEF BeforeAgentStart, Frame, Waiting, briefs
<1> QED BY <1>1, <1>2, <1>3, <1>4, <1>5, PublishInv

LEMMA AgentStartInv == ASSUME IInv, NEW newRun \in BOOLEAN, AgentStart(newRun) PROVE IInv'
<1> DEFINE s == [state EXCEPT !.run = IF newRun THEN runs + 1 ELSE @, !.starting = FALSE, !.changed = Next1]
<1>1. process = "up" /\ handler = "none" /\ due = 0
  BY NothingDue DEF AgentStart
<1>2. s \in States /\ s.generation = state.generation /\ (~newRun => s.run = state.run)
  <2> DEFINE r == IF newRun THEN runs + 1 ELSE state.run
  <2>1. state \in States /\ Next1 \in Nat /\ state.run \in Nat /\ runs + 1 \in Nat
    BY SomeTypes, CapsuleBounds DEF States
  <2>2. r \in Nat
    BY <2>1
  <2>a. s = OfAnotherRun(state, r, FALSE, Next1)
    BY Zenon DEF OfAnotherRun
  <2>3. ~newRun => r = state.run
    OBVIOUS
  <2> HIDE DEF r, s
  <2> QED BY <2>1, <2>2, <2>a, <2>3, NewRunType
<1> HIDE DEF s
<1>3. Publish(s, FALSE, FALSE) /\ Due' /\ BriefOwed'
  BY <1>1 DEF AgentStart, s, Due, BriefOwed, IInv, briefs
<1>4. runs' \in 0..MaxRuns /\ ((runs' = runs /\ s.run = state.run) \/ runs' = runs + 1)
  BY <1>2, SomeTypes, CapsuleBounds DEF AgentStart
<1>5. Frame
  BY SomeTypes DEF AgentStart, Frame, Waiting, briefs
<1> QED BY <1>1, <1>2, <1>3, <1>4, <1>5, PublishInv

(* A boundary that moved the run asks for the write of a state of the       *)
(* boundary's own number, and waits.                                         *)
LEMMA BoundaryInv == ASSUME IInv, NEW moved \in BOOLEAN, Boundary(moved) PROVE IInv'
<1>1. process = "up" /\ handler = "none" /\ due = 0
  BY NothingDue DEF Boundary
<1>2. state \in States
  BY SomeTypes
<1>3. Frame /\ runs' = runs /\ runs \in 0..MaxRuns /\ Publish(state, moved, TRUE)
  BY <1>1, SomeTypes DEF Boundary, Frame, Waiting, briefs
<1>a. events' = events + 1 /\ state' \in States /\ state'.number = events' /\ Asked(state')
  BY <1>1, <1>2, <1>3, PublishUp DEF Frame
<1>b. events \in Nat
  BY DEF IInv, Types
<1>4. CASE moved
  <2>1. due' = events + 1 /\ handler' = "phase"
    BY <1>4 DEF Boundary, Next1, Dirty
  <2>2. Due'
    BY <1>a, <1>b, <2>1, RecordsAreSomething DEF Due, Asked
  <2>3. BriefOwed'
    BY <1>1, <2>1 DEF Boundary, BriefOwed, IInv, briefs
  <2> QED BY <1>1, <1>2, <1>3, <2>2, <2>3, PublishInv
<1>5. CASE ~moved
  <2>1. due' = 0 /\ handler' \in {"phase", "none"}
    BY <1>1, <1>5 DEF Boundary
  <2>2. Due' /\ BriefOwed'
    BY <1>1, <2>1 DEF Boundary, Due, BriefOwed, IInv, briefs
  <2> QED BY <1>1, <1>2, <1>3, <2>2, PublishInv
<1> QED BY <1>4, <1>5

LEMMA AgentEndInv == ASSUME IInv, NEW providerFailed \in BOOLEAN, AgentEnd(providerFailed) PROVE IInv'
<1> DEFINE s == [state EXCEPT !.changed = Next1]
<1>1. process = "up" /\ handler = "none" /\ due = 0
  BY NothingDue DEF AgentEnd
<1>2. s \in States /\ s.run = state.run /\ s.generation = state.generation
  BY SomeTypes, ChangedType
<1> HIDE DEF s
<1>3. Publish(s, FALSE, FALSE) /\ Due' /\ BriefOwed'
  BY <1>1 DEF AgentEnd, s, Due, BriefOwed, IInv
<1>4. Frame /\ runs' = runs /\ runs \in 0..MaxRuns
  BY <1>1, SomeTypes DEF AgentEnd, Frame
<1> QED BY <1>1, <1>2, <1>3, <1>4, PublishInv

(* After a compaction the brief is pending, or its handler will make it so. *)
LEMMA SessionCompactInv == ASSUME IInv, NEW moved \in BOOLEAN, SessionCompact(moved) PROVE IInv'
<1>1. process = "up" /\ handler = "none" /\ due = 0
  BY NothingDue DEF SessionCompact
<1>2. state \in States
  BY SomeTypes
<1>3. handler' \in {"compact", "none"} /\ owed' = TRUE /\ due' = 0
      /\ (pendingCompaction' \/ handler' = "compact") /\ pendingCompaction' \in BOOLEAN
  BY <1>1 DEF SessionCompact, IInv, Types, Dirty
<1>4. Due' /\ BriefOwed'
  BY <1>3 DEF Due, BriefOwed
<1>5. Frame /\ runs' = runs /\ runs \in 0..MaxRuns /\ Publish(state, moved, TRUE)
  BY <1>3, SomeTypes DEF SessionCompact, Frame, Waiting
<1> QED BY <1>1, <1>2, <1>4, <1>5, PublishInv

LEMMA AgentSettledInv == ASSUME IInv, NEW moved \in BOOLEAN, AgentSettled(moved) PROVE IInv'
<1> DEFINE s == [state EXCEPT !.changed = Next1]
<1>1. process = "up" /\ handler = "none" /\ due = 0
  BY NothingDue DEF AgentSettled
<1>2. s \in States /\ s.run = state.run /\ s.generation = state.generation
  BY SomeTypes, ChangedType
<1> HIDE DEF s
<1>3. Publish(s, moved, FALSE) /\ Due' /\ BriefOwed' /\ pendingCompaction' = pendingCompaction
  BY <1>1 DEF AgentSettled, SettledBriefs, s, Due, BriefOwed, IInv
<1>4. Frame /\ runs' = runs /\ runs \in 0..MaxRuns
  BY <1>3, SomeTypes DEF AgentSettled, Frame, Waiting
<1> QED BY <1>1, <1>2, <1>3, <1>4, PublishInv

(* A signal while a boundary waits replaces the state that waits to be      *)
(* written by a newer one.                                                   *)
LEMMA SignalInv ==
  ASSUME IInv, NEW moved \in BOOLEAN, NEW reopened \in BOOLEAN, Signal(moved, reopened) PROVE IInv'
<1> DEFINE s == IF reopened THEN [state EXCEPT !.changed = Next1] ELSE state
<1>1. s \in States /\ s.run = state.run /\ s.generation = state.generation
  BY SomeTypes, ChangedType
<1> HIDE DEF s
<1>2. Publish(s, moved, FALSE)
  BY DEF Signal, s
<1>0. Frame /\ runs' = runs /\ runs \in 0..MaxRuns
  BY SomeTypes DEF Signal, Frame, briefs
<1>3. CASE process = "up"
  <2>1. /\ events' = events + 1 /\ state' \in States /\ state'.number = events'
        /\ Asked(state') /\ capsule' = capsule
    BY <1>0, <1>1, <1>2, <1>3, PublishUp DEF Frame
  <2>2. Due'
    BY <2>1, RecordsAreSomething DEF Signal, IInv, Types, Due, Asked
  <2>3. BriefOwed'
    BY DEF Signal, IInv, BriefOwed, briefs
  <2> QED BY <1>0, <1>1, <1>2, <1>3, <2>2, <2>3, PublishInv
<1>4. CASE process \in {"starting", "resuming"}
  <2>1. /\ events' = events + 1 /\ state' \in States /\ state'.generation = state.generation
        /\ UNCHANGED store
    BY <1>1, <1>2, <1>4, PublishStarting
  <2>2. OneRun' /\ Fresh'
    BY <2>1, SameStoreOneRun DEF Signal, store, bound, disk
  <2>3. Types'
    BY <2>1 DEF Signal, IInv, Types, store, bound, briefs, disk
  <2>4. Bound' /\ Due' /\ BriefOwed'
    BY <1>4, <2>1 DEF Signal, IInv, Types, Bound, Alive, Due, BriefOwed, store, bound, briefs
  <2> QED BY <2>2, <2>3, <2>4 DEF IInv
<1> QED BY <1>3, <1>4 DEF Signal

-----------------------------------------------------------------------------
(* The session starts.                                                      *)

(* What a session resumes from, its last entry or its only file, is of a    *)
(* capsule that was given out, and of the run that capsule is about.         *)
LEMMA RestoredType ==
  ASSUME IInv, NEW resume \in BOOLEAN, Restored(resume) # None
  PROVE  LET from == Restored(resume) IN
         /\ from \in Entries /\ from.capsule \in Capsules /\ from.capsule <= capsules
         /\ from.capsule >= 1
         /\ \A r \in Nat : OfRun(from.capsule, r) => from.state.run = r
<1> DEFINE from == Restored(resume)
<1>1. CASE resume /\ entry # None
  <2>1. from = entry /\ from \in Entries /\ from.capsule \in Capsules /\ ~Untouched(from.capsule)
    BY <1>1 DEF Restored, IInv, Types, Fresh, Untouched
  <2>2. from.capsule <= capsules /\ from.capsule >= 1
    BY <2>1 DEF IInv, Fresh, Types, Capsules
  <2> QED BY <1>1, <2>1, <2>2 DEF OfRun
<1>2. CASE resume /\ entry = None /\ Cardinality(Kept) = 1
  <2>1. Kept # {}
    BY <1>2, FS_EmptySet
  <2>2. from \in Kept
    BY <1>2, <2>1 DEF Restored
  <2>3. PICK c \in Capsules : file[c] # None /\ from = [capsule |-> c, state |-> file[c]]
    BY <2>2 DEF Kept
  <2>4. from \in Entries /\ from.capsule = c /\ from.state = file[c] /\ ~Untouched(c)
    BY <2>3 DEF IInv, Types, Entries, Capsules, Untouched
  <2>5. c <= capsules /\ c >= 1
    BY <2>4 DEF IInv, Fresh, Types, Capsules
  <2> QED BY <2>3, <2>4, <2>5 DEF OfRun
<1> QED BY <1>1, <1>2 DEF Restored

LEMMA SessionStartInv == ASSUME IInv, NEW resume \in BOOLEAN, SessionStart(resume) PROVE IInv'
<1> DEFINE from == Restored(resume)
           base == IF from = None THEN [state EXCEPT !.run = runs + 1] ELSE from.state
           s    == [base EXCEPT !.generation = @ + 1, !.starting = TRUE, !.changed = Next1]
           t    == [s EXCEPT !.number = Next1]
<1>1. state \in States /\ Next1 \in Nat /\ runs \in 0..MaxRuns /\ runs + 1 \in Nat
  BY SomeTypes, CapsuleBounds
<1>2. base \in States
  <2>1. CASE from = None
    BY <1>1, <2>1 DEF States
  <2>2. CASE from # None
    BY <2>2, RestoredType DEF Entries
  <2> QED BY <2>1, <2>2
<1> HIDE DEF base
<1>3. s \in States /\ s.starting = TRUE
  BY <1>1, <1>2, SessionType
<1> HIDE DEF s
<1>4. t \in States /\ t.starting = TRUE
  BY <1>1, <1>3, NumberedType
<1>5. events' = events + 1 /\ state' = t /\ Hear(t, FALSE, FALSE)
  BY DEF SessionStart, Publish, Next1, s, base
<1> HIDE DEF t
<1>6. ~ready /\ process # "up" /\ handler = "none" /\ due = 0
  BY DEF IInv, Bound, Due, SessionStart
<1>7. UNCHANGED <<bound, phaseDirty, queue>> /\ ready' = FALSE /\ capsuleGeneration' = t.generation
  <2>1. CASE Deaf(t)
    BY <1>5, <2>1 DEF Hear
  <2>2. CASE ~Deaf(t)
    BY <1>4, <1>5, <1>6, <2>2 DEF Hear, Deaf, store, IInv, Types
  <2> QED BY <2>1, <2>2
<1>8. /\ process' \in {"starting", "resuming"} /\ sessions < MaxSessions /\ sessions' = sessions + 1
      /\ runs' \in {runs, runs + 1} /\ runs' \in 0..MaxRuns /\ entry' \in {entry, None}
      /\ UNCHANGED <<handler, briefs, file, late, due>>
  BY <1>1, CapsuleBounds DEF SessionStart
<1>9. sessions' \in 0..MaxSessions /\ sessions \in Nat /\ events' \in Nat /\ t.generation \in Nat
  BY <1>4, <1>5, <1>8, CapsuleBounds DEF IInv, Types, States
<1>10. Types'
  BY <1>4, <1>5, <1>6, <1>7, <1>8, <1>9 DEF IInv, Types, bound, briefs, Alive
<1>11. Bound'
  <2>1. capsules \in Nat /\ capsule <= capsules /\ capsules <= sessions + runs
    BY <1>6 DEF IInv, Types, Bound
  <2>2. handler' = "none" /\ process' # "up" /\ (ready' <=> FALSE) /\ capsules' = capsules
        /\ capsule' = capsule /\ capsuleGeneration' = state'.generation
    BY <1>5, <1>6, <1>7, <1>8 DEF bound
  <2>3. capsules' + 1 <= sessions' + runs'
    <3>1. runs' >= runs /\ runs \in Nat /\ runs' \in Nat
      BY <1>1, <1>8, CapsuleBounds
    <3>2. sessions' = sessions + 1 /\ sessions \in Nat /\ capsules' = capsules
      BY <1>8, <1>9, <2>2
    <3>3. capsules \in Nat /\ capsules <= sessions + runs
      BY <2>1
    <3>4. \A c, s0, r, r1 \in Nat : c <= s0 + r /\ r1 >= r => c + 1 <= s0 + 1 + r1
      OBVIOUS
    <3> QED BY <3>1, <3>2, <3>3, <3>4
  <2> QED BY <1>8, <2>1, <2>2, <2>3 DEF Bound
<1>12. OneRun'
  <2>1. ASSUME NEW c \in Capsules, NEW r \in Nat, OfRun(c, r) PROVE OfRun(c, r)'
    BY <1>7, <1>8, <2>1 DEF OfRun, bound
  <2> QED BY <2>1 DEF IInv, OneRun
<1>13. Fresh'
  BY <1>7, <1>8 DEF IInv, Fresh, Untouched, bound
<1>14. Due' /\ BriefOwed'
  BY <1>6, <1>8 DEF Due, BriefOwed
<1> QED BY <1>10, <1>11, <1>12, <1>13, <1>14 DEF IInv

(* The session goes on with the capsule it resumes from only when that is   *)
(* of the run the kernel goes on with; else the number is a new one.         *)
LEMMA CapsuleStartInv == ASSUME IInv, CapsuleStart PROVE IInv'
<1> DEFINE from == Restored(process = "resuming")
           mine == IF Continues(from) THEN from.capsule ELSE capsules + 1
<1>1. /\ process \in {"starting", "resuming"} /\ process' = "up" /\ ready' = TRUE
      /\ capsule' = mine /\ capsuleRun' = state.run
      /\ capsules' = IF mine > capsules THEN mine ELSE capsules
      /\ queue' = [queue EXCEPT ![mine] = Requested(Idle, state)]
      /\ phaseDirty' = FALSE /\ pendingCompaction' = FALSE /\ owed' = FALSE
      /\ late' = [late EXCEPT ![mine] =
                    @ \cup ({queue[mine].pending, queue[mine].writing} \ {None})]
      /\ UNCHANGED <<handler, sessions, state, events, runs, capsuleGeneration, file, entry, due>>
  BY DEF CapsuleStart, kernel
<1>2. /\ state \in States /\ state.run \in Nat /\ capsules \in Nat /\ sessions \in 0..MaxSessions
      /\ runs \in 0..MaxRuns /\ capsules + 1 <= sessions + runs /\ handler = "none" /\ due = 0
      /\ capsuleGeneration = state.generation
  BY <1>1 DEF IInv, Types, Bound, Due, Alive, States
<1>3. /\ mine \in Capsules /\ mine \in Nat /\ mine >= 1 /\ mine <= capsules'
      /\ capsules' \in Nat /\ capsules' >= capsules /\ capsules' <= sessions + runs
      /\ \/ \A r \in Nat : OfRun(mine, r) => state.run = r
         \/ mine > capsules
  <2>1. CASE Continues(from)
    <3>1. from # None /\ from.state.run = state.run /\ mine = from.capsule
      BY <2>1 DEF Continues
    <3>2. (process = "resuming") \in BOOLEAN
      OBVIOUS
    <3>3. /\ mine \in Capsules /\ mine <= capsules /\ mine >= 1
          /\ \A r \in Nat : OfRun(mine, r) => state.run = r
      BY <3>1, <3>2, RestoredType
    <3> HIDE DEF mine
    <3>4. mine \in Nat /\ capsules' = capsules
      BY <1>1, <1>2, <3>3 DEF Capsules
    <3> QED BY <1>2, <3>3, <3>4
  <2>2. CASE ~Continues(from)
    <3>1. mine = capsules + 1
      BY <2>2
    <3> HIDE DEF mine
    <3> QED BY <1>1, <1>2, <3>1, CapsuleBounds DEF Capsules
  <2> QED BY <2>1, <2>2
<1> HIDE DEF mine
<1>4. Requested(Idle, state) \in QueueType /\ Requested(Idle, state).pending = state
      /\ Requested(Idle, state).writing = None
  BY <1>2 DEF Requested, Idle, QueueType
<1>5. /\ queue' \in [Capsules -> QueueType] /\ queue'[mine].pending = state
      /\ queue'[mine].writing = None /\ \A c \in Capsules \ {mine} : queue'[c] = queue[c]
  BY <1>1, <1>3, <1>4 DEF IInv, Types
<1>a. /\ late' \in [Capsules -> SUBSET States]
      /\ \A s \in late'[mine] \ late[mine] :
           s # None /\ s \in {queue[mine].pending, queue[mine].writing}
      /\ \A c \in Capsules \ {mine} : late'[c] = late[c]
  <2>1. queue[mine] \in QueueType /\ late \in [Capsules -> SUBSET States]
    BY <1>3 DEF IInv, Types
  <2>2. {queue[mine].pending, queue[mine].writing} \ {None} \subseteq States
    BY <2>1 DEF QueueType
  <2> DEFINE old == {queue[mine].pending, queue[mine].writing} \ {None}
  <2>3. late' = [late EXCEPT ![mine] = @ \cup old] /\ old \subseteq States
    BY <1>1, <2>2
  <2>4. \A s \in old : s # None /\ s \in {queue[mine].pending, queue[mine].writing}
    OBVIOUS
  <2> HIDE DEF old
  <2>5. /\ late' \in [Capsules -> SUBSET States] /\ late'[mine] = late[mine] \cup old
        /\ \A c \in Capsules \ {mine} : late'[c] = late[c]
    BY <1>3, <2>1, <2>3
  <2> QED BY <2>4, <2>5
<1>6. Types'
  BY <1>1, <1>2, <1>3, <1>5, <1>a DEF IInv, Types, Alive
<1>7. Bound'
  <2>1. process' = "up" /\ (ready' <=> TRUE)
    BY <1>1
  <2> QED BY <1>1, <1>2, <1>3, <2>1 DEF Bound
<1>8. OneRun'
  <2>1. ASSUME NEW c \in Capsules PROVE \E r \in Nat : OfRun(c, r)'
    <3>1. PICK r \in Nat : OfRun(c, r)
      BY DEF IInv, OneRun
    <3>2. CASE c # mine
      BY <1>1, <1>5, <1>a, <3>1, <3>2 DEF OfRun
    <3>3. CASE c = mine /\ state.run = r
      BY <1>1, <1>5, <1>a, <3>1, <3>3 DEF OfRun
    <3>4. CASE c = mine /\ mine > capsules
      <4>1. Untouched(c)
        BY <3>4 DEF IInv, Fresh
      <4>2. PICK q \in Nat : q = state.run
        BY <1>2
      <4>4. late'[c] = {}
        BY <1>a, <3>4, <4>1 DEF Untouched, Idle
      <4>3. OfRun(c, q)'
        BY <1>1, <1>5, <3>4, <4>1, <4>2, <4>4 DEF OfRun, Untouched
      <4> QED BY <4>3
    <3> QED BY <1>3, <3>1, <3>2, <3>3, <3>4
  <2> QED BY <2>1 DEF OneRun
<1>9. Fresh'
  <2>1. ASSUME NEW c \in Capsules, c > capsules' PROVE Untouched(c)'
    <3>1. c > capsules /\ c # mine
      BY <1>2, <1>3, <2>1 DEF Capsules
    <3> QED BY <1>1, <1>5, <1>a, <3>1 DEF IInv, Fresh, Untouched
  <2> QED BY <1>1, <2>1 DEF IInv, Fresh
<1>10. Due' /\ BriefOwed'
  BY <1>1, <1>2 DEF Due, BriefOwed
<1> QED BY <1>6, <1>7, <1>8, <1>9, <1>10 DEF IInv

-----------------------------------------------------------------------------
(* The process ends, handlers return, and the queue writes.                 *)

LEMMA ExitInv == ASSUME IInv, Exit PROVE IInv'
<1> USE DEF Exit
<1>1. NoState \in States
  BY DEF NoState, States
<1>2. Idle \in QueueType
  BY DEF Idle, QueueType
<1>3. queue' \in [Capsules -> QueueType] /\ \A c \in Capsules : queue'[c] = Idle
  BY <1>2
<1>4. Types'
  BY <1>1, <1>3 DEF IInv, Types, Waiting
<1>5. Bound'
  <2>1. capsules \in Nat /\ capsules <= sessions + runs
    BY CapsuleBounds DEF IInv, Types, Bound
  <2>2. capsules' = capsules /\ sessions' = sessions /\ runs' = runs /\ capsule' = 0
        /\ handler' = "none" /\ process' = "down" /\ (ready' <=> FALSE)
    OBVIOUS
  <2> QED BY <2>1, <2>2 DEF Bound, Alive
<1>6. OneRun'
  <2>1. ASSUME NEW c \in Capsules, NEW r \in Nat, OfRun(c, r) PROVE OfRun(c, r)'
    BY <1>3, <2>1 DEF OfRun, Idle, Capsules
  <2> QED BY <2>1 DEF IInv, OneRun
<1>7. Fresh'
  BY <1>3 DEF IInv, Fresh, Untouched
<1>8. Due' /\ BriefOwed'
  BY DEF Due, BriefOwed
<1> QED BY <1>4, <1>5, <1>6, <1>7, <1>8 DEF IInv

\* An event that leaves the kernel, the store and the disk alone.
LEMMA QuietInv ==
  ASSUME IInv, UNCHANGED <<process, sessions, kernel, store, disk>>, handler' \in Waiting,
         handler' # "none" => process = "up",
         pendingCompaction' \in BOOLEAN, owed' \in BOOLEAN, due' = due, Due', BriefOwed'
  PROVE  IInv'
<1> USE DEF kernel, store, bound, disk
<1>1. Types'
  BY DEF IInv, Types
<1>2. Bound'
  BY DEF IInv, Bound
<1>3. OneRun' /\ Fresh'
  BY SameStoreOneRun
<1> QED BY <1>1, <1>2, <1>3 DEF IInv

\* A queue that is idle has written whatever was due.
LEMMA IdleNothingDue == ASSUME IInv, queue[capsule] = Idle PROVE due = 0
  BY DEF IInv, Due, Idle

LEMMA ShutdownReturnsInv == ASSUME IInv, ShutdownReturns PROVE IInv'
<1> USE DEF ShutdownReturns
<1>1. process = "up" /\ due = 0 /\ due' = 0
  BY IdleNothingDue DEF IInv, Bound
<1>2. Types'
  BY DEF IInv, Types, Waiting, kernel, bound, briefs, disk
<1>3. Bound'
  <2>1. capsules \in Nat /\ capsules <= sessions + runs /\ capsule <= capsules
    BY CapsuleBounds DEF IInv, Types, Bound
  <2>2. UNCHANGED <<capsules, capsule, sessions, runs>> /\ handler' = "none"
        /\ process' = "between" /\ (ready' <=> FALSE)
    BY DEF kernel, bound
  <2> QED BY <2>1, <2>2 DEF Bound, Alive
<1>4. OneRun' /\ Fresh'
  BY SameStoreOneRun DEF bound, disk
<1>5. Due' /\ BriefOwed'
  BY <1>1 DEF Due, BriefOwed
<1> QED BY <1>2, <1>3, <1>4, <1>5 DEF IInv

LEMMA BoundaryReturnsInv == ASSUME IInv, BoundaryReturns PROVE IInv'
<1>1. due' = 0 /\ due' = due /\ handler = "phase" /\ handler' = "none"
  BY IdleNothingDue DEF BoundaryReturns
<1>2. Due' /\ BriefOwed'
  BY <1>1 DEF BoundaryReturns, IInv, Due, BriefOwed, briefs
<1>3. handler' \in Waiting /\ pendingCompaction' \in BOOLEAN /\ owed' \in BOOLEAN
  BY <1>1, SomeTypes DEF BoundaryReturns, Waiting, briefs
<1>4. UNCHANGED <<process, sessions, kernel, store, disk>>
  BY DEF BoundaryReturns
<1> QED BY <1>1, <1>2, <1>3, <1>4, QuietInv

LEMMA CompactReturnsInv == ASSUME IInv, CompactReturns PROVE IInv'
<1>1. process = "up" /\ due' = 0 /\ due' = due /\ handler = "compact" /\ handler' = "none"
      /\ pendingCompaction' = TRUE /\ owed' = owed /\ process' = process
  BY IdleNothingDue DEF CompactReturns, IInv, Bound
<1>2. Due' /\ BriefOwed'
  BY <1>1 DEF IInv, Due, BriefOwed
<1>3. handler' \in Waiting /\ pendingCompaction' \in BOOLEAN /\ owed' \in BOOLEAN
  BY <1>1, SomeTypes DEF Waiting
<1>4. UNCHANGED <<process, sessions, kernel, store, disk>>
  BY DEF CompactReturns
<1> QED BY <1>1, <1>2, <1>3, <1>4, QuietInv

LEMMA AgentSettledAgainInv == ASSUME IInv, AgentSettledAgain PROVE IInv'
<1>1. process = "up" /\ handler = "none" /\ due = 0
  BY NothingDue DEF AgentSettledAgain
<1>2. due' = due /\ handler' = "settle" /\ UNCHANGED <<process, owed, pendingCompaction>>
  BY DEF AgentSettledAgain, SettledBriefs
<1>3. Due' /\ BriefOwed'
  BY <1>1, <1>2 DEF IInv, Due, BriefOwed
<1>4. handler' \in Waiting /\ pendingCompaction' \in BOOLEAN /\ owed' \in BOOLEAN
  BY <1>2, SomeTypes DEF Waiting
<1>5. UNCHANGED <<process, sessions, kernel, store, disk>>
  BY DEF AgentSettledAgain
<1> QED BY <1>1, <1>2, <1>3, <1>4, <1>5, QuietInv

\* The request carries the brief, and with it a compaction's.
LEMMA InjectBriefInv == ASSUME IInv, InjectBrief PROVE IInv'
<1>1. process = "up" /\ handler = "none" /\ due = 0
  BY NothingDue DEF InjectBrief
<1>2. due' = due /\ handler' = handler /\ process' = process /\ pendingCompaction' = FALSE
      /\ owed' = (owed /\ ~pendingCompaction)
  BY DEF InjectBrief
<1>3. Due' /\ BriefOwed'
  BY <1>1, <1>2 DEF IInv, Due, BriefOwed
<1>4. handler' \in Waiting /\ pendingCompaction' \in BOOLEAN /\ owed' \in BOOLEAN
  BY <1>2, SomeTypes
<1>5. UNCHANGED <<process, sessions, kernel, store, disk>>
  BY DEF InjectBrief
<1> QED BY <1>1, <1>2, <1>3, <1>4, <1>5, QuietInv

\* The entry is of the run that the process is bound to.
LEMMA SettleReturnsInv == ASSUME IInv, NEW ok \in BOOLEAN, SettleReturns(ok) PROVE IInv'
<1>1. /\ process = "up" /\ due = 0 /\ capsuleRun = state.run /\ capsule >= 1 /\ capsule <= capsules
      /\ handler = "settle" /\ handler' = "none" /\ due' = due
      /\ UNCHANGED <<process, sessions, kernel, store, briefs, file, late>>
  BY IdleNothingDue DEF IInv, Bound, SettleReturns
<1>2. capsule \in Capsules
  BY <1>1, CapsuleBounds DEF IInv, Types, Bound, Capsules
<1>3. entry' = entry \/ entry' = [capsule |-> capsule, state |-> state]
  BY DEF SettleReturns
<1>4. [capsule |-> capsule, state |-> state] \in Entries
  BY DEF IInv, Types, Entries
<1>5. Types'
  BY <1>1, <1>3, <1>4 DEF IInv, Types, Waiting, kernel, store, bound, briefs
<1>6. Bound'
  BY <1>1 DEF IInv, Bound, kernel, store, bound
<1>7. OneRun'
  <2>1. ASSUME NEW c \in Capsules, NEW r \in Nat, OfRun(c, r) PROVE OfRun(c, r)'
    BY <1>1, <1>3, <2>1 DEF OfRun, store, bound
  <2> QED BY <2>1 DEF IInv, OneRun
<1>8. Fresh'
  BY <1>1, <1>2, <1>3 DEF IInv, Types, Fresh, Untouched, Capsules, store, bound
<1>9. Due' /\ BriefOwed'
  BY <1>1 DEF IInv, Due, BriefOwed, briefs
<1> QED BY <1>5, <1>6, <1>7, <1>8, <1>9 DEF IInv

LEMMA StartWriteInv == ASSUME IInv, NEW c \in Capsules, StartWrite(c) PROVE IInv'
<1> DEFINE q == [pending |-> None, scheduled |-> FALSE, writing |-> queue[c].pending]
<1>1. /\ queue[c].writing = None /\ queue' = [queue EXCEPT ![c] = q]
      /\ queue[c].scheduled = TRUE
      /\ UNCHANGED <<process, handler, sessions, kernel, bound, capsuleGeneration, ready, phaseDirty,
                     briefs, disk, due>>
  BY DEF StartWrite, IInv, Types, QueueType
<1>2. q \in QueueType /\ q.pending = None /\ q.writing = queue[c].pending
  BY DEF IInv, Types, QueueType
<1> HIDE DEF q
<1>3. queue' \in [Capsules -> QueueType] /\ queue'[c] = q /\ \A d \in Capsules \ {c} : queue'[d] = queue[d]
  BY <1>1, <1>2 DEF IInv, Types
<1>4. Types'
  BY <1>1, <1>3 DEF IInv, Types, kernel, bound, briefs, disk
<1>5. Bound'
  BY <1>1 DEF IInv, Bound, kernel, bound
<1>6. OneRun'
  <2>1. ASSUME NEW d \in Capsules, NEW r \in Nat, OfRun(d, r) PROVE OfRun(d, r)'
    BY <1>1, <1>2, <1>3, <2>1 DEF OfRun, bound, disk
  <2> QED BY <2>1 DEF IInv, OneRun
<1>7. Fresh'
  <2>1. ASSUME NEW d \in Capsules, d > capsules PROVE d # c /\ queue'[d] = queue[d]
    BY <1>1, <1>3, <2>1 DEF IInv, Fresh, Untouched, Idle
  <2> QED BY <1>1, <2>1 DEF IInv, Fresh, Untouched, bound, disk
<1>8. Due'
  <2>1. CASE due = 0
    BY <1>1, <2>1 DEF Due
  <2>2. CASE due # 0
    <3>1. capsule \in Capsules
      BY <2>2, CapsuleBounds DEF IInv, Types, Bound, Due, Capsules
    <3> QED BY <1>1, <1>2, <1>3, <2>2, <3>1 DEF IInv, Due, kernel, bound
  <2> QED BY <2>1, <2>2
<1>9. BriefOwed'
  BY <1>1 DEF IInv, BriefOwed, briefs
<1> QED BY <1>4, <1>5, <1>6, <1>7, <1>8, <1>9 DEF IInv

(* What was written is of the capsule's run.  When it is older than the     *)
(* change of phase that is due, that is what still waits.                    *)
LEMMA EndWriteInv == ASSUME IInv, NEW c \in Capsules, NEW ok \in BOOLEAN, EndWrite(c, ok) PROVE IInv'
<1> DEFINE s == queue[c].writing
           q == Written(queue[c])
<1>1. /\ s # None /\ queue' = [queue EXCEPT ![c] = q]
      /\ file' = IF ok THEN [file EXCEPT ![c] = s] ELSE file
      /\ due' = IF c = capsule /\ s.number >= due THEN 0 ELSE due
      /\ UNCHANGED <<process, handler, sessions, kernel, bound, capsuleGeneration, ready, phaseDirty,
                     briefs, entry, late>>
  BY DEF EndWrite
<1>2. s \in States /\ s.run \in Nat /\ s.number \in Nat
  BY <1>1 DEF IInv, Types, QueueType, States
<1>3. q \in QueueType /\ q.pending = queue[c].pending /\ q.writing = None
  BY DEF IInv, Types, QueueType, Written
<1> HIDE DEF q, s
<1>4. queue' \in [Capsules -> QueueType] /\ queue'[c] = q /\ \A d \in Capsules \ {c} : queue'[d] = queue[d]
  BY <1>1, <1>3 DEF IInv, Types
<1>5. file' \in [Capsules -> States \cup {None}] /\ file'[c] \in {s, file[c]}
      /\ \A d \in Capsules \ {c} : file'[d] = file[d]
  BY <1>1, <1>2 DEF IInv, Types
<1>6. Types'
  BY <1>1, <1>4, <1>5 DEF IInv, Types, kernel, bound, briefs
<1>7. Bound'
  BY <1>1 DEF IInv, Bound, kernel, bound
<1>8. OneRun'
  <2>1. ASSUME NEW d \in Capsules, NEW r \in Nat, OfRun(d, r) PROVE OfRun(d, r)'
    <3>1. d = c => s.run = r
      BY <1>1, <2>1 DEF OfRun, s
    <3> QED BY <1>1, <1>3, <1>4, <1>5, <2>1, <3>1 DEF OfRun, bound
  <2> QED BY <2>1 DEF IInv, OneRun
<1>9. Fresh'
  <2>1. ASSUME NEW d \in Capsules, d > capsules PROVE queue'[d] = queue[d] /\ file'[d] = file[d]
    <3>1. d # c
      BY <1>1, <2>1 DEF IInv, Fresh, Untouched, Idle, s
    <3> QED BY <1>4, <1>5, <3>1
  <2> QED BY <1>1, <2>1 DEF IInv, Fresh, Untouched, bound
<1>10. Due'
  <2>1. CASE due' = 0
    BY <2>1 DEF Due
  <2>2. CASE due' # 0
    <3>1. due # 0 /\ due' = due /\ ~(c = capsule /\ s.number >= due)
      BY <1>1, <2>2
    <3>2. capsule \in Capsules
      BY <3>1, CapsuleBounds DEF IInv, Types, Bound, Due, Capsules
    <3>3. handler = "phase" /\ due <= events
          /\ \/ queue[capsule].pending # None /\ queue[capsule].pending.number >= due
             \/ queue[capsule].writing # None /\ queue[capsule].writing.number >= due
      BY <3>1 DEF IInv, Due
    <3>4. CASE c = capsule
      BY <1>1, <1>3, <1>4, <3>1, <3>3, <3>4 DEF Due, kernel, bound, s
    <3>5. CASE c # capsule
      BY <1>1, <1>4, <3>1, <3>2, <3>3, <3>5 DEF Due, kernel, bound
    <3> QED BY <3>4, <3>5
  <2> QED BY <2>1, <2>2
<1>11. BriefOwed'
  BY <1>1 DEF IInv, BriefOwed, briefs
<1> QED BY <1>6, <1>7, <1>8, <1>9, <1>10, <1>11 DEF IInv

(* What a queue that was replaced writes is of the capsule's run too.        *)
LEMMA LateWriteInv == ASSUME IInv, NEW c \in Capsules, NEW ok \in BOOLEAN, LateWrite(c, ok) PROVE IInv'
<1>1. PICK s \in late[c] :
        /\ late' = [late EXCEPT ![c] = @ \ {s}]
        /\ file' = IF ok THEN [file EXCEPT ![c] = s] ELSE file
        /\ UNCHANGED <<process, handler, sessions, kernel, store, briefs, entry, due>>
  BY DEF LateWrite
<1>2. s \in States
  BY DEF IInv, Types
<1>3. /\ late' \in [Capsules -> SUBSET States]
      /\ \A d \in Capsules : late'[d] \subseteq late[d]
      /\ file' \in [Capsules -> States \cup {None}] /\ file'[c] \in {s, file[c]}
      /\ \A d \in Capsules \ {c} : file'[d] = file[d]
  BY <1>1, <1>2 DEF IInv, Types
<1>4. Types'
  BY <1>1, <1>3 DEF IInv, Types, kernel, store, bound, briefs
<1>5. Bound'
  BY <1>1 DEF IInv, Bound, kernel, store, bound
<1>6. OneRun'
  <2>1. ASSUME NEW d \in Capsules, NEW r \in Nat, OfRun(d, r) PROVE OfRun(d, r)'
    <3>1. d = c => s.run = r
      BY <1>1, <2>1 DEF OfRun
    <3> QED BY <1>1, <1>3, <2>1, <3>1 DEF OfRun, store, bound
  <2> QED BY <2>1 DEF IInv, OneRun
<1>7. Fresh'
  <2>1. ASSUME NEW d \in Capsules, d > capsules PROVE late'[d] = late[d] /\ file'[d] = file[d]
    <3>1. late[d] = {}
      BY <2>1 DEF IInv, Fresh, Untouched
    <3> QED BY <1>1, <1>3, <3>1
  <2> QED BY <1>1, <2>1 DEF IInv, Fresh, Untouched, store, bound
<1>8. Due' /\ BriefOwed'
  BY <1>1 DEF IInv, Due, BriefOwed, kernel, store, bound, briefs
<1> QED BY <1>4, <1>5, <1>6, <1>7, <1>8 DEF IInv

-----------------------------------------------------------------------------
LEMMA StepInv == IInv /\ [Next]_vars => IInv'
<1> SUFFICES ASSUME IInv, [Next]_vars PROVE IInv'
  OBVIOUS
<1>1. CASE UNCHANGED vars
  <2>1. Due' /\ BriefOwed' /\ UNCHANGED <<process, sessions, kernel, store, disk>> /\ due' = due
        /\ UNCHANGED <<handler, briefs>>
    BY <1>1 DEF vars, IInv, Due, BriefOwed, kernel, store, bound, briefs
  <2>2. handler' \in Waiting /\ (handler' # "none" => process = "up")
        /\ pendingCompaction' \in BOOLEAN /\ owed' \in BOOLEAN
    BY <2>1, SomeTypes DEF IInv, Bound, briefs
  <2> QED BY <2>1, <2>2, QuietInv
<1>2. CASE Next
  BY <1>2, SessionStartInv, CapsuleStartInv, SessionShutdownInv, ExitInv, BeforeAgentStartInv,
     AgentStartInv, BoundaryInv, SessionCompactInv, AgentSettledInv, SignalInv,
     AgentSettledAgainInv, AgentEndInv, InjectBriefInv, BoundaryReturnsInv, CompactReturnsInv,
     ShutdownReturnsInv, SettleReturnsInv, StartWriteInv, EndWriteInv, LateWriteInv
  DEF Next, Returns, Write, Late
<1> QED BY <1>1, <1>2

LEMMA Invariance == Spec => []IInv
<1>1. Init => IInv
  BY InitIInv
<1>2. IInv /\ [Next]_vars => IInv'
  BY StepInv
<1> QED BY <1>1, <1>2, PTL DEF Spec

-----------------------------------------------------------------------------
(* The model is owed the brief of a compaction until a request has carried  *)
(* it, however the session's handlers and signals come between.             *)
THEOREM BriefCorrect == Spec => []BriefOwed
<1>1. IInv => BriefOwed
  BY DEF IInv
<1> QED BY <1>1, Invariance, PTL

(* A boundary that moved the run to another phase returns only when a state *)
(* at least as new has been written, or its write has failed.               *)
THEOREM PhaseCorrect == Spec => []PhaseCheckpointed
<1>1. IInv => PhaseCheckpointed
  BY DEF IInv, Due, PhaseCheckpointed
<1> QED BY <1>1, Invariance, PTL

(* A capsule's file is about one run for ever: no late write, no resumption *)
(* and no new run puts another run's state in its place.                    *)
THEOREM OneRunCorrect == Spec => OneRunPerCapsule
<1> DEFINE Keeps == \A c \in Capsules : file[c] # None => file'[c].run = file[c].run
<1>1. ASSUME IInv, NEW w \in Capsules, NEW ok \in BOOLEAN, EndWrite(w, ok) PROVE Keeps
  <2>1. PICK r \in Nat : OfRun(w, r)
    BY <1>1 DEF IInv, OneRun
  <2>2. /\ file'[w] = queue[w].writing \/ file'[w] = file[w]
        /\ queue[w].writing # None /\ \A c \in Capsules \ {w} : file'[c] = file[c]
    BY <1>1 DEF EndWrite, IInv, Types
  <2>3. file[w] # None => file'[w].run = file[w].run
    BY <2>1, <2>2 DEF OfRun
  <2> QED BY <2>2, <2>3
<1>a. ASSUME IInv, NEW w \in Capsules, NEW ok \in BOOLEAN, LateWrite(w, ok) PROVE Keeps
  <2>1. PICK r \in Nat : OfRun(w, r)
    BY <1>a DEF IInv, OneRun
  <2>2. PICK s \in late[w] : file' = IF ok THEN [file EXCEPT ![w] = s] ELSE file
    BY <1>a DEF LateWrite
  <2>3. file'[w] \in {s, file[w]} /\ \A c \in Capsules \ {w} : file'[c] = file[c]
    BY <2>2 DEF IInv, Types
  <2>4. file[w] # None => file'[w].run = file[w].run
    BY <2>1, <2>2, <2>3 DEF OfRun
  <2> QED BY <2>3, <2>4
<1>2. ASSUME Next
      PROVE  file' = file \/ \E w \in Capsules, ok \in BOOLEAN : EndWrite(w, ok) \/ LateWrite(w, ok)
  <2>1. ASSUME NEW resume \in BOOLEAN, SessionStart(resume) PROVE file' = file
    BY <2>1 DEF SessionStart
  <2>2. (CapsuleStart \/ SessionShutdown \/ Exit) => file' = file
    BY DEF CapsuleStart, SessionShutdown, Exit, disk
  <2>3. ASSUME NEW b \in BOOLEAN, BeforeAgentStart(b) \/ AgentStart(b) \/ AgentEnd(b) PROVE file' = file
    BY <2>3 DEF BeforeAgentStart, AgentStart, AgentEnd, disk
  <2>4. ASSUME NEW b \in BOOLEAN, Boundary(b) \/ SessionCompact(b) \/ AgentSettled(b) PROVE file' = file
    BY <2>4 DEF Boundary, SessionCompact, AgentSettled, disk
  <2>5. ASSUME NEW b \in BOOLEAN, NEW d \in BOOLEAN, Signal(b, d) PROVE file' = file
    BY <2>5 DEF Signal, disk
  <2>6. (AgentSettledAgain \/ InjectBrief) => file' = file
    BY DEF AgentSettledAgain, InjectBrief, disk
  <2>7. Returns => file' = file
    BY DEF Returns, BoundaryReturns, CompactReturns, ShutdownReturns, SettleReturns, disk
  <2>8. ASSUME NEW w \in Capsules, StartWrite(w) PROVE file' = file
    BY <2>8 DEF StartWrite, disk
  <2> QED BY <1>2, <2>1, <2>2, <2>3, <2>4, <2>5, <2>6, <2>7, <2>8 DEF Next, Write, Late
<1>3. IInv /\ [Next]_vars => [Keeps]_vars
  <2>1. file' = file => Keeps
    OBVIOUS
  <2> QED BY <1>1, <1>2, <1>a, <2>1
<1> QED BY <1>3, Invariance, PTL DEF Spec, OneRunPerCapsule

-----------------------------------------------------------------------------
(* The queue never stands still with a state that nobody will write: a      *)
(* drain that is scheduled finds one, and one that waits has its drain      *)
(* scheduled or waits for the write under way, whose end schedules it.      *)
GoesOn(q) ==
  /\ q.scheduled => q.pending # None
  /\ q.pending # None => q.scheduled \/ q.writing # None

Drains == \A c \in Capsules : GoesOn(queue[c])

LEMMA RequestedGoesOn ==
  ASSUME NEW q \in QueueType, NEW s \in States
  PROVE  GoesOn(Requested(q, s))
  BY RecordsAreSomething DEF QueueType, Requested, GoesOn

LEMMA HearDrains ==
  ASSUME IInv, Drains, NEW s \in States, NEW moved, NEW flush, Hear(s, moved, flush)
  PROVE  Drains'
<1>1. queue \in [Capsules -> QueueType]
  BY DEF IInv, Types
<1>2. queue' = queue \/ queue' = [queue EXCEPT ![Target(s)] = Requested(@, s)]
  BY DEF Hear, store
<1>3. CASE queue' = queue
  BY <1>3 DEF Drains
<1>4. CASE queue' = [queue EXCEPT ![Target(s)] = Requested(@, s)]
  <2>1. ASSUME NEW c \in Capsules PROVE queue'[c] \in {queue[c], Requested(queue[c], s)}
    BY <1>1, <1>4
  <2>2. \A c \in Capsules : GoesOn(Requested(queue[c], s))
    BY <1>1, RequestedGoesOn
  <2> QED BY <2>1, <2>2 DEF Drains
<1> QED BY <1>2, <1>3, <1>4

LEMMA PublishDrains ==
  ASSUME IInv, Drains, NEW s \in States, NEW moved, NEW flush, Publish(s, moved, flush)
  PROVE  Drains'
<1> DEFINE t == [s EXCEPT !.number = Next1]
<1>1. t \in States
  BY NumberedType DEF IInv, Types, Next1
<1>2. Hear(t, moved, flush)
  BY DEF Publish
<1> HIDE DEF t
<1> QED BY <1>1, <1>2, HearDrains

LEMMA StartDrains == ASSUME IInv, Drains, CapsuleStart PROVE Drains'
<1>1. PICK mine : queue' = [queue EXCEPT ![mine] = Requested(Idle, state)]
  BY DEF CapsuleStart
<1>2. Idle \in QueueType /\ state \in States /\ queue \in [Capsules -> QueueType]
  BY DEF Idle, QueueType, IInv, Types
<1>3. GoesOn(Requested(Idle, state))
  BY <1>2, RequestedGoesOn
<1>4. \A c \in Capsules : queue'[c] \in {queue[c], Requested(Idle, state)}
  BY <1>1, <1>2
<1> QED BY <1>3, <1>4 DEF Drains

LEMMA WriteDrains == ASSUME IInv, Drains, NEW c \in Capsules, Write(c) PROVE Drains'
<1>1. queue \in [Capsules -> QueueType] /\ queue[c] \in QueueType
  BY DEF IInv, Types
<1>2. CASE StartWrite(c)
  <2> DEFINE q == [pending |-> None, scheduled |-> FALSE, writing |-> queue[c].pending]
  <2>1. GoesOn(q) /\ queue' = [queue EXCEPT ![c] = q]
    BY <1>2 DEF GoesOn, StartWrite
  <2> HIDE DEF q
  <2> QED BY <1>1, <2>1 DEF Drains
<1>3. ASSUME NEW ok \in BOOLEAN, EndWrite(c, ok) PROVE Drains'
  <2>1. GoesOn(Written(queue[c]))
    BY <1>1 DEF Drains, GoesOn, Written, QueueType
  <2>2. queue' = [queue EXCEPT ![c] = Written(queue[c])]
    BY <1>3 DEF EndWrite
  <2> QED BY <1>1, <2>1, <2>2 DEF Drains
<1> QED BY <1>2, <1>3 DEF Write

LEMMA AgentDrains ==
  ASSUME IInv, Drains, NEW b \in BOOLEAN,
         \/ BeforeAgentStart(b) \/ AgentStart(b) \/ AgentEnd(b)
         \/ Boundary(b) \/ SessionCompact(b) \/ AgentSettled(b)
  PROVE  Drains'
<1>1. state \in States /\ runs \in Nat /\ runs + 1 \in Nat /\ Next1 \in Nat /\ 0 \in Nat
  BY SomeTypes
<1>2. CASE BeforeAgentStart(b)
  <2> DEFINE s == [state EXCEPT !.run = runs + 1, !.starting = TRUE, !.changed = 0]
  <2>1. s \in States
    BY <1>1, NewRunType DEF OfAnotherRun
  <2> HIDE DEF s
  <2>2. PICK t \in {s, state} : Publish(t, FALSE, FALSE)
    BY <1>2 DEF BeforeAgentStart, s
  <2> QED BY <1>1, <2>1, <2>2, PublishDrains
<1>3. CASE AgentStart(b)
  <2> DEFINE r == IF b THEN runs + 1 ELSE state.run
             s == [state EXCEPT !.run = IF b THEN runs + 1 ELSE @, !.starting = FALSE, !.changed = Next1]
  <2>1. r \in Nat
    BY <1>1 DEF States
  <2>2. s = OfAnotherRun(state, r, FALSE, Next1)
    BY Zenon DEF OfAnotherRun
  <2> HIDE DEF r, s
  <2>3. s \in States
    BY <1>1, <2>1, <2>2, NewRunType
  <2>4. Publish(s, FALSE, FALSE)
    BY <1>3 DEF AgentStart, s
  <2> QED BY <2>3, <2>4, PublishDrains
<1>4. CASE AgentEnd(b) \/ AgentSettled(b)
  <2> DEFINE s == [state EXCEPT !.changed = Next1]
  <2>1. s \in States
    BY <1>1, ChangedType
  <2> HIDE DEF s
  <2>2. PICK moved \in BOOLEAN : Publish(s, moved, FALSE)
    BY <1>4 DEF AgentEnd, AgentSettled, s
  <2> QED BY <2>1, <2>2, PublishDrains
<1>5. CASE Boundary(b) \/ SessionCompact(b)
  BY <1>1, <1>5, PublishDrains DEF Boundary, SessionCompact
<1> QED BY <1>2, <1>3, <1>4, <1>5

LEMMA SessionDrains ==
  ASSUME IInv, Drains, NEW resume \in BOOLEAN, SessionStart(resume)
  PROVE  Drains'
<1> DEFINE from == Restored(resume)
           base == IF from = None THEN [state EXCEPT !.run = runs + 1] ELSE from.state
           s    == [base EXCEPT !.generation = @ + 1, !.starting = TRUE, !.changed = Next1]
<1>1. state \in States /\ Next1 \in Nat /\ runs + 1 \in Nat
  BY SomeTypes
<1>2. base \in States
  <2>1. CASE from = None
    BY <1>1, <2>1 DEF States
  <2>2. CASE from # None
    BY <2>2, RestoredType DEF Entries
  <2> QED BY <2>1, <2>2
<1> HIDE DEF base
<1>3. s \in States
  BY <1>1, <1>2, SessionType
<1>4. Publish(s, FALSE, FALSE)
  BY DEF SessionStart, base
<1> HIDE DEF s
<1> QED BY <1>3, <1>4, PublishDrains

LEMMA StepDrains == ASSUME IInv, Drains, [Next]_vars PROVE Drains'
<1>1. state \in States /\ Next1 \in Nat
  BY SomeTypes
<1>2. CASE UNCHANGED queue
  BY <1>2 DEF Drains
<1>3. CASE Exit
  <2>1. \A c \in Capsules : queue'[c] = Idle
    BY <1>3 DEF Exit
  <2> QED BY <2>1 DEF Drains, GoesOn, Idle
<1>4. CASE SessionShutdown
  <2> DEFINE s == [state EXCEPT !.starting = FALSE, !.changed = Next1]
  <2>1. s \in States
    BY <1>1, LifecycleType
  <2> HIDE DEF s
  <2>2. Publish(s, FALSE, FALSE)
    BY <1>4 DEF SessionShutdown, s
  <2> QED BY <2>1, <2>2, PublishDrains
<1>5. ASSUME NEW moved \in BOOLEAN, NEW reopened \in {FALSE, moved}, Signal(moved, reopened) PROVE Drains'
  <2> DEFINE s == [state EXCEPT !.changed = Next1]
  <2>1. s \in States
    BY <1>1, ChangedType
  <2> HIDE DEF s
  <2>2. PICK t \in {s, state} : Publish(t, moved, FALSE)
    BY <1>5 DEF Signal, s
  <2> QED BY <1>1, <2>1, <2>2, PublishDrains
<1>7. ASSUME NEW c \in Capsules, Late(c) PROVE UNCHANGED queue
  BY <1>7 DEF Late, LateWrite, store
<1>6. (AgentSettledAgain \/ InjectBrief \/ Returns \/ UNCHANGED vars) => UNCHANGED queue
  BY DEF AgentSettledAgain, InjectBrief, Returns, BoundaryReturns, CompactReturns, ShutdownReturns,
         SettleReturns, store, vars
<1> QED BY <1>2, <1>3, <1>4, <1>5, <1>6, <1>7, StartDrains, WriteDrains, AgentDrains, SessionDrains DEF Next

(* A handler that waits can return, or the queue it waits for has a write   *)
(* to begin or to end: what is left of HandlerReturns is fairness.          *)
THEOREM HandlerNeverStuck ==
  Spec => [](handler # "none" =>
               /\ capsule \in Capsules
               /\ \/ queue[capsule] = Idle
                  \/ queue[capsule].writing # None
                  \/ queue[capsule].scheduled /\ queue[capsule].pending # None)
<1>1. Init => Drains
  BY DEF Init, Drains, GoesOn, Idle
<1>2. IInv /\ Drains /\ [Next]_vars => Drains'
  BY StepDrains
<1>3. IInv /\ Drains /\ handler # "none" =>
        /\ capsule \in Capsules
        /\ \/ queue[capsule] = Idle
           \/ queue[capsule].writing # None
           \/ queue[capsule].scheduled /\ queue[capsule].pending # None
  <2> SUFFICES ASSUME IInv, Drains, handler # "none"
               PROVE  /\ capsule \in Capsules
                      /\ \/ queue[capsule] = Idle
                         \/ queue[capsule].writing # None
                         \/ queue[capsule].scheduled /\ queue[capsule].pending # None
    OBVIOUS
  <2>1. capsule \in Capsules
    BY CapsuleBounds DEF IInv, Types, Bound, Alive, Capsules
  <2>2. queue[capsule] \in QueueType /\ GoesOn(queue[capsule])
    BY <2>1 DEF IInv, Types, Drains
  <2> QED BY <2>1, <2>2 DEF QueueType, GoesOn, Idle
<1> QED BY <1>1, <1>2, <1>3, Invariance, PTL DEF Spec
=============================================================================
