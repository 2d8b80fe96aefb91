------------------------------- MODULE PlanLock -------------------------------
(***************************************************************************)
(* The cross-process plan lock and the read-modify-write it guards         *)
(* (harness/lib/planning-runtime.ts: acquirePlanFileLock, stalePlanLock,   *)
(* releasePlanFileLock, mutatePlan).                                       *)
(*                                                                         *)
(* The lock is a file created with O_EXCL that names the process holding   *)
(* it.  A process that finds it names a dead process removes it and tries  *)
(* again; looking and removing are two file operations with other          *)
(* processes in between, and the second removes whatever file is there.    *)
(***************************************************************************)
EXTENDS Naturals, FiniteSets

CONSTANTS Procs,      \* the processes that share the plan file
          NoProc,     \* the owner of no lock
          MaxWrites,  \* bounds the revisions of the plan
          MaxCrashes  \* bounds the processes that die

ASSUME NoProcIsNone == NoProc \notin Procs
ASSUME PlanLockBounds == MaxWrites \in Nat /\ MaxCrashes \in Nat

VARIABLES
  lock,     \* the lock file: its owner, whether it names him yet, and whether
            \* it is older than PLAN_LOCK_STALE_MS
  pc,
  alive,
  file,     \* the revision of the plan file
  copy,     \* the revision a process read
  commits,  \* history: completed writes
  judged,   \* history: whose lock a process found stale
  usurped   \* history: a lock was removed in place of the one judged

theft    == <<judged, usurped>>
lockVars == <<lock, pc, alive, file, copy, commits, theft>>

NoLock == [owner |-> NoProc, written |-> FALSE, old |-> FALSE]

Steps == {"idle", "trying", "waiting", "stealing", "created", "reading",
          "writing", "releasing", "unlinking"}

LockTypeOK ==
  /\ lock \in {NoLock} \cup [owner: Procs, written: BOOLEAN, old: BOOLEAN]
  /\ pc \in [Procs -> Steps] /\ alive \subseteq Procs
  /\ file \in 0..MaxWrites /\ copy \in [Procs -> 0..MaxWrites]
  /\ commits \in 0..MaxWrites
  /\ judged \in [Procs -> Procs \cup {NoProc}] /\ usurped \in BOOLEAN

LockInit ==
  /\ lock = NoLock /\ pc = [p \in Procs |-> "idle"] /\ alive = Procs
  /\ file = 0 /\ copy = [p \in Procs |-> 0] /\ commits = 0
  /\ judged = [p \in Procs |-> NoProc] /\ usurped = FALSE

Goto(p, from, to) == p \in alive /\ pc[p] = from /\ pc' = [pc EXCEPT ![p] = to]

Request(p) ==
  /\ commits < MaxWrites
  /\ Goto(p, "idle", "trying")
  /\ UNCHANGED <<lock, alive, file, copy, commits, theft>>

-----------------------------------------------------------------------------
(* acquirePlanFileLock: open(lockPath, "wx"), then the owner is written.   *)
Create(p) ==
  /\ lock = NoLock
  /\ Goto(p, "trying", "created")
  /\ lock' = [owner |-> p, written |-> FALSE, old |-> FALSE]
  /\ UNCHANGED <<alive, file, copy, commits, theft>>

(* The write goes to the file that was opened, even if it was removed.     *)
WriteOwner(p) ==
  /\ Goto(p, "created", "reading")
  /\ lock' = IF lock.owner = p THEN [lock EXCEPT !.written = TRUE] ELSE lock
  /\ UNCHANGED <<alive, file, copy, commits, theft>>

(* A file that names nobody grows old; a live process writes it before.    *)
Age ==
  /\ lock # NoLock /\ lock.owner \notin alive /\ ~ lock.written
  /\ lock' = [lock EXCEPT !.old = TRUE]
  /\ UNCHANGED <<pc, alive, file, copy, commits, theft>>

(* Mutant: a lock that was not written yet is taken for a stale one.       *)
StaleWhenEmpty(l) == ~ l.written \/ l.owner \notin alive

(* Mutant: only a lock that names its owner is ever stale.                 *)
StaleWhenNamed(l) == l.written /\ l.owner \notin alive

(* stalePlanLock: the owner it names is dead; a file that names none is    *)
(* judged by its age.                                                      *)
Stale(l) == IF l.written THEN l.owner \notin alive ELSE l.old

LookForStale(p) ==
  /\ lock # NoLock /\ Stale(lock)
  /\ Goto(p, "trying", "stealing")
  /\ judged' = [judged EXCEPT ![p] = lock.owner]
  /\ UNCHANGED <<lock, alive, file, copy, commits, usurped>>

UnlinkStale(p) ==
  /\ Goto(p, "stealing", "waiting")
  /\ lock' = NoLock
  /\ judged' = [judged EXCEPT ![p] = NoProc]
  /\ usurped' = (usurped \/ lock.owner \notin {judged[p], NoProc})
  /\ UNCHANGED <<alive, file, copy, commits>>

Wait(p) ==
  /\ lock # NoLock /\ ~ Stale(lock)
  /\ Goto(p, "trying", "waiting")
  /\ UNCHANGED <<lock, alive, file, copy, commits, theft>>

(* The head of the loop: one more attempt before the deadline.             *)
Retry(p) ==
  /\ Goto(p, "waiting", "trying")
  /\ UNCHANGED <<lock, alive, file, copy, commits, theft>>

(* The deadline passes: the operation fails, the plan is unchanged.        *)
GiveUp(p) ==
  /\ Goto(p, "waiting", "idle")
  /\ UNCHANGED <<lock, alive, file, copy, commits, theft>>

-----------------------------------------------------------------------------
(* mutatePlan under the lock: readState, then atomicWriteFile.             *)
ReadState(p) ==
  /\ Goto(p, "reading", "writing")
  /\ copy' = [copy EXCEPT ![p] = file]
  /\ UNCHANGED <<lock, alive, file, commits, theft>>

WriteState(p) ==
  /\ commits < MaxWrites
  /\ Goto(p, "writing", "releasing")
  /\ file' = copy[p] + 1 /\ commits' = commits + 1
  /\ UNCHANGED <<lock, alive, copy, theft>>

(* The operation is rejected, or has nothing to write.                     *)
LeaveState(p) ==
  /\ Goto(p, "writing", "releasing")
  /\ UNCHANGED <<lock, alive, file, copy, commits, theft>>

Owns(p) == lock.owner = p

(* releasePlanFileLock reads the file and removes it if it is its own.     *)
ReadOwner(p) ==
  /\ Goto(p, "releasing", IF Owns(p) THEN "unlinking" ELSE "idle")
  /\ UNCHANGED <<lock, alive, file, copy, commits, theft>>

UnlinkOwn(p) ==
  /\ Goto(p, "unlinking", "idle")
  /\ lock' = NoLock
  /\ UNCHANGED <<alive, file, copy, commits, theft>>

Crash(p) ==
  /\ p \in alive /\ Cardinality(Procs \ alive) < MaxCrashes
  /\ alive' = alive \ {p}
  /\ UNCHANGED <<lock, pc, file, copy, commits, theft>>

Step(p) ==
  \/ Create(p) \/ WriteOwner(p) \/ LookForStale(p) \/ UnlinkStale(p)
  \/ Wait(p) \/ Retry(p)
  \/ ReadState(p) \/ WriteState(p) \/ LeaveState(p) \/ ReadOwner(p) \/ UnlinkOwn(p)

LockNext == Age \/ \E p \in Procs : Step(p) \/ Request(p) \/ GiveUp(p) \/ Crash(p)

(* A live process keeps running the operation it started, and time passes; *)
(* nothing makes a process ask, give up or die.                            *)
LockSpec ==
  /\ LockInit /\ [][LockNext]_lockVars
  /\ WF_lockVars(Age) /\ \A p \in Procs : WF_lockVars(Step(p))

-----------------------------------------------------------------------------
Holds(p) == p \in alive /\ pc[p] \in {"reading", "writing"}

(* "guarded by a cross-process plan lock" (README.md 323): no two live     *)
(* processes are between reading and writing the plan, unless somebody     *)
(* removed a lock that had taken the place of the stale one he judged, the *)
(* race docs/HARNESS_MODERNIZATION_2026-10.md 52-53 accepts.               *)
MutualExclusion == usurped \/ \A p, q \in Procs : Holds(p) /\ Holds(q) => p = q

(* Short of that race no update of the plan is lost: the file counts every *)
(* completed write (mutatePlan reads and writes the plan under the lock).  *)
NoLostUpdate == usurped \/ file = commits

(* "Malformed locks are only recoverable after the bounded age"            *)
(* (planning-runtime.ts 298), but they are: whoever dies with the lock,    *)
(* the processes that wait for it get it or give up.                       *)
DeadLockRecovered ==
  \A p \in Procs :
    lock.owner = p /\ p \notin alive
      ~> lock.owner # p \/ \A q \in alive : pc[q] = "idle"
=============================================================================
