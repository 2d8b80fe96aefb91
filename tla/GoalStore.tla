------------------------------ MODULE GoalStore ------------------------------
(***************************************************************************)
(* How processes share the goal ledger (withGoalTransaction of             *)
(* harness/lib/goal-state.ts): under a lock directory that is never stolen *)
(* (withPrivateStateLock of harness/lib/private-state-lock.ts) a process   *)
(* loads the file, applies its reducer and renames a new file over it.     *)
(* Each file operation is a step, and a process may die before any.  A     *)
(* dead process's lock stays until somebody stops all sessions and removes *)
(* it.  The calls of one process queue (withFileMutationQueue): a process  *)
(* stands for the one whose turn it is.                                    *)
(***************************************************************************)
EXTENDS GoalLedger

CONSTANTS Procs, MaxCrashes

ASSUME CrashLimit == MaxCrashes \in Nat
ASSUME NoneIsNoProc == None \notin Procs

VARIABLES
  file,    \* the ledger's file
  lock,    \* who made the lock directory, and whether owner.json is in it
  pc, copy, alive,
  crashes  \* bounds the crashes

vars == <<file, lock, pc, copy, alive, crashes>>

NoLock == [owner |-> None, named |-> FALSE]

(* Where a process is: between a step and the next one.                    *)
Steps == {"idle", "waiting", "made", "failed", "named", "loaded", "done", "leaving",
          "unnamed"}

TypeOK ==
  /\ file \in Ledgers
  /\ lock \in {NoLock} \cup [owner: Procs, named: BOOLEAN]
  /\ pc \in [Procs -> Steps]
  /\ copy \in [Procs -> Ledgers]
  /\ alive \in [Procs -> BOOLEAN]
  /\ crashes \in 0..MaxCrashes

Init ==
  /\ file = EmptyLedger /\ lock = NoLock
  /\ pc = [p \in Procs |-> "idle"] /\ copy = [p \in Procs |-> EmptyLedger]
  /\ alive = [p \in Procs |-> TRUE] /\ crashes = 0

Goto(p, from, to) ==
  /\ alive[p] /\ pc[p] = from
  /\ pc' = [pc EXCEPT ![p] = to]
  /\ UNCHANGED <<alive, crashes>>

Request(p) == Goto(p, "idle", "waiting") /\ UNCHANGED <<file, lock, copy>>

(* Mutant: a lock whose owner.json is missing is taken for abandoned.      *)
FreeWhenUnnamed == ~ lock.named

Free == lock.owner = None

(* mkdir fails when there is a directory.                                  *)
Mkdir(p) ==
  /\ Goto(p, "waiting", "made") /\ Free
  /\ lock' = [owner |-> p, named |-> FALSE]
  /\ UNCHANGED <<file, copy>>

(* The deadline passed.                                                    *)
GiveUp(p) == Goto(p, "waiting", "idle") /\ ~ Free /\ UNCHANGED <<file, lock, copy>>

WriteOwner(p) ==
  /\ Goto(p, "made", "named") /\ lock' = [lock EXCEPT !.named = TRUE]
  /\ UNCHANGED <<file, copy>>

(* writeFile fails: the directory, still empty, is removed again.          *)
OwnerFails(p) == Goto(p, "made", "failed") /\ UNCHANGED <<file, lock, copy>>

RmdirFailed(p) ==
  /\ Goto(p, "failed", "idle")
  /\ lock' = IF lock.named THEN lock ELSE NoLock
  /\ UNCHANGED <<file, copy>>

LoadGoalLedger(p) ==
  /\ Goto(p, "named", "loaded") /\ copy' = [copy EXCEPT ![p] = file]
  /\ UNCHANGED <<file, lock>>

Done(p) == Goto(p, "loaded", "done") /\ copy' = [copy EXCEPT ![p] = EmptyLedger]

Write(p) == Done(p) /\ Mutation(copy[p], file') /\ UNCHANGED lock

(* The reducer refuses, the ledger would pass GOAL_LEDGER_MAX_BYTES, or    *)
(* the write fails before its rename.                                      *)
Refuse(p) == Done(p) /\ UNCHANGED <<file, lock>>

(* The lock is removed only if owner.json has the caller's nonce.          *)
ReadOwner(p) ==
  /\ \/ Goto(p, "done", "leaving") /\ lock.named /\ lock.owner = p
     \/ Goto(p, "done", "idle") /\ ~ (lock.named /\ lock.owner = p)
  /\ UNCHANGED <<file, lock, copy>>

UnlinkOwner(p) ==
  /\ Goto(p, "leaving", "unnamed") /\ lock' = [lock EXCEPT !.named = FALSE]
  /\ UNCHANGED <<file, copy>>

Rmdir(p) ==
  /\ Goto(p, "unnamed", "idle")
  /\ lock' = IF lock.named THEN lock ELSE NoLock
  /\ UNCHANGED <<file, copy>>

(* Cleaning up fails, which is not reported: the lock stays.               *)
CleanupFails(p) ==
  /\ \E from \in {"failed", "done", "leaving", "unnamed"} : Goto(p, from, "idle")
  /\ UNCHANGED <<file, lock, copy>>

-----------------------------------------------------------------------------
Crash(p) ==
  /\ alive[p] /\ crashes < MaxCrashes
  /\ alive' = [alive EXCEPT ![p] = FALSE] /\ crashes' = crashes + 1
  /\ pc' = [pc EXCEPT ![p] = "idle"] /\ copy' = [copy EXCEPT ![p] = EmptyLedger]
  /\ UNCHANGED <<file, lock>>

Restart(p) ==
  /\ ~ alive[p] /\ alive' = [alive EXCEPT ![p] = TRUE]
  /\ UNCHANGED <<file, lock, pc, copy, crashes>>

(* "stop all sessions using this scope".                                   *)
Stopped == \A p \in Procs : pc[p] = "idle"

(* "inspect and remove only this lock": the user does, when a lock was left.*)
RemoveLock ==
  /\ Stopped /\ lock.owner # None /\ lock' = NoLock
  /\ UNCHANGED <<file, pc, copy, alive, crashes>>

Next ==
  \/ \E p \in Procs :
       \/ Request(p) \/ Mkdir(p) \/ GiveUp(p) \/ WriteOwner(p) \/ OwnerFails(p)
       \/ RmdirFailed(p) \/ LoadGoalLedger(p) \/ Write(p) \/ Refuse(p) \/ ReadOwner(p)
       \/ UnlinkOwner(p) \/ Rmdir(p) \/ CleanupFails(p) \/ Crash(p) \/ Restart(p)
  \/ RemoveLock

Spec == Init /\ [][Next]_vars

-----------------------------------------------------------------------------
(* The ledger's own invariants hold of the file (see GoalLedger).          *)
LedgerValid      == LedgerIsValid(file)
SettlementEarned == SettlementIsEarned(file)
SettledFrozen    == [][SettledStays(file, file')]_vars

(* "Goal writes serialize across processes" (README.md 171): to everybody  *)
(* who reads the file it is one ledger, changed by one tool or command at  *)
(* a time, although reading and writing are two steps and any process may  *)
(* die in between.                                                         *)
Lifecycle == INSTANCE GoalLifecycle WITH ledger <- file
Serialized == Lifecycle!Spec
=============================================================================
