----------------------------- MODULE RunCapsule -----------------------------
(***************************************************************************)
(* The run capsule of one process, over its crashes and restarts.  It      *)
(* hears every state the run kernel publishes (run-kernel-snapshot.ts),    *)
(* writes it to the private file of the run through a queue of its own,    *)
(* appends it to the session when the agent has settled, and tells the     *)
(* model once after a compaction where it stood (RUN_CAPSULE=recovery).    *)
(* A session that resumes goes on with the capsule it finds.               *)
(*                                                                         *)
(* Pi hands over one event after the other and waits for the handlers.     *)
(* The kernel's handler runs first; then the capsule's, whose wait for the *)
(* queue is handler.  Signals, which make the kernel publish a state too,  *)
(* and the queue's own steps come at any time.                             *)
(*                                                                         *)
(* Of a state only what the capsule looks at is kept: its run, generation, *)
(* whether it is a starting session's, its number, and that of the last    *)
(* change of its lifecycle or outcome, which tells its entries apart.       *)
(* Whether an event moves the run to another phase, and whether it starts  *)
(* another run, is left open (RunKernel says when it does).                *)
(***************************************************************************)
EXTENDS Integers, FiniteSets

CONSTANTS
  None,
  MaxEvents,       \* bounds the states published
  MaxSessions,     \* bounds the session starts
  MaxRuns,         \* bounds the run ids given out
  MaxCompactions   \* bounds the compactions

ASSUME CapsuleBounds == /\ MaxEvents \in Nat /\ MaxSessions \in Nat
                        /\ MaxRuns \in Nat /\ MaxCompactions \in Nat

States  == [run : Nat, generation : Nat, starting : BOOLEAN, number : Nat, changed : Nat]
Entries == [capsule : Nat, state : States]

ASSUME NoneIsNoState == None \notin States \cup Entries

VARIABLES
  \* Pi: down, between two sessions, starting or resuming one, up; where the
  \* agent is; the handler that waits; the compactions so far
  process, agent, handler, sessions, compactions,
  \* the kernel: what it last published, how often, and the runs it named
  state, events, runs,
  \* run-capsule.ts
  capsule, capsules, capsuleRun, capsuleGeneration, ready, phaseDirty, entered,
  pendingCompaction, pendingProvider, queue,
  \* each capsule's state file, the session's last entry, and the states that
  \* a queue which was replaced may yet write
  file, entry, late,
  \* the model has not been told of a compaction; the number of a boundary's
  \* change of phase that is not written
  owed, due

kernel  == <<state, events, runs>>
bound   == <<capsule, capsules, capsuleRun>>
store   == <<bound, capsuleGeneration, ready, phaseDirty, queue>>
briefs  == <<pendingCompaction, pendingProvider, owed>>
disk    == <<file, entry, late>>
vars == <<process, agent, handler, sessions, compactions, kernel, store, entered, briefs,
          disk, due>>

Capsules == 1..(MaxSessions + MaxRuns)

--------------------------------------------------------------------------
(* CapsuleCheckpointQueue, one for each capsule: the newest state that    *)
(* waits, whether a drain is scheduled, and the state being written.      *)

Idle == [pending |-> None, scheduled |-> FALSE, writing |-> None]

Requested(q, s) == [q EXCEPT !.pending = s, !.scheduled = TRUE]

Written(q) == [q EXCEPT !.writing = None, !.scheduled = @ \/ q.pending # None]

(* Mutant: a drain that runs still counts as scheduled. *)
StartWriteScheduled(c) ==
  /\ queue[c].scheduled /\ queue[c].writing = None
  /\ queue' = [queue EXCEPT ![c] = [pending |-> None, scheduled |-> TRUE,
                                    writing |-> queue[c].pending]]
  /\ UNCHANGED <<process, agent, handler, sessions, compactions, kernel, bound,
                 capsuleGeneration, ready, phaseDirty, entered, briefs, disk, due>>

StartWrite(c) ==
  /\ queue[c].scheduled /\ queue[c].writing = None
  /\ queue' = [queue EXCEPT ![c] = [pending |-> None, scheduled |-> FALSE,
                                    writing |-> queue[c].pending]]
  /\ UNCHANGED <<process, agent, handler, sessions, compactions, kernel, bound,
                 capsuleGeneration, ready, phaseDirty, entered, briefs, disk, due>>

\* A write may fail: nothing repeats it before the next state is requested.
EndWrite(c, ok) ==
  LET s == queue[c].writing
  IN  /\ s # None
      /\ queue' = [queue EXCEPT ![c] = Written(@)]
      /\ file' = IF ok THEN [file EXCEPT ![c] = s] ELSE file
      /\ due' = IF c = capsule /\ s.number >= due THEN 0 ELSE due
      /\ UNCHANGED <<process, agent, handler, sessions, compactions, kernel, bound,
                     capsuleGeneration, ready, phaseDirty, entered, briefs, entry, late>>

\* A queue that was replaced finishes a write, or fails to.
LateWrite(c, ok) ==
  \E s \in late[c] :
     /\ late' = [late EXCEPT ![c] = @ \ {s}]
     /\ file' = IF ok THEN [file EXCEPT ![c] = s] ELSE file
     /\ UNCHANGED <<process, agent, handler, sessions, compactions, kernel, store, entered,
                    briefs, entry, due>>

--------------------------------------------------------------------------
(* request(): the capsule hears of the state s.  moved: the event moved    *)
(* the run to another phase.  flush: flushPhase follows at once.           *)

Deaf(s) == s.generation # capsuleGeneration /\ s.starting

(* Mutant: a change of phase is not remembered. *)
DirtyBefore(moved) == phaseDirty

Dirty(moved) == phaseDirty \/ moved

(* Mutant: a new run goes on in the capsule of the former one. *)
SameCapsule(s) == capsule

Target(s) == IF s.run = capsuleRun THEN capsule ELSE capsules + 1

Hear(s, moved, flush) ==
  \/ /\ Deaf(s)
     /\ capsuleGeneration' = s.generation /\ ready' = FALSE
     /\ UNCHANGED <<bound, phaseDirty, queue>>
  \/ /\ ~Deaf(s) /\ ~ready
     /\ UNCHANGED store
  \/ /\ ~Deaf(s) /\ ready
     /\ capsule' = Target(s) /\ capsuleRun' = s.run
     /\ capsules' = IF Target(s) > capsules THEN Target(s) ELSE capsules
     /\ phaseDirty' = (Dirty(moved) /\ ~flush)
     /\ queue' = [queue EXCEPT ![Target(s)] = Requested(@, s)]
     /\ UNCHANGED <<capsuleGeneration, ready>>

Next1 == events + 1

\* The kernel publishes s, with the next number.
Publish(s, moved, flush) ==
  LET numbered == [s EXCEPT !.number = Next1]
  IN  /\ events < MaxEvents /\ events' = Next1
      /\ state' = numbered
      /\ Hear(numbered, moved, flush)

--------------------------------------------------------------------------
(* Sessions.                                                              *)

NoState == [run |-> 0, generation |-> 0, starting |-> TRUE, number |-> 0, changed |-> 0]

Kept == {[capsule |-> c, state |-> file[c]] : c \in {d \in Capsules : file[d] # None}}

\* The session's last entry, or else the only capsule there is.
Restored(resume) ==
  IF ~resume THEN None
  ELSE IF entry # None THEN entry
  ELSE IF Cardinality(Kept) = 1 THEN CHOOSE kept \in Kept : TRUE
  ELSE None

(* The kernel's session_start: a restored session keeps its run, another   *)
(* one gets a new one.  A new session has no entries.                       *)
SessionStart(resume) ==
  LET from == Restored(resume)
      base == IF from = None THEN [state EXCEPT !.run = runs + 1] ELSE from.state
  IN  /\ process \in {"down", "between"} /\ sessions < MaxSessions
      /\ from = None => runs < MaxRuns
      /\ runs' = IF from = None THEN runs + 1 ELSE runs
      /\ Publish([base EXCEPT !.generation = @ + 1, !.starting = TRUE, !.changed = Next1],
              FALSE, FALSE)
      /\ process' = IF resume THEN "resuming" ELSE "starting"
      /\ sessions' = sessions + 1 /\ agent' = "idle"
      /\ entry' = IF resume THEN entry ELSE None
      /\ UNCHANGED <<handler, compactions, entered, briefs, file, late, due>>

Continues(from) == from # None /\ from.state.run = state.run

(* The capsule's session_start follows the kernel's.  The new queue of a   *)
(* capsule it goes on with does not wait for the one it had before.        *)
CapsuleStart ==
  LET from == Restored(process = "resuming")
      mine == IF Continues(from) THEN from.capsule ELSE capsules + 1
  IN  /\ process \in {"starting", "resuming"}
      /\ process' = "up" /\ ready' = TRUE
      /\ capsule' = mine /\ capsuleRun' = state.run
      /\ capsules' = IF mine > capsules THEN mine ELSE capsules
      /\ queue' = [queue EXCEPT ![mine] = Requested(Idle, state)]
      /\ phaseDirty' = FALSE /\ entered' = None
      /\ pendingCompaction' = FALSE /\ pendingProvider' = FALSE /\ owed' = FALSE
      /\ late' = [late EXCEPT ![mine] =
                    @ \cup ({queue[mine].pending, queue[mine].writing} \ {None})]
      /\ UNCHANGED <<agent, handler, sessions, compactions, kernel, capsuleGeneration, file,
                     entry, due>>

Between == process = "up" /\ handler = "none"

SessionShutdown ==
  /\ Between
  /\ Publish([state EXCEPT !.starting = FALSE, !.changed = Next1], FALSE, FALSE)
  /\ handler' = "shutdown"
  /\ UNCHANGED <<process, agent, sessions, compactions, runs, entered, briefs, disk, due>>

ShutdownReturns ==
  /\ handler = "shutdown" /\ queue[capsule] = Idle
  /\ handler' = "none" /\ ready' = FALSE /\ process' = "between"
  /\ UNCHANGED <<agent, sessions, compactions, kernel, bound, capsuleGeneration, phaseDirty,
                 queue, entered, briefs, disk, due>>

\* The process ends, at any moment: what is on the disk stays.
Exit ==
  /\ process # "down"
  /\ process' = "down" /\ agent' = "idle" /\ handler' = "none" /\ state' = NoState
  /\ capsule' = 0 /\ capsuleRun' = 0 /\ capsuleGeneration' = 0 /\ ready' = FALSE
  /\ phaseDirty' = FALSE /\ queue' = [c \in Capsules |-> Idle] /\ entered' = None
  /\ pendingCompaction' = FALSE /\ pendingProvider' = FALSE /\ owed' = FALSE /\ due' = 0
  /\ late' = [c \in Capsules |-> {}]
  /\ UNCHANGED <<sessions, compactions, events, runs, capsules, file, entry>>

--------------------------------------------------------------------------
(* The agent's events.                                                    *)

\* A prompt: after a complete or abandoned run it starts another one, whose
\* state is a starting one again.
BeforeAgentStart(newRun) ==
  /\ Between /\ agent = "idle"
  /\ newRun => runs < MaxRuns
  /\ runs' = IF newRun THEN runs + 1 ELSE runs
  /\ Publish(IF newRun THEN [state EXCEPT !.run = runs + 1, !.starting = TRUE, !.changed = 0]
             ELSE state, FALSE, FALSE)
  /\ UNCHANGED <<process, agent, handler, sessions, compactions, entered, briefs, disk, due>>

\* A cycle; after a complete run, without a prompt, it is one of another run.
AgentStart(newRun) ==
  /\ Between /\ agent # "active"
  /\ newRun => runs < MaxRuns
  /\ runs' = IF newRun THEN runs + 1 ELSE runs
  /\ Publish([state EXCEPT !.run = IF newRun THEN runs + 1 ELSE @, !.starting = FALSE,
                           !.changed = Next1], FALSE, FALSE)
  /\ agent' = "active"
  /\ UNCHANGED <<process, handler, sessions, compactions, entered, briefs, disk, due>>

\* A tool's start, its end, or the end of a turn.
Boundary(moved) ==
  /\ Between /\ agent = "active"
  /\ Publish(state, moved, TRUE)
  /\ handler' = IF Dirty(moved) THEN "phase" ELSE "none"
  /\ due' = IF moved THEN Next1 ELSE due
  /\ UNCHANGED <<process, agent, sessions, compactions, runs, entered, briefs, disk>>

AgentEnd(providerFailed) ==
  /\ Between /\ agent = "active"
  /\ Publish([state EXCEPT !.changed = Next1], FALSE, FALSE)
  /\ agent' = "settling" /\ pendingProvider' = providerFailed
  /\ UNCHANGED <<process, handler, sessions, compactions, runs, entered, pendingCompaction,
                 owed, disk, due>>

SessionCompact(moved) ==
  /\ Between /\ agent # "active" /\ compactions < MaxCompactions
  /\ compactions' = compactions + 1
  /\ Publish(state, moved, TRUE)
  /\ owed' = TRUE
  /\ handler' = IF Dirty(moved) THEN "compact" ELSE "none"
  /\ pendingCompaction' = (pendingCompaction \/ ~Dirty(moved))
  /\ UNCHANGED <<process, agent, sessions, runs, entered, pendingProvider, disk, due>>

(* Mutant: settling consumes the brief of a compaction too. *)
SettledBriefsAll == pendingCompaction' = FALSE /\ pendingProvider' = FALSE

SettledBriefs == pendingProvider' = FALSE /\ UNCHANGED pendingCompaction

AgentSettled(moved) ==
  /\ Between /\ agent = "settling"
  /\ Publish([state EXCEPT !.changed = Next1], moved, FALSE)
  /\ SettledBriefs
  /\ agent' = "idle" /\ handler' = "settle"
  /\ UNCHANGED <<process, sessions, compactions, runs, entered, owed, disk, due>>

\* A second agent_settled of a cycle publishes nothing.
AgentSettledAgain ==
  /\ Between /\ agent = "idle" /\ ~state.starting
  /\ SettledBriefs
  /\ handler' = "settle"
  /\ UNCHANGED <<process, agent, sessions, compactions, kernel, store, entered, owed, disk, due>>

EntryKey == <<state.generation, state.changed>>

\* The settled state becomes an entry of the session, once; the append may
\* fail.
SettleReturns(ok) ==
  /\ handler = "settle" /\ queue[capsule] = Idle
  /\ handler' = "none"
  /\ IF ok /\ entered # EntryKey
       THEN entry' = [capsule |-> capsule, state |-> state] /\ entered' = EntryKey
       ELSE UNCHANGED <<entry, entered>>
  /\ UNCHANGED <<process, agent, sessions, compactions, kernel, store, briefs, file, late, due>>

BoundaryReturns ==
  /\ handler = "phase" /\ queue[capsule] = Idle
  /\ handler' = "none"
  /\ UNCHANGED <<process, agent, sessions, compactions, kernel, store, entered, briefs, disk,
                 due>>

CompactReturns ==
  /\ handler = "compact" /\ queue[capsule] = Idle
  /\ handler' = "none" /\ pendingCompaction' = TRUE
  /\ UNCHANGED <<process, agent, sessions, compactions, kernel, store, entered,
                 pendingProvider, owed, disk, due>>

\* The next request carries the brief.  When it cannot be assembled nothing
\* changes, and the one after it tries again.
InjectBrief ==
  /\ Between /\ agent = "active" /\ (pendingCompaction \/ pendingProvider)
  /\ pendingCompaction' = FALSE /\ pendingProvider' = FALSE
  /\ owed' = (owed /\ ~pendingCompaction)
  /\ UNCHANGED <<process, agent, handler, sessions, compactions, kernel, store, entered, disk,
                 due>>

\* A signal of an older extension makes the kernel publish at any moment.
\* reopened: /run-resume makes a settled run active again.
Signal(moved, reopened) ==
  /\ process \in {"starting", "resuming", "up"}
  /\ Publish(IF reopened THEN [state EXCEPT !.changed = Next1] ELSE state, moved, FALSE)
  /\ UNCHANGED <<process, agent, handler, sessions, compactions, runs, entered, briefs, disk,
                 due>>

--------------------------------------------------------------------------
Init ==
  /\ process = "down" /\ agent = "idle" /\ handler = "none"
  /\ sessions = 0 /\ compactions = 0
  /\ state = NoState /\ events = 0 /\ runs = 0
  /\ capsule = 0 /\ capsules = 0 /\ capsuleRun = 0 /\ capsuleGeneration = 0
  /\ ready = FALSE /\ phaseDirty = FALSE /\ entered = None
  /\ pendingCompaction = FALSE /\ pendingProvider = FALSE
  /\ queue = [c \in Capsules |-> Idle]
  /\ file = [c \in Capsules |-> None] /\ entry = None /\ late = [c \in Capsules |-> {}]
  /\ owed = FALSE /\ due = 0

Returns == BoundaryReturns \/ CompactReturns \/ ShutdownReturns
           \/ \E ok \in BOOLEAN : SettleReturns(ok)

Write(c) == StartWrite(c) \/ \E ok \in BOOLEAN : EndWrite(c, ok)

Late(c) == \E ok \in BOOLEAN : LateWrite(c, ok)

Next ==
  \/ \E resume \in BOOLEAN : SessionStart(resume)
  \/ CapsuleStart \/ SessionShutdown \/ Exit
  \/ \E newRun \in BOOLEAN : BeforeAgentStart(newRun) \/ AgentStart(newRun)
  \/ \E moved \in BOOLEAN : Boundary(moved) \/ SessionCompact(moved) \/ AgentSettled(moved)
  \/ \E moved \in BOOLEAN : \E reopened \in {FALSE, moved} : Signal(moved, reopened)
  \/ AgentSettledAgain
  \/ \E providerFailed \in BOOLEAN : AgentEnd(providerFailed)
  \/ InjectBrief \/ Returns
  \/ \E c \in Capsules : Write(c) \/ Late(c)

\* The queue's drains, and the handlers that wait for them, are promises of
\* one process: they go on unless it ends.
Fairness == WF_vars(Returns) /\ \A c \in Capsules : WF_vars(Write(c))

Spec == Init /\ [][Next]_vars /\ Fairness

--------------------------------------------------------------------------
(* A capsule's file is about one run for ever: no write that was late, no  *)
(* resumption and no new run puts another run's state in its place.        *)
OneRunPerCapsule ==
  [][\A c \in Capsules : file[c] # None => file'[c].run = file[c].run]_vars

(* The model is told once of every compaction of the session: the capsule  *)
(* owes the brief until a request has carried it, through settlements, new *)
(* runs and provider retries (run-capsule.ts:225-231).                     *)
BriefOwed ==
  process = "up" => (owed <=> pendingCompaction \/ handler = "compact")

(* A change of phase is on disk, or its write has failed, before the tool's *)
(* or the turn's boundary that made it returns (run-capsule.ts:198-199).    *)
PhaseCheckpointed == handler = "none" => due = 0

(* No event of Pi waits for ever on the queue. *)
HandlerReturns == handler # "none" ~> handler = "none"
=============================================================================
