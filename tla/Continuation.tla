---------------------------- MODULE Continuation ----------------------------
(***************************************************************************)
(* The continuation dispatcher (harness/extensions/control-arbiter.ts):    *)
(* producers offer to start another provider turn, and one flush at a time *)
(* picks an offer, asks its owner twice whether it still stands, and       *)
(* dispatches it.  Each authorize() awaits a file, and any handler may run *)
(* meanwhile: a new run, an abort, a change of the goal, a reload.         *)
(*                                                                         *)
(* An offer names its owner's revision; equal offers waiting at the same   *)
(* time are one, and idempotency keys, which name the revision too, are    *)
(* left out.  Expiry and the 20-minute window are choices: time passes.    *)
(***************************************************************************)
EXTENDS Naturals, FiniteSets

CONSTANTS
  Owners,         \* goals, plans: whoever may ask to go on
  Producers,      \* goal, compaction_resume, drift_review, ...
  Priority,       \* request.priority of each producer
  Sessions,       \* session ids
  Flushes,        \* calls of flushContinuations under way, at most
  NoOne,          \* no session, no flush
  MaxTurns,       \* continuationBudget().max
  MaxRevision,    \* bounds the changes of an owner
  MaxGeneration,  \* bounds the session events
  MaxTasks,       \* bounds the queued microtasks
  MaxPending      \* bounds the waiting offers

ASSUME ProducersRanked == Priority \in [Producers -> Nat]
ASSUME NoOneIsNoOne    == NoOne \notin Sessions \cup Flushes
ASSUME Limits == /\ MaxTurns \in Nat /\ MaxRevision \in Nat
                 /\ MaxGeneration \in Nat /\ MaxTasks \in Nat /\ MaxPending \in Nat

VARIABLES
  \* the owners' persisted revisions, and the receipts in the sessions' files
  revision, receipts,
  \* Pi: what it is doing, and whose message will start the next run
  run, starting,
  \* control-arbiter.ts
  session, live, generation, scheduled, microtasks, inFlight, pending, delivered,
  turnContinuations, harnessStartedRun, stoppedByAbort, compactionAbort, agentActive,
  actionable, awaited,
  \* Pi is compacting
  compacting,
  \* the calls of flushContinuations
  flush

owners    == <<revision, receipts>>
host      == <<run, starting>>
identity  == <<session, live, generation>>
turn      == <<turnContinuations, harnessStartedRun, stoppedByAbort, compactionAbort>>
offered   == <<scheduled, microtasks, pending>>
boundary  == <<actionable, awaited>>
flushing  == <<inFlight, flush>>
vars == <<owners, host, identity, turn, offered, boundary, compacting, flushing,
          delivered, agentActive>>

Revisions == 0..MaxRevision
Offers == [owner: Owners, rev: Revisions, from: Producers, session: Sessions]

(* continuationOwnerKey.                                                   *)
OwnerKey(e) == <<e.owner, e.rev>>

(* What a flush holds while it waits for the first answer, for the second   *)
(* one, or, both being positive, to act on them ("answered").               *)
NoFlush == [pc |-> "idle", gen |-> 0, cands |-> {}, offer |-> NoOne]

Init ==
  /\ revision = [o \in Owners |-> 0] /\ receipts = [s \in Sessions |-> {}]
  /\ run = "idle" /\ starting = "none"
  /\ session = NoOne /\ live = TRUE /\ generation = 0
  /\ scheduled = FALSE /\ microtasks = 0 /\ inFlight = FALSE
  /\ pending = {} /\ delivered = {} /\ turnContinuations = 0
  /\ harnessStartedRun = FALSE /\ stoppedByAbort = FALSE /\ compactionAbort = FALSE
  /\ agentActive = FALSE /\ compacting = FALSE
  /\ actionable = "closed" /\ awaited = NoOne
  /\ flush = [f \in Flushes |-> NoFlush]

-----------------------------------------------------------------------------
(* scheduleContinuationFlush, when the code calls it and `wanted` holds.   *)
Schedule(wanted) ==
  /\ scheduled' = (scheduled \/ wanted)
  /\ microtasks' = IF wanted /\ ~ scheduled THEN microtasks + 1 ELSE microtasks
  /\ microtasks' =< MaxTasks

(* A producer saw its owner's revision and asks.  The session it names may *)
(* be one that this process has left.                                      *)
Offer(o, from, s) ==
  /\ live /\ session # NoOne
  /\ s # session => generation > 1
  /\ pending' = pending \cup {[owner |-> o, rev |-> revision[o], from |-> from, session |-> s]}
  /\ Cardinality(pending') =< MaxPending
  /\ Schedule(TRUE)
  /\ UNCHANGED <<owners, host, identity, turn, boundary, compacting, flushing, delivered,
                 agentActive>>

(* The owner changes: progress, a pause, a cancellation, a child's commit. *)
Revise(o) ==
  /\ revision[o] < MaxRevision
  /\ revision' = [revision EXCEPT ![o] = @ + 1]
  /\ UNCHANGED <<receipts, host, identity, turn, offered, boundary, compacting, flushing,
                 delivered, agentActive>>

-----------------------------------------------------------------------------
(* Offers of highest priority; which of two equals came first is left open. *)
Best(es) == {e \in es : \A d \in es : Priority[d.from] =< Priority[e.from]}

(* The next candidate's owner is asked.                                    *)
Ask(f, gen, cands) ==
  \E e \in Best(cands) :
    flush' = [flush EXCEPT ![f] = [pc |-> "first", gen |-> gen, cands |-> cands \ {e},
                                   offer |-> e]]

Busy == inFlight

Eligible(e) == e.session = session /\ OwnerKey(e) \notin delivered

(* The turns of this request are spent.                                    *)
Exhausted == turnContinuations >= MaxTurns

(* flushContinuations up to its first await, with a run active or not.  It *)
(* leaves flush[f] idle when there is nothing to wait for.  A candidate    *)
(* that is missing has expired; none at all: the turn's window is over.    *)
Begin(f, active) ==
  /\ scheduled' = FALSE
  /\ IF Busy \/ ~ live \/ session = NoOne \/ active
       THEN UNCHANGED <<pending, flushing>>
       ELSE /\ pending' = {}
            /\ \E cands \in SUBSET {e \in pending : Eligible(e)} :
                 IF stoppedByAbort \/ Exhausted \/ cands = {}
                   THEN UNCHANGED flushing
                   ELSE Ask(f, generation, cands) /\ inFlight' = TRUE

FlushStart(f) ==
  /\ microtasks > 0 /\ flush[f] = NoFlush
  /\ microtasks' = microtasks - 1 /\ Begin(f, agentActive)
  /\ UNCHANGED <<owners, host, identity, turn, boundary, compacting, delivered, agentActive>>

(* The flush returns, which ends the wait of a boundary that called it.    *)
Return(f) ==
  /\ flush' = [flush EXCEPT ![f] = NoFlush]
  /\ awaited' = IF awaited = f THEN NoOne ELSE awaited

(* Mutant: a cancelled flush goes on as if it were not.                    *)
CurrentAlways(f) == TRUE

(* No session began or ended since the flush began.                        *)
Current(f) == flush[f].gen = generation

Cancelled(f) == ~ Current(f) /\ Return(f) /\ UNCHANGED <<offered, inFlight, actionable>>

(* Mutant: offers that came in during the flush wait for the next one.     *)
RetryNever == FALSE

Retry == live /\ ~ agentActive /\ pending # {}

(* The finally block of a current flush.                                   *)
Finish(f, dispatched) ==
  /\ Return(f) /\ inFlight' = FALSE
  /\ IF dispatched THEN pending' = {} /\ UNCHANGED <<scheduled, microtasks>>
                   ELSE UNCHANGED pending /\ Schedule(Retry)

(* On to the next candidate.                                               *)
Reject(f) ==
  /\ UNCHANGED actionable
  /\ IF flush[f].cands = {}
       THEN Finish(f, FALSE)
       ELSE Ask(f, flush[f].gen, flush[f].cands) /\ UNCHANGED <<offered, inFlight, awaited>>

(* authorize(): the owner's revision is still the offered one.  Reading it *)
(* may fail, and the offer may expire meanwhile.                           *)
Authorize(e) == {FALSE, revision[e.owner] = e.rev}

(* Mutant: the second answer is the first one.                             *)
AuthorizeOnce(f) == IF flush[f].pc = "first" THEN Authorize(flush[f].offer) ELSE {TRUE}

AuthorizeTwice(f) == Authorize(flush[f].offer)

(* An answer is read; a negative one, or a cancellation, is acted on.      *)
Answer(f, pc, next) ==
  /\ flush[f].pc = pc
  /\ \/ Cancelled(f)
     \/ Current(f) /\ FALSE \in AuthorizeTwice(f) /\ Reject(f)
     \/ /\ Current(f) /\ TRUE \in AuthorizeTwice(f)
        /\ flush' = [flush EXCEPT ![f].pc = next]
        /\ UNCHANGED <<offered, boundary, inFlight>>
  /\ UNCHANGED <<owners, host, identity, turn, compacting, delivered, agentActive>>

FirstAnswer(f)  == Answer(f, "first", "second")
SecondAnswer(f) == Answer(f, "second", "answered")

Rejected(f) == ~ live \/ agentActive \/ flush[f].offer.session # session

(* A message for Pi, idle or about to be, starts the next run; Pi queues   *)
(* it into a run that is under way or about to start.                      *)
SendFollowUp ==
  starting' = IF run \in {"begun", "active"} \/ starting # "none" THEN starting ELSE "harness"

(* Mutant: a run the harness starts counts as the user's.                  *)
MarkStartedNot == UNCHANGED harnessStartedRun

MarkStarted == harnessStartedRun' = TRUE

Dispatch(f) ==
  /\ delivered' = delivered \cup {OwnerKey(flush[f].offer)}
  /\ receipts' = [receipts EXCEPT ![session] = @ \cup {OwnerKey(flush[f].offer)}]
  /\ turnContinuations' = turnContinuations + 1
  /\ IF actionable = "closed"
       THEN MarkStarted /\ SendFollowUp /\ UNCHANGED actionable
       ELSE actionable' = "continue" /\ UNCHANGED <<harnessStartedRun, starting>>
  /\ Finish(f, TRUE)
  /\ UNCHANGED <<stoppedByAbort, compactionAbort, run>>

(* The flush acts on two positive answers after the second was read: a     *)
(* handler may run in between.                                             *)
Act(f) ==
  /\ flush[f].pc = "answered"
  /\ \/ /\ Cancelled(f) \/ (Current(f) /\ Rejected(f) /\ Reject(f))
        /\ UNCHANGED <<receipts, host, turn, delivered>>
     \/ Current(f) /\ ~ Rejected(f) /\ Dispatch(f)
  /\ UNCHANGED <<revision, identity, compacting, agentActive>>

-----------------------------------------------------------------------------
(* The handlers.                                                           *)

(* Mutant: a reload forgets what the session's file says was delivered.    *)
RestoredNot(s) == {}

(* deliveredOwnerGenerations of the session's entries.                     *)
Restored(s) == receipts[s]

(* session_start: a new session, another one, or the same one reloaded.    *)
SessionStart(s) ==
  /\ generation < MaxGeneration /\ run = "idle"
  /\ generation' = generation + 1 /\ session' = s /\ live' = TRUE
  /\ scheduled' = FALSE /\ inFlight' = FALSE /\ pending' = {}
  /\ delivered' = Restored(s)
  /\ turnContinuations' = 0 /\ harnessStartedRun' = FALSE
  /\ stoppedByAbort' = FALSE /\ compactionAbort' = FALSE
  /\ UNCHANGED <<owners, host, microtasks, boundary, compacting, flush, agentActive>>

SessionShutdown ==
  /\ generation < MaxGeneration /\ run = "idle" /\ session # NoOne /\ live
  /\ generation' = generation + 1 /\ live' = FALSE
  /\ scheduled' = FALSE /\ inFlight' = FALSE /\ pending' = {}
  /\ UNCHANGED <<owners, host, session, turn, microtasks, boundary, compacting, flush,
                 delivered, agentActive>>

(* Pi compacts, for the harness, for itself or for the user; it succeeds   *)
(* or fails.                                                               *)
SessionBeforeCompact ==
  /\ live /\ session # NoOne /\ ~ compacting /\ compacting' = TRUE
  /\ compactionAbort' = TRUE /\ stoppedByAbort' = FALSE
  /\ UNCHANGED <<owners, host, identity, turnContinuations, harnessStartedRun, offered,
                 boundary, flushing, delivered, agentActive>>

SessionCompact ==
  /\ compacting /\ compacting' = FALSE
  /\ \/ compactionAbort' = FALSE /\ stoppedByAbort' = FALSE
     \/ UNCHANGED <<compactionAbort, stoppedByAbort>>       \* it failed
  /\ UNCHANGED <<owners, host, identity, turnContinuations, harnessStartedRun, offered,
                 boundary, flushing, delivered, agentActive>>

UserMessage ==
  /\ live /\ session # NoOne /\ run = "idle" /\ starting = "none"
  /\ starting' = "user"
  /\ UNCHANGED <<owners, run, identity, turn, offered, boundary, compacting, flushing,
                 delivered, agentActive>>

BeforeAgentStart ==
  /\ live /\ run = "idle" /\ starting # "none"
  /\ run' = "begun" /\ starting' = "none"
  /\ harnessStartedRun' = FALSE
  /\ IF harnessStartedRun
       THEN UNCHANGED <<turnContinuations, stoppedByAbort, compactionAbort>>
       ELSE turnContinuations' = 0 /\ stoppedByAbort' = FALSE /\ compactionAbort' = FALSE
  /\ UNCHANGED <<owners, identity, offered, boundary, compacting, flushing, delivered,
                 agentActive>>

AgentStart ==
  /\ run = "begun" /\ run' = "active" /\ agentActive' = TRUE
  /\ UNCHANGED <<owners, starting, identity, turn, offered, boundary, compacting, flushing,
                 delivered>>

(* userAbort: the abort of a compaction that Pi has begun, or that the     *)
(* harness has asked for (currentCompactionOwner), is not the user's.      *)
UserAbort(outcome) == outcome = "aborted" /\ ~ compactionAbort

(* How a run may stop before it is complete.                               *)
Stops == {"error", "aborted", "aborted for compaction"}

(* agent_before_settle: a completed run flushes and waits for the flush;   *)
(* another one drops the offers.                                           *)
SettleCompleted(f) ==
  /\ run = "active" /\ run' = "settling" /\ flush[f] = NoFlush
  /\ agentActive' = FALSE /\ actionable' = "open"
  /\ Begin(f, FALSE)
  /\ awaited' = IF flush' = flush THEN NoOne ELSE f
  /\ UNCHANGED microtasks
  /\ UNCHANGED <<owners, starting, identity, turn, compacting, delivered>>

SettleStopped(outcome) ==
  /\ run = "active" /\ run' = "settled"
  /\ agentActive' = FALSE /\ pending' = {}
  /\ stoppedByAbort' = UserAbort(outcome)
  /\ UNCHANGED <<owners, starting, identity, turnContinuations, harnessStartedRun,
                 compactionAbort, scheduled, microtasks, boundary, compacting, flushing,
                 delivered>>

(* The boundary's handler is done.  A continuation is one more request in  *)
(* the same run, with or without another agent_start.                      *)
EndBoundary ==
  /\ run = "settling" /\ awaited = NoOne
  /\ run' \in IF actionable = "continue" THEN {"begun", "active"} ELSE {"settled"}
  /\ actionable' = "closed"
  /\ UNCHANGED <<owners, starting, identity, turn, offered, awaited, compacting, flushing,
                 delivered, agentActive>>

AgentSettled(outcome) ==
  /\ run = "settled" /\ run' = "idle" /\ agentActive' = FALSE
  /\ stoppedByAbort' = (stoppedByAbort \/ UserAbort(outcome))
  /\ IF stoppedByAbort'
       THEN pending' = {} /\ UNCHANGED <<scheduled, microtasks>>
       ELSE UNCHANGED pending /\ Schedule(pending # {})
  /\ UNCHANGED <<owners, starting, identity, turnContinuations, harnessStartedRun,
                 compactionAbort, boundary, compacting, flushing, delivered>>

Next ==
  \/ \E o \in Owners : Revise(o) \/ \E from \in Producers, s \in Sessions : Offer(o, from, s)
  \/ \E f \in Flushes : \/ FlushStart(f) \/ FirstAnswer(f) \/ SecondAnswer(f) \/ Act(f)
                        \/ SettleCompleted(f)
  \/ \E s \in Sessions : SessionStart(s)
  \/ SessionShutdown
  \/ SessionBeforeCompact \/ SessionCompact
  \/ UserMessage \/ BeforeAgentStart \/ AgentStart \/ EndBoundary
  \/ \E outcome \in Stops : SettleStopped(outcome) \/ AgentSettled(outcome)

Spec == Init /\ [][Next]_vars
=============================================================================
