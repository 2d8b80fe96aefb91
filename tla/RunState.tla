------------------------------ MODULE RunState ------------------------------
(***************************************************************************)
(* The run kernel's state and its reducer, RunStateStoreV1: what each      *)
(* event of a run does to the state.  Every operator takes the state s and *)
(* the event's sequence number n, and gives the next state.                *)
(*                                                                         *)
(* The kernel numbers its events.  A gate counts for the run's sources     *)
(* when the call that ran it started after the last source change ended,   *)
(* by these numbers (applyReceipt).                                        *)
(*                                                                         *)
(* Left out: hashes, labels, counters, the environment, the control        *)
(* decision and the copy of the older extensions' state, which nothing     *)
(* here reads.  Of the transition history only its length is kept.  Of the *)
(* numbers in a state those of the last change and of the largest one are  *)
(* kept: the other ones are only asked for their maximum.                  *)
(***************************************************************************)
EXTENDS Integers

CONSTANT MaxTransitions  \* entries the transition history keeps
ASSUME TransitionsAreKept == MaxTransitions \in Nat \ {0}

Unknown == -1  \* null: a count or a percentage nobody has reported

Phases     == {"intake", "local_recon", "planning", "execution", "verification",
               "recovery", "blocked", "complete"}
Lifecycles == {"starting", "active", "settling", "idle", "shutdown"}
Outcomes   == {"active", "complete", "blocked", "paused", "unverified"}

\* What is true of the sources of the run, told without sequence numbers.  A
\* change is "seen" when the kernel learns that the call making it succeeded, and
\* "unseen" when the call failed, its result is missing or the process ended with
\* it.  touched: such changes there have been; exposure: those the last gate does
\* not cover, having failed, or started before such a change had ended.
ChangeSorts == {"seen", "unseen"}

InitialState ==
  [run |-> 0, generation |-> 0, lifecycle |-> "starting",
   phase |-> "intake", transitions |-> 0, moved |-> FALSE,
   accepted |-> FALSE, open |-> Unknown, blocked |-> 0,
   mutationEnd |-> 0, validAfterMutation |-> FALSE, walls |-> 0,
   usage |-> Unknown, compactions |-> 0, status |-> "active", textOnly |-> FALSE,
   last |-> 0, touched |-> {}, exposure |-> {}]

Larger(a, b)  == IF a < b THEN b ELSE a
Smaller(a, b) == IF a < b THEN a ELSE b

\* moved: this event has made a transition.
ForceTransition(s, to) ==
  [s EXCEPT !.phase = to, !.moved = TRUE, !.transitions = Smaller(@ + 1, MaxTransitions)]

Transition(s, to) == IF s.phase = to THEN s ELSE ForceTransition(s, to)

\* The number above which the events of a restored run are numbered.
MaxRunStateSequence(s) == s.last

(* What validateRunStateSnapshot refuses of these fields: a state it refuses *)
(* is neither published nor written nor restored.                            *)
Valid(s) ==
  /\ s.phase \in Phases /\ s.lifecycle \in Lifecycles /\ s.status \in Outcomes
  /\ s.transitions \in 0..MaxTransitions
  /\ s.usage = Unknown \/ s.usage \in 0..100
  /\ s.open = Unknown \/ s.open >= 0
  /\ s.blocked >= 0 /\ s.walls >= 0

ResetRun(s, run) == [InitialState EXCEPT !.run = run, !.generation = s.generation]

\* A restored state keeps everything but the identity; a new one takes the
\* plan it finds active.
SessionStarted(s, restored, run, generation, plan, n) ==
  LET base == IF restored THEN s
              ELSE [InitialState EXCEPT !.accepted = plan.active, !.open = plan.open,
                                        !.blocked = plan.blocked]
      new  == [base EXCEPT !.run = run, !.generation = generation, !.last = n,
                           !.lifecycle = "starting"]
  IN  IF new.blocked > 0 THEN Transition(new, "blocked")
      ELSE IF new.accepted /\ new.open # 0 THEN Transition(new, "planning")
      ELSE new

\* newRun is 0 when the run goes on.
ObjectiveObserved(s, newRun, n) ==
  IF newRun # 0 THEN ResetRun(s, newRun) ELSE [s EXCEPT !.last = n]

CycleStarted(s, newRun, n) ==
  [ObjectiveObserved(s, newRun, n) EXCEPT
     !.last = n, !.lifecycle = "active", !.status = "active", !.textOnly = FALSE]

CycleEnded(s, textOnly, n) ==
  [s EXCEPT !.last = n, !.lifecycle = "settling", !.textOnly = textOnly]

\* What changes the sources, and what verifies them: a gate that fixes what it
\* checks does both.
EditKinds == {"edit", "fix"}
GateKinds == {"gate", "fix"}

ToolStarted(s, kind, n) ==
  LET at == [s EXCEPT !.last = n]
  IN  CASE kind \in GateKinds -> Transition(at, "verification")
        [] kind = "read" -> Transition(at, "local_recon")
        [] OTHER         -> at

Exposed(s, sort) == [s EXCEPT !.touched = @ \cup {sort}, !.exposure = @ \cup {sort}]

(* What a finished call changes (applyReceipt).  r.ok: its result arrived    *)
(* and was no failure; r.failed: it was a failure; r.wrote: it has changed   *)
(* the sources and is not ok; r.after: the sorts of change of which none has *)
(* ended since it started.                                                   *)
AfterMutation(s, r, n) ==
  IF r.kind \in EditKinds /\ r.ok
    THEN Transition([Exposed(s, "seen") EXCEPT !.mutationEnd = n,
                                               !.validAfterMutation = FALSE], "execution")
    ELSE IF r.wrote THEN Exposed(s, "unseen") ELSE s

AfterPlanTool(s, r) ==
  CASE r.kind = "plan_write" /\ r.ok -> Transition([s EXCEPT !.accepted = TRUE], "planning")
    [] r.kind = "plan_go" /\ r.ok    -> Transition(s, "execution")
    [] OTHER                         -> s

(* Mutant: a gate that ended after the last change counts, whenever it began. *)
CountsByEnd(s, r) == r.ok

Counts(s, r) == r.ok /\ (s.mutationEnd = 0 \/ r.started > s.mutationEnd)

Exposure(s, r) == s.touched \ (IF r.ok /\ r.kind \notin EditKinds THEN r.after ELSE {})

AfterGate(s, r) ==
  IF r.kind \in GateKinds
    THEN Transition([s EXCEPT !.validAfterMutation = Counts(s, r),
                              !.exposure = Exposure(s, r)], "verification")
    ELSE s

AfterFailure(s, r) == IF r.failed THEN Transition(s, "recovery") ELSE s

ToolFinished(s, r, n) ==
  LET changed == AfterMutation([s EXCEPT !.last = n], r, n)
      planned == AfterPlanTool(changed, r)
      gated   == AfterGate(planned, r)
  IN  AfterFailure(gated, r)

SessionCompacted(s, n) ==
  Transition([s EXCEPT !.last = n, !.compactions = @ + 1], "recovery")

LegacyObserved(s, plan, n) ==
  LET seen == [s EXCEPT !.last = n, !.open = plan.open, !.blocked = plan.blocked]
  IN  IF plan.blocked > 0 THEN Transition(seen, "blocked") ELSE seen

PlanObserved(s, open, n) == [s EXCEPT !.last = n, !.accepted = TRUE, !.open = open]

(* Mutant: the reading is kept as it comes. *)
ContextUnclamped(s, usage, n) == [s EXCEPT !.last = n, !.usage = usage]

ContextObserved(s, usage, n) ==
  [s EXCEPT !.last = n,
            !.usage = IF usage = Unknown THEN Unknown ELSE Larger(0, Smaller(100, usage))]

FailureStateObserved(s, walls, n) == [s EXCEPT !.last = n, !.walls = walls]

RecoveryResumed(s, n) ==
  ForceTransition([s EXCEPT !.last = n, !.walls = 0, !.status = "active"], "recovery")

SessionShutdown(s, n) == [s EXCEPT !.last = n, !.lifecycle = "shutdown"]

(* Mutant: a text-only answer completes the run before the gate is asked. *)
SettleTextFirst(s) ==
  IF s.textOnly THEN [Transition(s, "complete") EXCEPT !.status = "complete"]
  ELSE [s EXCEPT !.status = "paused"]

\* settle(): what the run comes to when its cycle is over.
Settle(s) ==
  CASE s.phase = "blocked" -> [s EXCEPT !.status = "blocked"]
    [] s.phase # "blocked" /\ s.walls > 0 ->
         [Transition(s, "recovery") EXCEPT !.status = "paused"]
    [] s.phase # "blocked" /\ s.walls = 0 /\ s.mutationEnd # 0 /\ ~s.validAfterMutation ->
         [s EXCEPT !.status = "unverified"]
    [] OTHER ->
         IF IF s.accepted THEN s.open = 0 ELSE s.textOnly
           THEN [Transition(s, "complete") EXCEPT !.status = "complete"]
           ELSE [s EXCEPT !.status = "paused"]

CycleSettled(s, n) ==
  Settle([s EXCEPT !.last = n, !.lifecycle = "idle"])
=============================================================================
