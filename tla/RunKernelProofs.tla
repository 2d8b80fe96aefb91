-------------------------- MODULE RunKernelProofs --------------------------
(***************************************************************************)
(* What holds of the run kernel for any number of overlapping calls,       *)
(* sessions, runs, plans and readings: the sequence numbers tell whether a *)
(* gate covers the changes of the run, also after a resumption from any    *)
(* snapshot that was kept; no run completes over a change the kernel saw   *)
(* and no gate covers;                                                     *)
(* and every state is one its validator accepts.                           *)
(***************************************************************************)
EXTENDS RunKernel, TLAPS

Shape(s) ==
  s = [run |-> s.run, generation |-> s.generation, lifecycle |-> s.lifecycle, phase |-> s.phase,
       transitions |-> s.transitions, moved |-> s.moved, accepted |-> s.accepted, open |-> s.open,
       blocked |-> s.blocked, mutationEnd |-> s.mutationEnd,
       validAfterMutation |-> s.validAfterMutation, walls |-> s.walls, usage |-> s.usage,
       compactions |-> s.compactions, status |-> s.status, textOnly |-> s.textOnly,
       last |-> s.last, touched |-> s.touched, exposure |-> s.exposure]

StateType(s) ==
  /\ Shape(s)
  /\ s.run \in Nat /\ s.generation \in Nat /\ s.lifecycle \in Lifecycles /\ s.phase \in Phases
  /\ s.transitions \in 0..MaxTransitions /\ s.moved \in BOOLEAN
  /\ s.accepted \in BOOLEAN /\ s.open \in Nat \cup {Unknown} /\ s.blocked \in Nat
  /\ s.mutationEnd \in Nat /\ s.validAfterMutation \in BOOLEAN /\ s.walls \in Nat
  /\ s.usage \in (0..100) \cup {Unknown} /\ s.compactions \in Nat /\ s.status \in Outcomes
  /\ s.textOnly \in BOOLEAN /\ s.last \in Nat
  /\ s.exposure \subseteq s.touched /\ s.touched \subseteq ChangeSorts

\* t says of the sources what s says.
Same(s, t) ==
  /\ t.mutationEnd = s.mutationEnd /\ t.validAfterMutation = s.validAfterMutation
  /\ t.touched = s.touched /\ t.exposure = s.exposure

\* An event numbered n that says nothing of the sources.
Keeps(s, t, n) == StateType(t) /\ Same(s, t) /\ t.last = n

CallType(k) ==
  k = [stage |-> k.stage, kind |-> k.kind, started |-> k.started, after |-> k.after]
  /\ k.stage \in {"none", "started", "result", "done"} /\ k.started \in Nat
  /\ k.after \subseteq ChangeSorts

-----------------------------------------------------------------------------
(* The inductive invariant.  A snapshot says of the sources what is true of *)
(* them and is not older than their last change; a call in flight remembers *)
(* correctly whether a change has ended since it started, and there is none *)
(* outside a cycle, where the run may become another one.                   *)

Sound(s) == StateType(s) /\ ~s.moved /\ Tells(s) /\ s.mutationEnd <= s.last

Remembers(k) == k.started <= sequence /\ ("seen" \in k.after <=> k.started > state.mutationEnd)

CallInv ==
  /\ calls = [c \in Calls |-> calls[c]] /\ \A c \in Calls : CallType(calls[c])
  /\ \A c \in InFlight : Remembers(calls[c])
  /\ InFlight # {} => state.lifecycle = "active"

PiInv ==
  /\ process \in {"down", "between", "up"} /\ sessions \in Nat /\ signals \in Nat
  /\ runs \in 0..MaxRuns /\ abandonRequested \in BOOLEAN /\ unsettled \in BOOLEAN

IInv ==
  /\ PiInv
  /\ sequence \in Nat /\ Sound(state) /\ state.last <= sequence
  /\ kept = None \/ Sound(kept)
  /\ CallInv

-----------------------------------------------------------------------------
(* The reducer.                                                            *)
LEMMA InitialStateSound == Sound(InitialState) /\ InitialState.last = 0
  BY TransitionsAreKept
  DEF Sound, StateType, Shape, Tells, InitialState, Lifecycles, Phases, Outcomes, Unknown

LEMMA ForceTransitionKeeps ==
  ASSUME NEW s, StateType(s), NEW to \in Phases
  PROVE  LET t == ForceTransition(s, to) IN
         /\ Keeps(s, t, s.last) /\ t.lifecycle = s.lifecycle /\ t.status = s.status
         /\ t.walls = s.walls
<1> DEFINE t == ForceTransition(s, to)
<1>1. t = [s EXCEPT !.phase = to, !.moved = TRUE, !.transitions = Smaller(@ + 1, MaxTransitions)]
  BY DEF ForceTransition
<1>2. Smaller(s.transitions + 1, MaxTransitions) \in 0..MaxTransitions
  BY TransitionsAreKept DEF StateType, Smaller
<1> HIDE DEF t
<1>3. StateType(t)
  BY <1>1, <1>2 DEF StateType, Shape
<1>4. Same(s, t) /\ t.last = s.last /\ t.lifecycle = s.lifecycle /\ t.status = s.status /\ t.walls = s.walls
  BY <1>1 DEF StateType, Shape, Same
<1> QED BY <1>3, <1>4 DEF Keeps, t

LEMMA TransitionKeeps ==
  ASSUME NEW s, StateType(s), NEW to \in Phases
  PROVE  LET t == Transition(s, to) IN
         /\ Keeps(s, t, s.last) /\ t.lifecycle = s.lifecycle /\ t.status = s.status
         /\ t.walls = s.walls
  BY ForceTransitionKeeps DEF Transition, Keeps, Same

LEMMA PlanType ==
  ASSUME NEW plan \in Plans
  PROVE  plan.active \in BOOLEAN /\ plan.blocked \in Nat /\ plan.open \in Nat \cup {Unknown}
  BY KernelBounds

LEMMA SessionStartedKeeps ==
  ASSUME NEW s, StateType(s), NEW restored \in BOOLEAN, NEW run \in Nat, NEW generation \in Nat,
         NEW plan \in Plans, NEW n \in Nat
  PROVE  LET t == SessionStarted(s, restored, run, generation, plan, n) IN
         /\ t.lifecycle = "starting"
         /\ Keeps(IF restored THEN s ELSE InitialState, t, n)
<1> DEFINE base == IF restored THEN s
                   ELSE [InitialState EXCEPT !.accepted = plan.active, !.open = plan.open,
                                             !.blocked = plan.blocked]
           new == [base EXCEPT !.run = run, !.generation = generation, !.last = n,
                               !.lifecycle = "starting"]
           t == SessionStarted(s, restored, run, generation, plan, n)
<1>1. StateType(base) /\ Same(IF restored THEN s ELSE InitialState, base)
  <2>1. CASE restored
    BY <2>1 DEF Same
  <2>2. CASE ~restored
    <3>1. StateType(InitialState)
      BY InitialStateSound DEF Sound
    <3>2. base = [InitialState EXCEPT !.accepted = plan.active, !.open = plan.open,
                                      !.blocked = plan.blocked]
      BY <2>2
    <3> HIDE DEF base
    <3>3. StateType(base)
      BY <3>1, <3>2, PlanType DEF StateType, Shape
    <3>4. Same(InitialState, base)
      BY <3>1, <3>2 DEF StateType, Shape, Same
    <3> QED BY <2>2, <3>3, <3>4
  <2> QED BY <2>1, <2>2
<1> HIDE DEF base
<1> HIDE DEF new
<1>a. new = [base EXCEPT !.run = run, !.generation = generation, !.last = n, !.lifecycle = "starting"]
  BY DEF new
<1>b. StateType(new)
  BY <1>1, <1>a DEF StateType, Shape, Lifecycles
<1>c. Same(base, new) /\ new.last = n /\ new.lifecycle = "starting"
  BY <1>1, <1>a DEF StateType, Shape, Same
<1>2. StateType(new) /\ Same(base, new) /\ new.last = n /\ new.lifecycle = "starting"
  BY <1>b, <1>c
<1>3. t = IF new.blocked > 0 THEN Transition(new, "blocked")
          ELSE IF new.accepted /\ new.open # 0 THEN Transition(new, "planning") ELSE new
  BY DEF SessionStarted, base, new
<1>4. "blocked" \in Phases /\ "planning" \in Phases
  BY DEF Phases
<1>5. Keeps(new, t, n) /\ t.lifecycle = "starting"
  BY <1>2, <1>3, <1>4, TransitionKeeps DEF Keeps, Same
<1> QED BY <1>1, <1>2, <1>5 DEF Keeps, Same

LEMMA ObjectiveObservedSound ==
  ASSUME NEW s, Sound(s), NEW newRun \in Nat, NEW n \in Nat, s.last <= n
  PROVE  LET t == ObjectiveObserved(s, newRun, n) IN
         /\ Sound(t) /\ t.last <= n /\ t.status \in {s.status, "active"}
         /\ (newRun = 0 => t.lifecycle = s.lifecycle)
<1> DEFINE t == ObjectiveObserved(s, newRun, n)
<1>1. CASE newRun # 0
  <2>1. t = [InitialState EXCEPT !.run = newRun, !.generation = s.generation]
    BY <1>1 DEF ObjectiveObserved, ResetRun
  <2> HIDE DEF t
  <2>2. Sound(t) /\ t.last = 0
    BY <2>1, InitialStateSound DEF Sound, StateType, Shape, Tells
  <2>3. t.status = "active"
    BY <2>1 DEF InitialState
  <2> QED BY <1>1, <2>2, <2>3 DEF t
<1>2. CASE newRun = 0
  <2>1. t = [s EXCEPT !.last = n]
    BY <1>2 DEF ObjectiveObserved
  <2> HIDE DEF t
  <2>2. StateType(t)
    BY <2>1 DEF Sound, StateType, Shape
  <2>3. t.mutationEnd = s.mutationEnd /\ t.validAfterMutation = s.validAfterMutation
        /\ Same(s, t) /\ t.last = n /\ ~t.moved /\ t.lifecycle = s.lifecycle
        /\ t.status = s.status
    BY <2>1 DEF Sound, StateType, Shape, Same
  <2> QED BY <2>2, <2>3 DEF t, Sound, Tells, StateType, Same
<1> QED BY <1>1, <1>2

LEMMA CycleStartedSound ==
  ASSUME NEW s, Sound(s), NEW newRun \in Nat, NEW n \in Nat, s.last <= n
  PROVE  LET t == CycleStarted(s, newRun, n) IN
         Sound(t) /\ t.last = n /\ t.status = "active"
<1> DEFINE o == ObjectiveObserved(s, newRun, n)
           t == CycleStarted(s, newRun, n)
<1>1. Sound(o) /\ o.last <= n
  BY ObjectiveObservedSound
<1>2. t = [o EXCEPT !.last = n, !.lifecycle = "active", !.status = "active", !.textOnly = FALSE]
  BY DEF CycleStarted
<1> HIDE DEF o, t
<1>3. StateType(t)
  BY <1>1, <1>2 DEF Sound, StateType, Shape, Lifecycles, Outcomes
<1>4. Same(o, t) /\ t.last = n /\ ~t.moved /\ t.status = "active"
  BY <1>1, <1>2 DEF Sound, StateType, Shape, Same
<1> QED BY <1>1, <1>3, <1>4 DEF t, Sound, Same, Tells, StateType

LEMMA CycleEndedKeeps ==
  ASSUME NEW s, StateType(s), ~s.moved, NEW textOnly \in BOOLEAN, NEW n \in Nat
  PROVE  LET t == CycleEnded(s, textOnly, n) IN
         Keeps(s, t, n) /\ ~t.moved /\ t.status = s.status
<1> DEFINE t == CycleEnded(s, textOnly, n)
<1>1. t = [s EXCEPT !.last = n, !.lifecycle = "settling", !.textOnly = textOnly]
  BY DEF CycleEnded
<1> HIDE DEF t
<1>2. StateType(t)
  BY <1>1 DEF StateType, Shape, Lifecycles
<1>3. Same(s, t) /\ t.last = n /\ ~t.moved /\ t.status = s.status
  BY <1>1 DEF StateType, Shape, Same
<1> QED BY <1>2, <1>3 DEF t, Keeps

LEMMA ToolStartedKeeps ==
  ASSUME NEW s, StateType(s), NEW kind, NEW n \in Nat
  PROVE  LET t == ToolStarted(s, kind, n) IN
         Keeps(s, t, n) /\ t.lifecycle = s.lifecycle /\ t.status = s.status
<1> DEFINE at == [s EXCEPT !.last = n]
           t == ToolStarted(s, kind, n)
<1>1. Keeps(s, at, n) /\ at.lifecycle = s.lifecycle /\ at.status = s.status
  BY DEF Keeps, Same, StateType, Shape
<1> HIDE DEF at
<1>2. t \in {Transition(at, "verification"), Transition(at, "local_recon"), at}
  BY DEF ToolStarted, at
<1>3. "verification" \in Phases /\ "local_recon" \in Phases
  BY DEF Phases
<1> HIDE DEF t
<1>4. Keeps(at, t, n) /\ t.lifecycle = at.lifecycle /\ t.status = at.status
  BY <1>1, <1>2, <1>3, TransitionKeeps DEF Keeps, Same
<1> QED BY <1>1, <1>4 DEF t, Keeps, Same

(* A change the kernel does not see leaves its numbers as they are.        *)
LEMMA ExposedTells ==
  ASSUME NEW s, StateType(s), Tells(s), NEW sort \in ChangeSorts
  PROVE  LET t == Exposed(s, sort) IN
         /\ StateType(t) /\ sort \in t.touched /\ sort \in t.exposure
         /\ sort = "unseen" => Tells(t)
         /\ t.last = s.last /\ t.lifecycle = s.lifecycle /\ t.status = s.status
         /\ t.mutationEnd = s.mutationEnd /\ t.moved = s.moved
<1> DEFINE t == Exposed(s, sort)
<1>1. t = [s EXCEPT !.touched = @ \cup {sort}, !.exposure = @ \cup {sort}]
  BY DEF Exposed
<1> HIDE DEF t
<1>2. /\ t.touched = s.touched \cup {sort} /\ t.exposure = s.exposure \cup {sort}
      /\ t.last = s.last /\ t.lifecycle = s.lifecycle /\ t.status = s.status
      /\ t.mutationEnd = s.mutationEnd /\ t.moved = s.moved
      /\ t.validAfterMutation = s.validAfterMutation
  BY <1>1 DEF StateType, Shape
<1>3. StateType(t)
  <2>1. t.exposure \subseteq t.touched /\ t.touched \subseteq ChangeSorts
    BY <1>2 DEF StateType
  <2> QED BY <1>1, <1>2, <2>1 DEF StateType, Shape
<1>4. sort = "unseen" => Tells(t)
  BY <1>2 DEF Tells
<1> QED BY <1>2, <1>3, <1>4 DEF t

LEMMA AfterMutationSound ==
  ASSUME NEW s, Sound(s), NEW r, r.ok \in BOOLEAN, NEW n \in Nat, s.last < n
  PROVE  LET t == AfterMutation([s EXCEPT !.last = n], r, n) IN
         /\ StateType(t) /\ Tells(t) /\ t.last = n /\ t.lifecycle = s.lifecycle
         /\ t.status = s.status
         /\ IF r.kind \in EditKinds /\ r.ok THEN t.mutationEnd = n
                                           ELSE t.mutationEnd = s.mutationEnd
<1> DEFINE at == [s EXCEPT !.last = n]
           exposed == Exposed(at, "seen")
           changed == [exposed EXCEPT !.mutationEnd = n, !.validAfterMutation = FALSE]
           t == AfterMutation(at, r, n)
<1>1. StateType(at) /\ Same(s, at) /\ at.last = n /\ at.lifecycle = s.lifecycle
      /\ at.status = s.status
  BY DEF Sound, StateType, Shape, Same
<1> HIDE DEF at
<1>t. Tells(at)
  BY <1>1 DEF Sound, Same, Tells
<1>e. /\ StateType(exposed) /\ "seen" \in exposed.touched /\ "seen" \in exposed.exposure
      /\ exposed.last = n /\ exposed.lifecycle = s.lifecycle /\ exposed.status = s.status
  <2>1. "seen" \in ChangeSorts
    BY DEF ChangeSorts
  <2> QED BY <1>1, <1>t, <2>1, ExposedTells
<1> HIDE DEF exposed
<1> HIDE DEF changed
<1>a. changed = [exposed EXCEPT !.mutationEnd = n, !.validAfterMutation = FALSE]
  BY DEF changed
<1>b. StateType(changed)
  BY <1>e, <1>a DEF StateType, Shape
<1>2. /\ changed.mutationEnd = n /\ ~changed.validAfterMutation
      /\ "seen" \in changed.touched /\ "seen" \in changed.exposure
      /\ changed.last = n /\ changed.lifecycle = s.lifecycle /\ changed.status = s.status
  BY <1>e, <1>a DEF StateType, Shape
<1>3. CASE r.kind \in EditKinds /\ r.ok
  <2>1. t = Transition(changed, "execution")
    BY <1>3 DEF AfterMutation, changed, exposed
  <2>2. Keeps(changed, t, n) /\ t.lifecycle = s.lifecycle /\ t.status = s.status
    BY <1>b, <1>2, <2>1, TransitionKeeps DEF Phases, Keeps, Same
  <2>3. n # 0
    BY DEF Sound, StateType
  <2> QED BY <1>2, <1>3, <2>2, <2>3 DEF at, Keeps, Same, Tells
<1>4. CASE ~(r.kind \in EditKinds /\ r.ok)
  <2>1. t \in {at, Exposed(at, "unseen")}
    BY <1>4 DEF AfterMutation
  <2>2. CASE t = at
    BY <1>1, <1>4, <1>t, <2>2 DEF at, Same
  <2>3. CASE t = Exposed(at, "unseen")
    <3>1. "unseen" \in ChangeSorts
      BY DEF ChangeSorts
    <3>2. /\ StateType(t) /\ Tells(t) /\ t.last = at.last /\ t.lifecycle = at.lifecycle
          /\ t.status = at.status /\ t.mutationEnd = at.mutationEnd
      BY <1>1, <1>t, <2>3, <3>1, ExposedTells
    <3> QED BY <1>1, <1>4, <3>2 DEF at, Same
  <2> QED BY <2>1, <2>2, <2>3
<1> QED BY <1>3, <1>4

LEMMA AfterPlanToolKeeps ==
  ASSUME NEW s, StateType(s), NEW r
  PROVE  LET t == AfterPlanTool(s, r) IN
         Keeps(s, t, s.last) /\ t.lifecycle = s.lifecycle /\ t.status = s.status
<1> DEFINE accepted == [s EXCEPT !.accepted = TRUE]
           t == AfterPlanTool(s, r)
<1> HIDE DEF accepted
<1>a. accepted = [s EXCEPT !.accepted = TRUE]
  BY DEF accepted
<1>b. StateType(accepted)
  BY <1>a DEF StateType, Shape
<1>1. Keeps(s, accepted, s.last) /\ accepted.lifecycle = s.lifecycle /\ accepted.status = s.status
  BY <1>a, <1>b DEF Keeps, Same, StateType, Shape
<1>p. "planning" \in Phases /\ "execution" \in Phases
  BY DEF Phases
<1>2. t \in {Transition(accepted, "planning"), Transition(s, "execution"), s}
  BY DEF AfterPlanTool, accepted
<1> HIDE DEF t
<1>3. CASE t = Transition(accepted, "planning")
  BY <1>1, <1>3, <1>p, <1>b, TransitionKeeps DEF Keeps, Same, t
<1>4. CASE t = Transition(s, "execution")
  BY <1>4, <1>p, TransitionKeeps DEF t
<1>5. CASE t = s
  BY <1>5 DEF Keeps, Same, t
<1> QED BY <1>2, <1>3, <1>4, <1>5 DEF t

(* A receipt of a gate says the truth when it remembers whether a change   *)
(* has ended since its call started (RunState.AfterGate).                  *)
LEMMA AfterGateTells ==
  ASSUME NEW s, StateType(s), Tells(s), NEW r, r.ok \in BOOLEAN, r.started \in Nat,
         r.kind \in EditKinds /\ r.ok => s.mutationEnd >= r.started /\ s.mutationEnd # 0,
         ~(r.kind \in EditKinds /\ r.ok) => ("seen" \in r.after <=> r.started > s.mutationEnd)
  PROVE  LET t == AfterGate(s, r) IN
         /\ StateType(t) /\ Tells(t) /\ t.last = s.last /\ t.lifecycle = s.lifecycle
         /\ t.status = s.status /\ t.mutationEnd = s.mutationEnd
<1> DEFINE gated == [s EXCEPT !.validAfterMutation = Counts(s, r), !.exposure = Exposure(s, r)]
           t == AfterGate(s, r)
<1>0. Counts(s, r) \in BOOLEAN
  BY DEF Counts
<1>1. StateType(gated) /\ gated.mutationEnd = s.mutationEnd /\ gated.last = s.last
      /\ gated.lifecycle = s.lifecycle /\ gated.status = s.status
      /\ gated.validAfterMutation = Counts(s, r) /\ gated.exposure = Exposure(s, r)
      /\ gated.touched = s.touched
  <2> HIDE DEF gated
  <2>1. gated = [s EXCEPT !.validAfterMutation = Counts(s, r), !.exposure = Exposure(s, r)]
    BY DEF gated
  <2>2. Exposure(s, r) \subseteq s.touched
    BY DEF Exposure
  <2>3. StateType(gated)
    BY <1>0, <2>1, <2>2 DEF StateType, Shape
  <2> QED BY <2>1, <2>3 DEF StateType, Shape
<1> HIDE DEF gated
<1>p. "verification" \in Phases
  BY DEF Phases
<1>2. Tells(gated)
  <2>1. gated.mutationEnd = 0 <=> "seen" \notin gated.touched
    BY <1>1 DEF Tells
  <2>2. ASSUME s.mutationEnd # 0
        PROVE  Counts(s, r) <=> "seen" \notin Exposure(s, r)
    BY <2>2 DEF Counts, Exposure, Tells, StateType
  <2> QED BY <1>1, <2>1, <2>2 DEF Tells
<1>3. t = IF r.kind \in GateKinds THEN Transition(gated, "verification") ELSE s
  BY DEF AfterGate, gated
<1> HIDE DEF t
<1>4. CASE r.kind \in GateKinds
  BY <1>1, <1>2, <1>3, <1>4, <1>p, TransitionKeeps DEF Keeps, Same, Tells, t
<1>5. CASE r.kind \notin GateKinds
  BY <1>3, <1>5 DEF t
<1> QED BY <1>4, <1>5 DEF t

LEMMA AfterFailureKeeps ==
  ASSUME NEW s, StateType(s), NEW r
  PROVE  LET t == AfterFailure(s, r) IN
         Keeps(s, t, s.last) /\ t.lifecycle = s.lifecycle /\ t.status = s.status
  BY TransitionKeeps DEF AfterFailure, Keeps, Same, Phases

(* A tool call's end tells the truth of the sources when its receipt does.  *)
LEMMA ToolFinishedSound ==
  ASSUME NEW s, Sound(s), NEW n \in Nat, s.last < n,
         NEW r, r.ok \in BOOLEAN, r.started \in Nat, r.started <= n,
         "seen" \in r.after <=> r.started > s.mutationEnd
  PROVE  LET t == ToolFinished(s, r, n) IN
         /\ StateType(t) /\ Tells(t) /\ t.last = n /\ t.lifecycle = s.lifecycle
         /\ t.status = s.status
         /\ t.mutationEnd = IF Changes(r) THEN n ELSE s.mutationEnd
<1> DEFINE changed == AfterMutation([s EXCEPT !.last = n], r, n)
           planned == AfterPlanTool(changed, r)
           gated   == AfterGate(planned, r)
           t       == AfterFailure(gated, r)
<1>0. ToolFinished(s, r, n) = t
  BY DEF ToolFinished
<1>1. /\ StateType(changed) /\ Tells(changed) /\ changed.last = n
      /\ changed.lifecycle = s.lifecycle /\ changed.status = s.status
      /\ changed.mutationEnd = IF Changes(r) THEN n ELSE s.mutationEnd
  BY AfterMutationSound DEF Changes
<1> HIDE DEF changed
<1>2. /\ StateType(planned) /\ Tells(planned) /\ planned.last = n
      /\ planned.lifecycle = s.lifecycle /\ planned.status = s.status
      /\ planned.mutationEnd = IF Changes(r) THEN n ELSE s.mutationEnd
  BY <1>1, AfterPlanToolKeeps DEF Keeps, Same, Tells
<1> HIDE DEF planned
<1>3. n # 0 /\ s.mutationEnd \in Nat
  BY DEF Sound, StateType
<1>4. /\ StateType(gated) /\ Tells(gated) /\ gated.last = n
      /\ gated.lifecycle = s.lifecycle /\ gated.status = s.status
      /\ gated.mutationEnd = IF Changes(r) THEN n ELSE s.mutationEnd
  BY <1>2, <1>3, AfterGateTells DEF Changes
<1> HIDE DEF gated
<1>5. /\ StateType(t) /\ Tells(t) /\ t.last = n
      /\ t.lifecycle = s.lifecycle /\ t.status = s.status
      /\ t.mutationEnd = IF Changes(r) THEN n ELSE s.mutationEnd
  BY <1>4, AfterFailureKeeps DEF Keeps, Same, Tells
<1> QED BY <1>0, <1>5

\* An event numbered n that leaves the cycle and the sources as they are.
Quiet(s, t, n) ==
  Keeps(s, t, n) /\ t.lifecycle = s.lifecycle /\ t.status \in {s.status, "active"}

LEMMA SessionCompactedQuiet ==
  ASSUME NEW s, StateType(s), NEW n \in Nat
  PROVE  Quiet(s, SessionCompacted(s, n), n)
<1> DEFINE at == [s EXCEPT !.last = n, !.compactions = @ + 1]
<1>1. SessionCompacted(s, n) = Transition(at, "recovery")
  BY DEF SessionCompacted
<1>2. at = [s EXCEPT !.last = n, !.compactions = @ + 1]
  OBVIOUS
<1> HIDE DEF at
<1>3. StateType(at)
  <2>1. s.compactions + 1 \in Nat
    BY DEF StateType
  <2> QED BY <1>2, <2>1 DEF StateType, Shape
<1>4. Quiet(s, at, n)
  BY <1>2, <1>3 DEF Quiet, Keeps, Same, StateType, Shape
<1>5. "recovery" \in Phases
  BY DEF Phases
<1> QED BY <1>1, <1>3, <1>4, <1>5, TransitionKeeps DEF Quiet, Keeps, Same

LEMMA LegacyObservedQuiet ==
  ASSUME NEW s, StateType(s), NEW plan \in Plans, NEW n \in Nat
  PROVE  Quiet(s, LegacyObserved(s, plan, n), n)
<1> DEFINE seen == [s EXCEPT !.last = n, !.open = plan.open, !.blocked = plan.blocked]
<1>1. LegacyObserved(s, plan, n) \in {Transition(seen, "blocked"), seen}
  BY DEF LegacyObserved
<1>2. seen = [s EXCEPT !.last = n, !.open = plan.open, !.blocked = plan.blocked]
  OBVIOUS
<1> HIDE DEF seen
<1>3. StateType(seen)
  BY <1>2, PlanType DEF StateType, Shape
<1>4. Quiet(s, seen, n)
  BY <1>2, <1>3 DEF Quiet, Keeps, Same, StateType, Shape
<1>5. "blocked" \in Phases
  BY DEF Phases
<1> QED BY <1>1, <1>3, <1>4, <1>5, TransitionKeeps DEF Quiet, Keeps, Same

LEMMA PlanObservedQuiet ==
  ASSUME NEW s, StateType(s), NEW open \in Nat \cup {Unknown}, NEW n \in Nat
  PROVE  Quiet(s, PlanObserved(s, open, n), n)
<1> DEFINE t == PlanObserved(s, open, n)
<1>1. t = [s EXCEPT !.last = n, !.accepted = TRUE, !.open = open]
  BY DEF PlanObserved
<1> HIDE DEF t
<1>2. StateType(t)
  BY <1>1 DEF StateType, Shape
<1> QED BY <1>1, <1>2 DEF t, Quiet, Keeps, Same, StateType, Shape

LEMMA ContextObservedQuiet ==
  ASSUME NEW s, StateType(s), NEW usage \in Nat \cup {Unknown}, NEW n \in Nat
  PROVE  Quiet(s, ContextObserved(s, usage, n), n)
<1> DEFINE kept100 == IF usage = Unknown THEN Unknown ELSE Larger(0, Smaller(100, usage))
           t == ContextObserved(s, usage, n)
<1>1. kept100 \in (0..100) \cup {Unknown}
  BY DEF Larger, Smaller, Unknown
<1>2. t = [s EXCEPT !.last = n, !.usage = kept100]
  BY DEF ContextObserved
<1> HIDE DEF t, kept100
<1>3. StateType(t)
  BY <1>1, <1>2 DEF StateType, Shape
<1> QED BY <1>2, <1>3 DEF t, Quiet, Keeps, Same, StateType, Shape

LEMMA FailureStateObservedQuiet ==
  ASSUME NEW s, StateType(s), NEW walls \in Nat, NEW n \in Nat
  PROVE  Quiet(s, FailureStateObserved(s, walls, n), n)
<1> DEFINE t == FailureStateObserved(s, walls, n)
<1>1. t = [s EXCEPT !.last = n, !.walls = walls]
  BY DEF FailureStateObserved
<1> HIDE DEF t
<1>2. StateType(t)
  BY <1>1 DEF StateType, Shape
<1> QED BY <1>1, <1>2 DEF t, Quiet, Keeps, Same, StateType, Shape

LEMMA RecoveryResumedQuiet ==
  ASSUME NEW s, StateType(s), NEW n \in Nat
  PROVE  Quiet(s, RecoveryResumed(s, n), n)
<1> DEFINE at == [s EXCEPT !.last = n, !.walls = 0, !.status = "active"]
<1>1. RecoveryResumed(s, n) = ForceTransition(at, "recovery")
  BY DEF RecoveryResumed
<1>2. at = [s EXCEPT !.last = n, !.walls = 0, !.status = "active"]
  OBVIOUS
<1> HIDE DEF at
<1>3. StateType(at)
  BY <1>2 DEF StateType, Shape, Outcomes
<1>4. Quiet(s, at, n)
  BY <1>2, <1>3 DEF Quiet, Keeps, Same, StateType, Shape
<1>5. "recovery" \in Phases
  BY DEF Phases
<1> QED BY <1>1, <1>3, <1>4, <1>5, ForceTransitionKeeps DEF Quiet, Keeps, Same

LEMMA SessionShutdownKeeps ==
  ASSUME NEW s, StateType(s), NEW n \in Nat
  PROVE  LET t == SessionShutdown(s, n) IN Keeps(s, t, n) /\ t.status = s.status
<1> DEFINE t == SessionShutdown(s, n)
<1>1. t = [s EXCEPT !.last = n, !.lifecycle = "shutdown"]
  BY DEF SessionShutdown
<1> HIDE DEF t
<1>2. StateType(t)
  BY <1>1 DEF StateType, Shape, Lifecycles
<1> QED BY <1>1, <1>2 DEF t, Keeps, Same, StateType, Shape

(* A run settles as complete only when no seen change is exposed           *)
(* (RunState.Settle).                                                      *)
LEMMA CycleSettledEarned ==
  ASSUME NEW s, StateType(s), Tells(s), NEW n \in Nat
  PROVE  LET t == CycleSettled(s, n) IN
         Keeps(s, t, n) /\ (t.status = "complete" => t.exposure \subseteq {"unseen"})
<1> DEFINE at == [s EXCEPT !.last = n, !.lifecycle = "idle"]
           t == Settle(at)
<1>0. CycleSettled(s, n) = t
  BY DEF CycleSettled
<1>1. at = [s EXCEPT !.last = n, !.lifecycle = "idle"]
  OBVIOUS
<1> HIDE DEF at
<1>2. StateType(at)
  BY <1>1 DEF StateType, Shape, Lifecycles
<1>3. Keeps(s, at, n) /\ Tells(at)
  BY <1>1, <1>2 DEF Keeps, Same, StateType, Shape, Tells
<1>4. ASSUME NEW u, StateType(u), NEW outcome \in Outcomes
      PROVE  LET v == [u EXCEPT !.status = outcome] IN
             Keeps(u, v, u.last) /\ v.status = outcome
  <2> DEFINE v == [u EXCEPT !.status = outcome]
  <2>1. v = [u EXCEPT !.status = outcome]
    OBVIOUS
  <2> HIDE DEF v
  <2>2. StateType(v)
    BY <1>4, <2>1 DEF StateType, Shape
  <2> QED BY <1>4, <2>1, <2>2 DEF v, Keeps, Same, StateType, Shape
<1>5. \A to \in Phases : Keeps(at, Transition(at, to), n)
  BY <1>2, <1>3, TransitionKeeps DEF Keeps
<1>6. "recovery" \in Phases /\ "complete" \in Phases
      /\ {"blocked", "paused", "unverified", "complete"} \subseteq Outcomes
  BY DEF Phases, Outcomes
<1>7. \A outcome \in Outcomes :
        LET v == [at EXCEPT !.status = outcome] IN Keeps(at, v, n) /\ v.status = outcome
  BY <1>2, <1>3, <1>4 DEF Keeps
<1>8. \A to \in Phases, outcome \in Outcomes :
        LET v == [Transition(at, to) EXCEPT !.status = outcome] IN
        Keeps(at, v, n) /\ v.status = outcome
  <2> TAKE to \in Phases, outcome \in Outcomes
  <2> DEFINE u == Transition(at, to)
  <2>1. Keeps(at, u, n)
    BY <1>5
  <2> HIDE DEF u
  <2>2. LET v == [u EXCEPT !.status = outcome] IN Keeps(u, v, u.last) /\ v.status = outcome
    BY <1>4, <2>1 DEF Keeps
  <2>3. LET v == [u EXCEPT !.status = outcome] IN Keeps(at, v, n) /\ v.status = outcome
    BY <2>1, <2>2 DEF Keeps, Same
  <2> QED BY <2>3 DEF u
<1>9. CASE at.phase = "blocked"
  <2>1. t = [at EXCEPT !.status = "blocked"]
    BY <1>9 DEF Settle
  <2> HIDE DEF t
  <2>2. Keeps(at, t, n) /\ t.status = "blocked"
    BY <1>6, <1>7, <2>1
  <2> QED BY <1>0, <1>3, <2>2 DEF Keeps, Same, t
<1>10. CASE at.phase # "blocked" /\ at.walls > 0
  <2>1. t = [Transition(at, "recovery") EXCEPT !.status = "paused"]
    BY <1>10 DEF Settle
  <2> HIDE DEF t
  <2>2. Keeps(at, t, n) /\ t.status = "paused"
    BY <1>6, <1>8, <2>1
  <2> QED BY <1>0, <1>3, <2>2 DEF Keeps, Same, t
<1>11. CASE at.phase # "blocked" /\ at.walls = 0 /\ at.mutationEnd # 0 /\ ~at.validAfterMutation
  <2>1. t = [at EXCEPT !.status = "unverified"]
    BY <1>11 DEF Settle
  <2> HIDE DEF t
  <2>2. Keeps(at, t, n) /\ t.status = "unverified"
    BY <1>6, <1>7, <2>1
  <2> QED BY <1>0, <1>3, <2>2 DEF Keeps, Same, t
<1>12. CASE at.phase # "blocked" /\ at.walls = 0 /\ ~(at.mutationEnd # 0 /\ ~at.validAfterMutation)
  <2>1. t \in {[Transition(at, "complete") EXCEPT !.status = "complete"],
               [at EXCEPT !.status = "paused"]}
    BY <1>12 DEF Settle
  <2>2. at.exposure \subseteq {"unseen"}
    BY <1>2, <1>3, <1>12 DEF Tells, StateType, ChangeSorts
  <2> HIDE DEF t
  <2>3. Keeps(at, t, n)
    BY <1>6, <1>7, <1>8, <2>1
  <2> QED BY <1>0, <1>3, <2>2, <2>3 DEF Keeps, Same, t
<1>13. at.walls > 0 \/ at.walls = 0
  BY <1>2 DEF StateType
<1> QED BY <1>9, <1>10, <1>11, <1>12, <1>13

-----------------------------------------------------------------------------
(* The kernel's steps.                                                     *)

\* What CompleteIsEarned asks of a step.
Earned ==
  state.status # "complete" /\ state'.status = "complete" /\ process = "up" =>
    state'.exposure \subseteq {"unseen"}

LEMMA Published ==
  ASSUME NEW s, StateType(s), Tells(s), NEW n \in Nat, s.last <= n, s.mutationEnd <= s.last,
         Publish(s, n)
  PROVE  /\ Sound(state') /\ state'.last <= sequence'
         /\ sequence' \in Nat /\ n <= sequence'
         /\ Same(s, state') /\ state'.lifecycle = s.lifecycle /\ state'.status = s.status
<1>1. CASE s.moved
  <2>1. sequence' = n + 1 /\ state' = [s EXCEPT !.last = n + 1, !.moved = FALSE]
    BY <1>1 DEF Publish
  <2>2. n + 1 \in Nat /\ s.mutationEnd <= n + 1
    BY DEF StateType
  <2>3. StateType(state')
    BY <2>1, <2>2 DEF StateType, Shape
  <2>4. Same(s, state') /\ state'.last = n + 1 /\ ~state'.moved
        /\ state'.lifecycle = s.lifecycle /\ state'.status = s.status
    BY <2>1 DEF Same, StateType, Shape
  <2> QED BY <2>1, <2>2, <2>3, <2>4 DEF Sound, Same, Tells
<1>2. CASE ~s.moved
  BY <1>2 DEF Publish, Sound, Same, StateType
<1> QED BY <1>1, <1>2

\* The same for the next event, when it says nothing of the sources.
LEMMA DispatchedQuietly ==
  ASSUME IInv, NEW s, Keeps(state, s, Number), Dispatch(s)
  PROVE  /\ Sound(state') /\ state'.last <= sequence'
         /\ sequence' \in Nat /\ sequence < sequence'
         /\ Same(state, state') /\ state'.lifecycle = s.lifecycle /\ state'.status = s.status
<1>1. Number \in Nat /\ state.mutationEnd <= Number
  BY DEF IInv, Number, Sound, StateType
<1>2. StateType(s) /\ Tells(s) /\ s.last = Number /\ s.mutationEnd <= s.last /\ Same(state, s)
  BY <1>1 DEF IInv, Sound, Keeps, Same, Tells
<1>3. /\ Sound(state') /\ state'.last <= sequence'
      /\ sequence' \in Nat /\ Number <= sequence'
      /\ Same(s, state') /\ state'.lifecycle = s.lifecycle /\ state'.status = s.status
  <2>1. s.last <= Number
    BY <1>1, <1>2
  <2>2. Publish(s, Number)
    BY DEF Dispatch
  <2> HIDE DEF Number
  <2> QED BY <1>1, <1>2, <2>1, <2>2, Published
<1>4. sequence < sequence'
  BY <1>3 DEF IInv, Number
<1> QED BY <1>2, <1>3, <1>4 DEF Same

LEMMA UnusedType == CallType(Unused)
<1>1. Unused = [stage |-> "none", kind |-> None, started |-> 0, after |-> {}]
  BY DEF Unused
<1> HIDE DEF Unused
<1> QED BY <1>1 DEF CallType

LEMMA RunsBound == MaxRuns \in Nat
  BY KernelBounds

LEMMA ResetCalls ==
  ASSUME calls' = Reset
  PROVE  CallInv'
<1>1. \A c \in Calls : calls'[c] = Unused
  BY DEF Reset
<1>2. calls' = [c \in Calls |-> calls'[c]]
  BY DEF Reset
<1>3. \A c \in Calls : CallType(calls'[c])
  BY <1>1, UnusedType
<1>4. InFlight' = {}
  BY <1>1 DEF InFlight, Unused
<1> QED BY <1>2, <1>3, <1>4 DEF CallInv

LEMMA SameCalls ==
  ASSUME IInv, calls' = calls, state'.mutationEnd = state.mutationEnd, sequence' \in Nat,
         sequence <= sequence', InFlight # {} => state'.lifecycle = "active"
  PROVE  CallInv'
<1>1. InFlight' = InFlight /\ InFlight \subseteq Calls
  BY DEF InFlight
<1>2. \A c \in InFlight : Remembers(calls[c])'
  BY <1>1 DEF IInv, CallInv, Remembers, CallType
<1> QED BY <1>1, <1>2 DEF IInv, CallInv

LEMMA QuietStep ==
  ASSUME IInv, NEW s, Quiet(state, s, Number), Dispatch(s), UNCHANGED <<process, sessions>>,
         signals' \in Nat, UNCHANGED <<identity, calls, kept>>
  PROVE  IInv' /\ Earned
<1>1. Keeps(state, s, Number) /\ s.lifecycle = state.lifecycle /\ s.status \in {state.status, "active"}
  BY DEF Quiet
<1>2. /\ Sound(state') /\ state'.last <= sequence'
      /\ sequence' \in Nat /\ sequence < sequence'
      /\ Same(state, state') /\ state'.lifecycle = s.lifecycle /\ state'.status = s.status
  BY <1>1, DispatchedQuietly
<1>3. CallInv'
  <2>1. InFlight # {} => state'.lifecycle = "active"
    BY <1>1, <1>2 DEF IInv, CallInv
  <2>2. calls' = calls /\ state'.mutationEnd = state.mutationEnd /\ sequence <= sequence'
    BY <1>2 DEF Same, IInv
  <2> QED BY <1>2, <2>1, <2>2, SameCalls
<1>4. PiInv'
  BY DEF IInv, PiInv, identity
<1>5. Sound(kept)' <=> Sound(kept)
  BY DEF Sound, StateType, Shape, Tells
<1> QED BY <1>1, <1>2, <1>3, <1>4, <1>5 DEF IInv, Earned

LEMMA NumberType == ASSUME IInv PROVE Number \in Nat
  BY DEF IInv, Number

LEMMA InitHolds == Init => IInv
<1> SUFFICES ASSUME Init PROVE IInv
  OBVIOUS
<1>1. Sound(state) /\ state.last <= sequence /\ sequence \in Nat
  BY InitialStateSound DEF Init
<1>2. \A c \in Calls : calls[c] = Unused
  BY DEF Init, Reset
<1>3. CallInv
  <2>1. \A c \in Calls : CallType(calls[c])
    BY <1>2, UnusedType
  <2>2. InFlight = {}
    BY <1>2 DEF InFlight, Unused
  <2>3. calls = [c \in Calls |-> calls[c]]
    BY DEF Init, Reset
  <2> QED BY <2>1, <2>2, <2>3 DEF CallInv
<1>4. PiInv
  <2>1. 0 \in 0..MaxRuns
    BY RunsBound
  <2> QED BY <2>1 DEF PiInv, Init
<1> QED BY <1>1, <1>3, <1>4 DEF IInv, Init

LEMMA SessionStartStep ==
  ASSUME IInv, NEW resume \in BOOLEAN, NEW missed \in BOOLEAN, NEW plan \in Plans,
         SessionStart(resume, plan, missed)
  PROVE  IInv' /\ Earned
<1> DEFINE from == IF resume THEN kept ELSE None
           base == IF from = None THEN state
                   ELSE IF missed THEN Exposed(from, "unseen") ELSE from
           run  == IF from = None THEN runs + 1 ELSE base.run
           n    == Floor(from) + 1
           t    == SessionStarted(base, from # None, run, base.generation + 1, plan, n)
           old  == IF from # None THEN base ELSE InitialState
<1>1. from = None \/ Sound(from)
  BY DEF IInv
<1>a. ASSUME from # None
      PROVE  /\ Sound(base) /\ base.last = from.last
             /\ base.mutationEnd = from.mutationEnd
  <2>1. CASE missed
    <3>1. base = Exposed(from, "unseen") /\ "unseen" \in ChangeSorts
      BY <1>a, <2>1 DEF ChangeSorts
    <3> HIDE DEF base, from
    <3>2. StateType(from) /\ Tells(from) /\ ~ from.moved /\ from.mutationEnd <= from.last
      BY <1>1, <1>a DEF Sound
    <3>3. /\ StateType(base) /\ Tells(base) /\ base.last = from.last
          /\ base.mutationEnd = from.mutationEnd /\ base.moved = from.moved
      BY <3>1, <3>2, ExposedTells
    <3> QED BY <3>2, <3>3 DEF Sound
  <2>2. CASE ~ missed
    BY <1>1, <1>a, <2>2
  <2> QED BY <2>1, <2>2
<1>2. Sound(base)
  <2>1. CASE from = None
    BY <2>1 DEF IInv
  <2> QED BY <1>a, <2>1
<1>3. run \in Nat /\ base.generation + 1 \in Nat
  BY <1>2 DEF Sound, StateType, IInv, PiInv
<1>4. n \in Nat /\ Sound(old) /\ old.mutationEnd <= n
  <2>1. CASE from = None
    <3>1. n = 1 /\ old = InitialState
      BY <2>1 DEF Floor
    <3> QED BY <3>1, InitialStateSound DEF InitialState
  <2>2. CASE from # None
    <3>1. n = from.last + 1 /\ old = base
      BY <2>2 DEF Floor, MaxRunStateSequence
    <3> HIDE DEF n, old, base, from
    <3> QED BY <1>a, <1>2, <2>2, <3>1 DEF Sound, StateType
  <2> QED BY <2>1, <2>2
<1>5. Publish(t, n) /\ process # "up" /\ process' = "up" /\ sessions' = sessions + 1
      /\ (from = None => runs < MaxRuns)
      /\ runs' = (IF from = None THEN run ELSE runs) /\ unsettled' = FALSE /\ calls' = Reset
      /\ kept' = from /\ UNCHANGED <<signals, abandonRequested>>
  BY DEF SessionStart
<1>6. (from # None) \in BOOLEAN /\ StateType(base)
  BY <1>2 DEF Sound
<1> HIDE DEF base, n
<1>7. Keeps(old, t, n)
  BY <1>3, <1>4, <1>6, SessionStartedKeeps
<1>8. StateType(t) /\ Tells(t) /\ t.last = n /\ t.mutationEnd <= t.last
  BY <1>4, <1>7 DEF Keeps, Same, Sound, Tells
<1> HIDE DEF t
<1>9. Sound(state') /\ state'.last <= sequence' /\ sequence' \in Nat
  <2>1. t.last <= n
    BY <1>4, <1>8
  <2> QED BY <1>4, <1>5, <1>8, <2>1, Published
<1>10. CallInv'
  BY <1>5, ResetCalls
<1>11. PiInv'
  <2>1. runs' \in 0..MaxRuns
    BY <1>5, RunsBound DEF IInv, PiInv
  <2>2. sessions' \in Nat
    BY <1>5 DEF IInv, PiInv
  <2> QED BY <1>5, <2>1, <2>2 DEF IInv, PiInv
<1>12. kept' = None \/ Sound(kept')
  BY <1>1, <1>5
<1> QED BY <1>5, <1>9, <1>10, <1>11, <1>12 DEF IInv, Earned, Sound, StateType, Shape, Tells

LEMMA ShutdownStep ==
  ASSUME IInv, Shutdown
  PROVE  IInv' /\ Earned
<1>1. Keeps(state, SessionShutdown(state, Number), Number)
      /\ SessionShutdown(state, Number).status = state.status
  BY NumberType, SessionShutdownKeeps DEF IInv, Sound
<1>2. Sound(state') /\ state'.last <= sequence' /\ sequence' \in Nat
      /\ state'.status = state.status
  BY <1>1, DispatchedQuietly DEF Shutdown
<1>3. CallInv'
  BY ResetCalls DEF Shutdown
<1>4. PiInv'
  BY DEF IInv, PiInv, Shutdown, identity
<1>5. kept' = None \/ Sound(kept')
  BY <1>2 DEF IInv, Shutdown
<1> QED BY <1>2, <1>3, <1>4, <1>5 DEF IInv, Earned

LEMMA ExitStep ==
  ASSUME IInv, Exit
  PROVE  IInv' /\ Earned
<1>1. state' = InitialState /\ sequence' = 0
  BY DEF Exit
<1>2. Sound(state') /\ state'.last <= sequence' /\ sequence' \in Nat
  BY <1>1, InitialStateSound
<1>3. state'.status = "active"
  BY <1>1 DEF InitialState
<1>4. CallInv'
  BY ResetCalls DEF Exit
<1>5. PiInv'
  BY DEF IInv, PiInv, Exit
<1>6. kept' = None \/ Sound(kept')
  BY DEF IInv, Exit
<1> QED BY <1>2, <1>3, <1>4, <1>5, <1>6 DEF IInv, Earned

LEMMA RotateType ==
  ASSUME IInv, NEW abandoned \in BOOLEAN, Rotate(abandoned)
  PROVE  NewRun(abandoned) \in Nat /\ runs' \in 0..MaxRuns
  BY RunsBound DEF IInv, PiInv, Rotate, NewRun

LEMMA BeforeAgentStartStep ==
  ASSUME IInv, BeforeAgentStart
  PROVE  IInv' /\ Earned
<1> DEFINE t == ObjectiveObserved(state, NewRun(abandonRequested), Number)
<1>1. NewRun(abandonRequested) \in Nat /\ runs' \in 0..MaxRuns
  BY RotateType DEF BeforeAgentStart, IInv, PiInv
<1>2. state.last <= Number
  BY DEF IInv, Number, Sound, StateType
<1>3. Sound(t) /\ t.last <= Number /\ t.status \in {state.status, "active"}
  BY <1>1, <1>2, NumberType, ObjectiveObservedSound DEF IInv
<1>4. Publish(t, Number)
  BY DEF BeforeAgentStart, Dispatch
<1> HIDE DEF t
<1>5. Sound(state') /\ state'.last <= sequence' /\ sequence' \in Nat /\ state'.status = t.status
  BY <1>3, <1>4, NumberType, Published DEF Sound
<1>6. CallInv'
  <2>1. InFlight = {}
    BY DEF IInv, CallInv, BeforeAgentStart
  <2>2. calls' = calls /\ InFlight' = InFlight
    BY DEF BeforeAgentStart, InFlight
  <2> QED BY <2>1, <2>2 DEF IInv, CallInv
<1>7. PiInv'
  BY <1>1 DEF IInv, PiInv, BeforeAgentStart, pi
<1>8. kept' = kept
  BY DEF BeforeAgentStart
<1> QED BY <1>3, <1>5, <1>6, <1>7, <1>8 DEF IInv, Earned

LEMMA AgentStartStep ==
  ASSUME IInv, AgentStart
  PROVE  IInv' /\ Earned
<1> DEFINE t == CycleStarted(state, NewRun(FALSE), Number)
<1>1. NewRun(FALSE) \in Nat /\ runs' \in 0..MaxRuns
  BY RotateType DEF AgentStart
<1>2. state.last <= Number
  BY DEF IInv, Number, Sound, StateType
<1>3. Sound(t) /\ t.last = Number /\ t.status = "active"
  BY <1>1, <1>2, NumberType, CycleStartedSound DEF IInv
<1>4. Publish(t, Number)
  BY DEF AgentStart, Dispatch
<1> HIDE DEF t
<1>5. Sound(state') /\ state'.last <= sequence' /\ sequence' \in Nat /\ state'.status = t.status
  <2>1. t.last <= Number
    BY <1>3, NumberType
  <2> QED BY <1>3, <1>4, <2>1, NumberType, Published DEF Sound
<1>6. CallInv'
  BY ResetCalls DEF AgentStart
<1>7. PiInv'
  BY <1>1 DEF IInv, PiInv, AgentStart, pi
<1>8. kept' = kept
  BY DEF AgentStart
<1> QED BY <1>3, <1>5, <1>6, <1>7, <1>8 DEF IInv, Earned

LEMMA ToolExecutionStartStep ==
  ASSUME IInv, NEW c \in Calls, NEW kind \in Kinds, ToolExecutionStart(c, kind)
  PROVE  IInv' /\ Earned
<1> DEFINE t   == ToolStarted(state, kind, Number)
           new == [stage |-> "started", kind |-> kind, started |-> Number, after |-> ChangeSorts]
<1>1. Keeps(state, t, Number) /\ t.lifecycle = state.lifecycle /\ t.status = state.status
  BY NumberType, ToolStartedKeeps DEF IInv, Sound
<1>2. state.lifecycle = "active" /\ calls' = [calls EXCEPT ![c] = new] /\ Dispatch(t)
      /\ UNCHANGED <<pi, identity, kept>>
  BY DEF ToolExecutionStart
<1> HIDE DEF t
<1>3. /\ Sound(state') /\ state'.last <= sequence'
      /\ sequence' \in Nat /\ sequence < sequence'
      /\ Same(state, state') /\ state'.lifecycle = "active" /\ state'.status = state.status
  BY <1>1, <1>2, DispatchedQuietly
<1>4. new.started = Number /\ "seen" \in new.after /\ CallType(new)
  BY NumberType DEF CallType, ChangeSorts
<1> HIDE DEF new
<1>5. /\ calls' = [d \in Calls |-> calls'[d]]
      /\ \A d \in Calls : calls'[d] = IF d = c THEN new ELSE calls[d]
  BY <1>2 DEF IInv, CallInv
<1>6. CallInv'
  <2>1. \A d \in Calls : CallType(calls'[d])
    BY <1>4, <1>5 DEF IInv, CallInv
  <2>2. ASSUME NEW d \in InFlight'
        PROVE  Remembers(calls[d])'
    <3>1. d \in Calls
      BY <2>2 DEF InFlight
    <3>2. CASE d = c
      <4>1. Number <= sequence' /\ Number > state'.mutationEnd
        BY <1>3 DEF Same, IInv, Sound, StateType, Number
      <4> QED BY <1>4, <1>5, <3>1, <3>2, <4>1 DEF Remembers
    <3>3. CASE d # c
      <4>1. d \in InFlight /\ calls'[d] = calls[d]
        BY <1>5, <2>2, <3>1, <3>3 DEF InFlight
      <4>2. Remembers(calls[d]) /\ CallType(calls[d])
        BY <3>1, <4>1 DEF IInv, CallInv
      <4> QED BY <1>3, <4>1, <4>2 DEF Remembers, Same, CallType, IInv
    <3> QED BY <3>2, <3>3
  <2> QED BY <1>3, <1>5, <2>1, <2>2 DEF CallInv
<1>7. PiInv' /\ kept' = kept
  BY <1>2 DEF IInv, PiInv, pi, identity
<1> QED BY <1>3, <1>6, <1>7 DEF IInv, Earned

LEMMA ToolResultStep ==
  ASSUME IInv, NEW c \in Calls, ToolResult(c)
  PROVE  IInv' /\ Earned
<1>1. calls[c].stage = "started" /\ calls' = [calls EXCEPT ![c].stage = "result"]
      /\ sequence' = Number /\ UNCHANGED <<pi, state, identity, kept>>
  BY DEF ToolResult
<1>2. sequence' \in Nat /\ sequence < sequence' /\ state.last <= sequence'
  BY <1>1, NumberType DEF Number, IInv, Sound, StateType
<1> DEFINE new == [calls[c] EXCEPT !.stage = "result"]
<1>3. CallType(new) /\ new.started = calls[c].started /\ new.after = calls[c].after
  BY DEF CallType, IInv, CallInv
<1> HIDE DEF new
<1>4. /\ calls' = [d \in Calls |-> calls'[d]]
      /\ \A d \in Calls : calls'[d] = IF d = c THEN new ELSE calls[d]
  BY <1>1 DEF IInv, CallInv, new
<1>5. CallInv'
  <2>1. \A d \in Calls : CallType(calls'[d])
    BY <1>3, <1>4 DEF IInv, CallInv
  <2>2. ASSUME NEW d \in InFlight'
        PROVE  Remembers(calls[d])' /\ d \in InFlight
    <3>1. d \in Calls /\ d \in InFlight
      BY <1>1, <1>4, <2>2 DEF InFlight
    <3>2. Remembers(calls[d]) /\ CallType(calls[d])
      BY <3>1 DEF IInv, CallInv
    <3>3. calls'[d].started = calls[d].started /\ calls'[d].after = calls[d].after
      BY <1>3, <1>4, <3>1
    <3>4. calls[d].started \in Nat /\ sequence \in Nat
      BY <3>2 DEF CallType, IInv
    <3> QED BY <1>1, <1>2, <3>1, <3>2, <3>3, <3>4 DEF Remembers
  <2> QED BY <1>1, <1>4, <2>1, <2>2 DEF IInv, CallInv
<1>6. PiInv' /\ kept' = kept
  BY <1>1 DEF IInv, PiInv, pi, identity
<1> QED BY <1>1, <1>2, <1>5, <1>6 DEF IInv, Earned

LEMMA ToolExecutionEndStep ==
  ASSUME IInv, NEW c \in Calls, NEW failed \in BOOLEAN, NEW wrote \in BOOLEAN,
         ToolExecutionEnd(c, failed, wrote)
  PROVE  IInv' /\ Earned
<1> DEFINE r == Receipt(c, failed, wrote)
           t == ToolFinished(state, r, Number)
<1>1. /\ c \in InFlight /\ Dispatch(t) /\ UNCHANGED <<pi, identity, kept>>
      /\ calls' = [d \in Calls |->
           IF d = c THEN [calls[d] EXCEPT !.stage = "done"]
           ELSE [calls[d] EXCEPT !.after = @ \ Sorts(r)]]
  BY DEF ToolExecutionEnd
<1>2. /\ r.ok \in BOOLEAN /\ r.after = calls[c].after /\ r.started = calls[c].started
  BY DEF Receipt
<1> HIDE DEF r
<1>3. /\ r.started \in Nat /\ r.started <= Number
      /\ "seen" \in r.after <=> r.started > state.mutationEnd
  <2>1. Remembers(calls[c]) /\ CallType(calls[c]) /\ sequence \in Nat
    BY <1>1 DEF IInv, CallInv
  <2> QED BY <1>2, <2>1 DEF Remembers, CallType, Number
<1>4. Sound(state) /\ state.last < Number /\ Number \in Nat
  BY NumberType DEF IInv, Number, Sound, StateType
<1>5. /\ StateType(t) /\ Tells(t) /\ t.last = Number /\ t.lifecycle = state.lifecycle
      /\ t.status = state.status
      /\ t.mutationEnd = IF Changes(r) THEN Number ELSE state.mutationEnd
  <2> HIDE DEF Number
  <2> QED BY <1>2, <1>3, <1>4, ToolFinishedSound
<1> HIDE DEF t
<1>6. /\ Sound(state') /\ state'.last <= sequence'
      /\ sequence' \in Nat /\ Number <= sequence'
      /\ Same(t, state') /\ state'.lifecycle = t.lifecycle /\ state'.status = t.status
  <2>1. t.last <= Number /\ t.mutationEnd <= t.last /\ Publish(t, Number)
    BY <1>1, <1>4, <1>5 DEF Sound, StateType, Dispatch
  <2> HIDE DEF Number
  <2> QED BY <1>4, <1>5, <2>1, Published
<1>7. /\ state'.mutationEnd = IF Changes(r) THEN Number ELSE state.mutationEnd
      /\ state'.lifecycle = state.lifecycle /\ state'.status = state.status
  BY <1>5, <1>6 DEF Same
<1>8. CallInv'
  <2>1. ASSUME NEW d \in Calls
        PROVE  /\ CallType(calls'[d]) /\ calls'[d].started = calls[d].started
               /\ d # c => /\ calls'[d].after = calls[d].after \ Sorts(r)
                           /\ calls'[d].stage = calls[d].stage
               /\ d = c => calls'[d].stage = "done"
    <3>1. CallType(calls[d])
      BY DEF IInv, CallInv
    <3>2. CASE d = c
      <4>1. calls'[d] = [calls[d] EXCEPT !.stage = "done"]
        BY <1>1, <3>2
      <4> QED BY <3>1, <3>2, <4>1 DEF CallType
    <3>3. CASE d # c
      <4>1. calls'[d] = [calls[d] EXCEPT !.after = @ \ Sorts(r)]
        BY <1>1, <3>3
      <4>2. calls[d].after \ Sorts(r) \subseteq ChangeSorts
        BY <3>1 DEF CallType
      <4> QED BY <3>1, <3>3, <4>1, <4>2 DEF CallType
    <3> QED BY <3>2, <3>3
  <2>2. ASSUME NEW d \in InFlight'
        PROVE  Remembers(calls[d])'
    <3>1. d \in Calls /\ d # c /\ d \in InFlight
      BY <2>1, <2>2 DEF InFlight
    <3>2. Remembers(calls[d]) /\ CallType(calls[d])
      BY <3>1 DEF IInv, CallInv
    <3>3. calls'[d].started = calls[d].started
          /\ calls'[d].after = calls[d].after \ Sorts(r)
      BY <2>1, <3>1
    <3>4. calls[d].started \in Nat /\ sequence \in Nat /\ Number = sequence + 1
      BY <3>2 DEF CallType, IInv, Number
    <3>5. calls[d].started <= sequence
      BY <3>2 DEF Remembers
    <3>6. calls[d].started <= sequence'
      BY <1>6, <3>4, <3>5
    <3>7. "seen" \in calls[d].after \ Sorts(r) <=> calls[d].started > state'.mutationEnd
      <4>1. CASE Changes(r)
        BY <1>7, <3>4, <3>5, <4>1 DEF Sorts
      <4>2. CASE ~Changes(r)
        BY <1>7, <3>2, <4>2 DEF Remembers, Sorts
      <4> QED BY <4>1, <4>2
    <3> QED BY <3>3, <3>6, <3>7 DEF Remembers
  <2>3. InFlight' # {} => InFlight # {}
    BY <1>1
  <2>4. calls' = [d \in Calls |-> calls'[d]]
    BY <1>1
  <2> QED BY <1>7, <2>1, <2>2, <2>3, <2>4 DEF IInv, CallInv
<1>9. PiInv' /\ kept' = kept
  BY <1>1 DEF IInv, PiInv, pi, identity
<1> QED BY <1>6, <1>7, <1>8, <1>9 DEF IInv, Earned

LEMMA TurnEndStep ==
  ASSUME IInv, NEW plan \in Plans, TurnEnd(plan)
  PROVE  IInv' /\ Earned
<1>1. Quiet(state, LegacyObserved(state, plan, Number), Number)
  BY NumberType, LegacyObservedQuiet DEF IInv, Sound
<1> QED BY <1>1, QuietStep DEF TurnEnd, pi, IInv, PiInv

LEMMA SessionCompactStep ==
  ASSUME IInv, SessionCompact
  PROVE  IInv' /\ Earned
<1>1. Quiet(state, SessionCompacted(state, Number), Number)
  BY NumberType, SessionCompactedQuiet DEF IInv, Sound
<1> QED BY <1>1, QuietStep DEF SessionCompact, pi, IInv, PiInv

\* The end of a cycle and its settlement leave no call in flight.
LEMMA NoCallsStep ==
  ASSUME IInv, NEW s, Keeps(state, s, Number), Dispatch(s), InFlight = {},
         UNCHANGED <<pi, runs, abandonRequested, calls, kept>>, unsettled' \in BOOLEAN,
         s.status = "complete" => s.exposure \subseteq {"unseen"} \/ state.status = "complete"
  PROVE  IInv' /\ Earned
<1>1. /\ Sound(state') /\ state'.last <= sequence'
      /\ sequence' \in Nat /\ sequence < sequence'
      /\ Same(state, state') /\ state'.status = s.status
  BY DispatchedQuietly
<1>2. CallInv'
  <2>1. state'.mutationEnd = state.mutationEnd /\ sequence <= sequence' /\ calls' = calls
    BY <1>1 DEF Same, IInv
  <2> QED BY <1>1, <2>1, SameCalls
<1>3. PiInv'
  BY DEF IInv, PiInv, pi
<1>4. state'.exposure = s.exposure
  BY <1>1 DEF Same, Keeps
<1> QED BY <1>1, <1>2, <1>3, <1>4 DEF IInv, Earned

LEMMA AgentEndStep ==
  ASSUME IInv, NEW textOnly \in BOOLEAN, AgentEnd(textOnly)
  PROVE  IInv' /\ Earned
<1> DEFINE t == CycleEnded(state, textOnly, Number)
<1>1. Keeps(state, t, Number) /\ t.status = state.status
  BY NumberType, CycleEndedKeeps DEF IInv, Sound
<1>2. Dispatch(t) /\ InFlight = {} /\ UNCHANGED <<pi, identity, calls, kept>>
  BY DEF AgentEnd
<1> HIDE DEF t
<1>3. UNCHANGED <<pi, runs, abandonRequested, calls, kept>> /\ unsettled' \in BOOLEAN
  BY <1>2 DEF identity, IInv, PiInv
<1> QED BY <1>1, <1>2, <1>3, NoCallsStep

LEMMA AgentSettledStep ==
  ASSUME IInv, AgentSettled
  PROVE  IInv' /\ Earned
<1> DEFINE t == CycleSettled(state, Number)
<1>1. Keeps(state, t, Number) /\ (t.status = "complete" => t.exposure \subseteq {"unseen"})
  BY NumberType, CycleSettledEarned DEF IInv, Sound
<1>2. Dispatch(t) /\ UNCHANGED <<pi, runs, abandonRequested, calls, kept>> /\ unsettled' \in BOOLEAN
  BY DEF AgentSettled
<1>3. InFlight = {}
  BY DEF AgentSettled, IInv, CallInv
<1> HIDE DEF t
<1> QED BY <1>1, <1>2, <1>3, NoCallsStep

LEMMA SignalStep ==
  ASSUME IInv, NEW s, Quiet(state, s, Number), Signal(s)
  PROVE  IInv' /\ Earned
<1>1. signals' \in Nat /\ Dispatch(s) /\ UNCHANGED <<process, sessions>>
      /\ UNCHANGED <<identity, calls, kept>>
  BY DEF Signal, IInv, PiInv
<1> QED BY <1>1, QuietStep

LEMMA SignalsStep ==
  ASSUME IInv, Signals
  PROVE  IInv' /\ Earned
<1>1. StateType(state) /\ state.open \in Nat \cup {Unknown}
  BY DEF IInv, Sound, StateType
<1>2. CASE PlanWrite
  <2>1. PICK plan \in Plans : Signal(PlanObserved(state, plan.open, Number))
    BY <1>2 DEF PlanWrite
  <2> QED BY <1>1, <2>1, NumberType, PlanType, PlanObservedQuiet, SignalStep
<1>3. CASE PlanGo
  BY <1>1, <1>3, NumberType, PlanObservedQuiet, SignalStep DEF PlanGo
<1>4. CASE ContextReceipt
  <2>1. PICK usage \in Readings : Signal(ContextObserved(state, usage, Number))
    BY <1>4 DEF ContextReceipt
  <2>2. usage \in Nat \cup {Unknown}
    BY KernelBounds
  <2> QED BY <1>1, <2>1, <2>2, NumberType, ContextObservedQuiet, SignalStep
<1>5. CASE FailureEpisodes
  <2>1. PICK walls \in {0, 1} : Signal(FailureStateObserved(state, walls, Number))
    BY <1>5 DEF FailureEpisodes
  <2>2. walls \in Nat
    OBVIOUS
  <2> QED BY <1>1, <2>1, <2>2, NumberType, FailureStateObservedQuiet, SignalStep
<1>6. CASE Resume
  BY <1>1, <1>6, NumberType, RecoveryResumedQuiet, SignalStep DEF Resume
<1>7. CASE RunNew
  <2>1. UNCHANGED <<process, sessions, state, sequence, runs, unsettled, calls, kept>>
        /\ signals' \in Nat /\ abandonRequested' = TRUE
    BY <1>7 DEF RunNew, IInv, PiInv
  <2>2. CallInv'
    BY <2>1 DEF IInv, CallInv, InFlight, Remembers
  <2>3. PiInv'
    BY <2>1 DEF IInv, PiInv
  <2> QED BY <2>1, <2>2, <2>3 DEF IInv, Earned
<1> QED BY <1>2, <1>3, <1>4, <1>5, <1>6, <1>7 DEF Signals

LEMMA NextKeepsIInv ==
  ASSUME IInv, [Next]_vars
  PROVE  IInv' /\ (Earned \/ UNCHANGED vars)
<1>1. CASE Session
  BY <1>1, ShutdownStep, ExitStep, SessionStartStep DEF Session
<1>2. CASE Agent
  BY <1>2, BeforeAgentStartStep, AgentStartStep, SessionCompactStep, AgentSettledStep,
     ToolExecutionStartStep, ToolResultStep, ToolExecutionEndStep, TurnEndStep, AgentEndStep
  DEF Agent
<1>3. CASE Signals
  BY <1>3, SignalsStep
<1>4. CASE UNCHANGED vars
  <2>1. state' = state /\ sequence' = sequence /\ calls' = calls /\ kept' = kept
        /\ UNCHANGED pi /\ UNCHANGED identity
    BY <1>4 DEF vars
  <2>2. CallInv'
    BY <2>1 DEF IInv, CallInv, InFlight, Remembers
  <2>3. PiInv'
    BY <2>1 DEF IInv, PiInv, pi, identity
  <2> QED BY <1>4, <2>1, <2>2, <2>3 DEF IInv
<1> QED BY <1>1, <1>2, <1>3, <1>4 DEF Next

-----------------------------------------------------------------------------
(* The invariant holds of every run of the kernel (run-kernel.ts).         *)
THEOREM IInvAlways == Spec => []IInv
<1>1. Init => IInv
  BY InitHolds
<1>2. IInv /\ [Next]_vars => IInv'
  BY NextKeepsIInv
<1> QED BY <1>1, <1>2, PTL DEF Spec

LEMMA StateTypeIsValid ==
  ASSUME NEW s, StateType(s)
  PROVE  Valid(s)
  BY DEF StateType, Valid, Unknown

(* Every state the kernel publishes or finds kept is one its validator      *)
(* accepts (validateRunStateSnapshot).                                      *)
THEOREM TypeCorrect == Spec => []TypeOK
<1>1. IInv => TypeOK
  BY StateTypeIsValid DEF IInv, PiInv, Sound, CallInv, TypeOK
<1> QED BY <1>1, IInvAlways, PTL

(* The numbers of the last change and of the gate's call tell whether the   *)
(* gate covers every seen change of the run, whatever calls overlapped and  *)
(* whatever moment a resumption starts from (applyReceipt).                 *)
THEOREM ValidMeansCoveredAlways == Spec => []ValidMeansCovered
<1>1. IInv => ValidMeansCovered
  BY DEF IInv, Sound, ValidMeansCovered
<1> QED BY <1>1, IInvAlways, PTL

(* A run becomes complete only when no change of its sources is exposed but *)
(* such as the kernel did not see (settle).                                 *)
THEOREM CompleteIsEarnedAlways == Spec => CompleteIsEarned
<1>1. IInv /\ [Next]_vars =>
        [state.status # "complete" /\ state'.status = "complete" /\ process = "up" =>
           state'.exposure \subseteq {"unseen"}]_vars
  BY NextKeepsIInv DEF Earned
<1>2. CompleteIsEarned <=>
        [][state.status # "complete" /\ state'.status = "complete" /\ process = "up" =>
           state'.exposure \subseteq {"unseen"}]_vars
  BY DEF CompleteIsEarned
<1> QED BY <1>1, <1>2, IInvAlways, PTL DEF Spec
=============================================================================
