----------------------------- MODULE RunKernel -----------------------------
(***************************************************************************)
(* The run kernel of one process over its crashes and restarts: it numbers *)
(* Pi's events, makes receipts of tool calls (ReceiptNormalizerV1), rotates *)
(* the run when one is complete or abandoned, and restores a resumed run   *)
(* from what the run capsule kept.                                         *)
(*                                                                         *)
(* Pi hands over one event after the other; a call's start comes before    *)
(* its result and its end, calls overlap, and agent_start comes when none  *)
(* is running.  The signals of the older extensions come at any time.  The *)
(* clock does not step back: a call that ends before it starts would be    *)
(* refused as an event (run-kernel-events.ts:107), and a change missed.    *)
(*                                                                         *)
(* kept is the snapshot a resumption would find: the capsule may keep the  *)
(* state of any moment (RunCapsule says which and when).  What comes after *)
(* that moment is lost with the process, so the end of a session that      *)
(* keeps its state stands for every later end that finds that state kept.  *)
(***************************************************************************)
EXTENDS RunState

CONSTANTS
  Calls,        \* ids of tool calls; an id is used once in a cycle
  Kinds,        \* tools the agent calls
  Plans,        \* what plan-runner shows: [active, open, blocked]
  Readings,     \* measured context, in percent
  None,
  MaxSequence,  \* bounds the events of a run and of its resumptions
  MaxSessions,  \* bounds the session starts
  MaxRuns,      \* bounds the run ids given out
  MaxSignals,   \* bounds the signals of the older extensions
  MaxCompactions

ASSUME KernelBounds ==
  /\ Kinds \subseteq {"edit", "gate", "fix", "read", "plan_write", "plan_go"}
  /\ \A p \in Plans : p.active \in BOOLEAN /\ p.blocked \in Nat /\ p.open \in Nat \cup {Unknown}
  /\ Readings \subseteq Nat \cup {Unknown}
  /\ MaxSequence \in Nat /\ MaxSessions \in Nat /\ MaxRuns \in Nat /\ MaxSignals \in Nat
  /\ MaxCompactions \in Nat

VARIABLES
  \* whether the process is down, up without a session, or in one
  process, sessions, signals,
  \* run-kernel.ts and RunStateStoreV1
  state, sequence, runs, abandonRequested, unsettled,
  \* ReceiptNormalizerV1
  calls,
  kept

pi       == <<process, sessions, signals>>
identity == <<runs, abandonRequested, unsettled>>
vars == <<pi, state, sequence, identity, calls, kept>>

Number == sequence + 1
Room   == process = "up" /\ sequence + 2 <= MaxSequence

(* dispatch(): the event numbered n gives s; a transition is an event of    *)
(* its own.                                                                 *)
Publish(s, n) ==
  IF s.moved THEN sequence' = n + 1 /\ state' = [s EXCEPT !.last = n + 1, !.moved = FALSE]
             ELSE sequence' = n /\ state' = s

Dispatch(s) == Publish(s, Number)

Unused == [stage |-> "none", kind |-> None, started |-> 0, after |-> {}]
Reset  == [c \in Calls |-> Unused]

--------------------------------------------------------------------------
(* Sessions.                                                              *)

Floor(from) == IF from = None THEN 0 ELSE MaxRunStateSequence(from)

\* missed: the sources of a resumed run have changed since its state was kept.
SessionStart(resume, plan, missed) ==
  LET from == IF resume THEN kept ELSE None
      base == IF from = None THEN state
              ELSE IF missed THEN Exposed(from, "unseen") ELSE from
      run  == IF from = None THEN runs + 1 ELSE base.run
      n    == Floor(from) + 1
  IN  /\ process # "up" /\ sessions < MaxSessions
      /\ from = None => runs < MaxRuns
      /\ Publish(SessionStarted(base, from # None, run, base.generation + 1, plan, n), n)
      /\ process' = "up" /\ sessions' = sessions + 1
      /\ runs' = IF from = None THEN run ELSE runs
      /\ unsettled' = FALSE /\ calls' = Reset
      /\ kept' = from
      /\ UNCHANGED <<signals, abandonRequested>>

Shutdown ==
  /\ Room
  /\ Dispatch(SessionShutdown(state, Number))
  /\ calls' = Reset /\ process' = "between"
  /\ kept' \in {kept, state'}
  /\ UNCHANGED <<sessions, signals, identity>>

\* The process ends, at any moment.
Exit ==
  /\ process # "down" /\ process' = "down"
  /\ kept' \in {kept, state}
  /\ state' = InitialState /\ sequence' = 0 /\ calls' = Reset
  /\ abandonRequested' = FALSE /\ unsettled' = FALSE
  /\ UNCHANGED <<sessions, signals, runs>>

--------------------------------------------------------------------------
(* The agent's events.                                                    *)

InFlight == {c \in Calls : calls[c].stage \in {"started", "result"}}

Rotates(abandoned) == state.status = "complete" \/ abandoned
NewRun(abandoned)  == IF Rotates(abandoned) THEN runs + 1 ELSE 0

Rotate(abandoned) ==
  /\ Rotates(abandoned) => runs < MaxRuns
  /\ runs' = IF Rotates(abandoned) THEN runs + 1 ELSE runs

BeforeAgentStart ==
  /\ Room /\ state.lifecycle \in {"starting", "idle"}
  /\ Rotate(abandonRequested) /\ abandonRequested' = FALSE
  /\ Dispatch(ObjectiveObserved(state, NewRun(abandonRequested), Number))
  /\ UNCHANGED <<pi, unsettled, calls, kept>>

\* A retry or a compaction comes here too, without a prompt: it does not
\* look at the abandonment.
AgentStart ==
  /\ Room /\ state.lifecycle \in {"starting", "idle", "settling"}
  /\ Rotate(FALSE) /\ unsettled' = TRUE /\ calls' = Reset
  /\ Dispatch(CycleStarted(state, NewRun(FALSE), Number))
  /\ UNCHANGED <<pi, abandonRequested, kept>>

ToolExecutionStart(c, kind) ==
  /\ Room /\ state.lifecycle = "active" /\ calls[c].stage = "none"
  /\ calls' = [calls EXCEPT ![c] = [stage |-> "started", kind |-> kind,
                                    started |-> Number, after |-> ChangeSorts]]
  /\ Dispatch(ToolStarted(state, kind, Number))
  /\ UNCHANGED <<pi, identity, kept>>

\* The result takes a number, and no event.
ToolResult(c) ==
  /\ Room /\ calls[c].stage = "started"
  /\ calls' = [calls EXCEPT ![c].stage = "result"]
  /\ sequence' = Number
  /\ UNCHANGED <<pi, state, identity, kept>>

\* A call without a result was rejected, or its result is missing.  A command
\* that fails may have written before.
Receipt(c, failed, wrote) ==
  LET ok == calls[c].stage = "result" /\ ~failed
  IN  [kind |-> calls[c].kind, started |-> calls[c].started, failed |-> failed, ok |-> ok,
       wrote |-> wrote /\ calls[c].kind \in EditKinds /\ ~ok, after |-> calls[c].after]

Changes(r) == r.kind \in EditKinds /\ r.ok

Sorts(r) == (IF Changes(r) THEN {"seen"} ELSE {}) \cup (IF r.wrote THEN {"unseen"} ELSE {})

ToolExecutionEnd(c, failed, wrote) ==
  LET r == Receipt(c, failed, wrote)
  IN  /\ Room /\ c \in InFlight
      /\ calls' = [d \in Calls |->
           IF d = c THEN [calls[d] EXCEPT !.stage = "done"]
           ELSE [calls[d] EXCEPT !.after = @ \ Sorts(r)]]
      /\ Dispatch(ToolFinished(state, r, Number))
      /\ UNCHANGED <<pi, identity, kept>>

TurnEnd(plan) ==
  /\ Room /\ state.lifecycle = "active" /\ InFlight = {}
  /\ Dispatch(LegacyObserved(state, plan, Number))
  /\ UNCHANGED <<pi, identity, calls, kept>>

AgentEnd(textOnly) ==
  /\ Room /\ state.lifecycle = "active" /\ InFlight = {}
  /\ Dispatch(CycleEnded(state, textOnly, Number))
  /\ UNCHANGED <<pi, identity, calls, kept>>

SessionCompact ==
  /\ Room /\ state.lifecycle \in {"starting", "idle", "settling"}
  /\ state.compactions < MaxCompactions
  /\ Dispatch(SessionCompacted(state, Number))
  /\ UNCHANGED <<pi, identity, calls, kept>>

\* Only the first agent_settled of a cycle settles the run.
AgentSettled ==
  /\ Room /\ unsettled /\ state.lifecycle = "settling"
  /\ unsettled' = FALSE
  /\ Dispatch(CycleSettled(state, Number))
  /\ UNCHANGED <<pi, runs, abandonRequested, calls, kept>>

--------------------------------------------------------------------------
(* The older extensions' signals, and /run-new and /run-resume.           *)

Signal(s) ==
  /\ Room /\ signals < MaxSignals /\ signals' = signals + 1
  /\ Dispatch(s)
  /\ UNCHANGED <<process, sessions, identity, calls, kept>>

PlanWrite       == \E plan \in Plans : Signal(PlanObserved(state, plan.open, Number))
PlanGo          == Signal(PlanObserved(state, state.open, Number))
ContextReceipt  == \E usage \in Readings : Signal(ContextObserved(state, usage, Number))
FailureEpisodes == \E walls \in {0, 1} : Signal(FailureStateObserved(state, walls, Number))
Resume          == Signal(RecoveryResumed(state, Number))

\* The next prompt starts a new run.
RunNew ==
  /\ Room /\ signals < MaxSignals /\ signals' = signals + 1
  /\ abandonRequested' = TRUE
  /\ UNCHANGED <<process, sessions, state, sequence, runs, unsettled, calls, kept>>

--------------------------------------------------------------------------
Init ==
  /\ process = "down" /\ sessions = 0 /\ signals = 0
  /\ state = InitialState /\ sequence = 0
  /\ runs = 0 /\ abandonRequested = FALSE /\ unsettled = FALSE
  /\ calls = Reset /\ kept = None

Session == Shutdown \/ Exit
           \/ \E resume, missed \in BOOLEAN, plan \in Plans : SessionStart(resume, plan, missed)

Agent ==
  \/ BeforeAgentStart \/ AgentStart \/ SessionCompact \/ AgentSettled
  \/ \E c \in Calls, kind \in Kinds : ToolExecutionStart(c, kind)
  \/ \E c \in Calls : ToolResult(c)
  \/ \E c \in Calls, failed, wrote \in BOOLEAN : ToolExecutionEnd(c, failed, wrote)
  \/ \E plan \in Plans : TurnEnd(plan)
  \/ \E textOnly \in BOOLEAN : AgentEnd(textOnly)

Signals == PlanWrite \/ PlanGo \/ ContextReceipt \/ FailureEpisodes \/ Resume \/ RunNew

Next == Session \/ Agent \/ Signals

Spec == Init /\ [][Next]_vars

--------------------------------------------------------------------------
(* Every state the kernel holds, and the one that was kept, is one its      *)
(* validator accepts (validateRunStateSnapshot): none is withheld from the  *)
(* capsule, and a resumption never finds one it must refuse.                *)
TypeOK ==
  /\ process \in {"down", "between", "up"}
  /\ sequence \in Nat /\ runs \in 0..MaxRuns /\ sessions \in Nat /\ signals \in Nat
  /\ abandonRequested \in BOOLEAN /\ unsettled \in BOOLEAN
  /\ DOMAIN calls = Calls
  /\ Valid(state)
  /\ kept = None \/ Valid(kept)

(* The comparison of sequence numbers says exactly whether the last gate    *)
(* passed and began after every seen change of the run's sources had ended, *)
(* also in a run restored after a crash (run-kernel-state.ts applyReceipt). *)
Tells(s) ==
  /\ s.mutationEnd = 0 <=> "seen" \notin s.touched
  /\ s.mutationEnd # 0 => (s.validAfterMutation <=> "seen" \notin s.exposure)

ValidMeansCovered == Tells(state)

(* Whatever order its calls, signals, compactions and restarts came in, a   *)
(* run becomes complete only when the last gate covers all that changed its *)
(* sources, but for what the kernel did not see change them: failed         *)
(* commands, which settle leaves out (run-kernel-state.ts 255-261), lost    *)
(* results, and changes since a resumed state was kept.                     *)
CompleteIsEarned ==
  [][state.status # "complete" /\ state'.status = "complete" /\ process = "up" =>
       state'.exposure \subseteq {"unseen"}]_vars
=============================================================================
