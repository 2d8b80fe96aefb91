----------------------------- MODULE VerifyGate -----------------------------
(***************************************************************************)
(* The verification gate (harness/extensions/verify-gate.ts) in its        *)
(* default mode, VERIFY_EXECUTION_ORDER=execution, over the clock of       *)
(* VerificationOrder.                                                      *)
(*                                                                         *)
(* The gate watches the tool calls of the agent.  It remembers whether the *)
(* project was changed (mutated) and whether the exact project gate passed *)
(* since (verifiedOk); while the first holds without the second it nags at *)
(* a text-only turn and warns when the agent ends.                         *)
(*                                                                         *)
(* Calls of one turn run concurrently.  The host issues, refuses, runs and *)
(* ends them; it may lose a start event (the call then runs unobserved) or *)
(* an end event, and delivers neither once the turn_end of the call's turn *)
(* has begun.  A refusal may reach the gate before the start event of the  *)
(* call.                                                                   *)
(***************************************************************************)
EXTENDS VerificationOrder

CONSTANTS MaxFires,      \* VERIFY_GATE_MAX_FIRES, 3 by default
          MaxPrevented,  \* 128 in the code
          HasGate,       \* whether an exact project gate was detected
          Tools          \* the tools the environment uses, a subset of AllTools

(* A "gate_command" is a shell command that runs a gate and changes nothing. *)
AllTools == {"edit", "shell", "verify_project", "gate_command", "other"}

ASSUME ToolsKnown == Tools \subseteq AllTools
ASSUME FiresLimit == MaxFires \in Nat \ {0} /\ MaxPrevented \in Nat \ {0}
ASSUME GateFlag   == HasGate \in BOOLEAN

VARIABLES
  clock,                 \* order
  mutated, verifiedOk, fires, sessionFires, nagAwaitingEvidence,      \* st
  mutationEpochBaseline, \* the st to restore if nothing was changed
  mutationEpochChanged,
  preventedBeforeStart,  \* refused calls whose start has not been seen
  \* the host
  tool,                  \* the tool of an issued call
  phase,                 \* how far a call has got
  started,               \* the calls whose start event was delivered
  ended,                 \* the calls whose end event was delivered
  turnCalls,             \* the tool calls of the assistant message
  todo,                  \* what turn_end has still to look at
  turnPhase,             \* "open", or "ending" inside the turn_end handler
  \* history variables: what really happened to the working tree
  since,                 \* for a gate that runs, who wrote since it began
  stale,                 \* who wrote since the accepted gate began
  failedEdits,           \* edits whose failure the gate was told of
  owed                   \* mutations counted by pendingMutations

clockVars == <<clock, preventedBeforeStart, mutationEpochBaseline,
               mutationEpochChanged>>
stVars    == <<mutated, verifiedOk, fires, sessionFires, nagAwaitingEvidence>>
hostVars  == <<tool, phase, started, ended, turnCalls, todo, turnPhase>>
treeVars  == <<since, stale, failedEdits>>
vars      == <<clockVars, stVars, hostVars, treeVars, owed>>

NoBaseline == [mutated |-> FALSE, verifiedOk |-> FALSE, fires |-> 0,
               live |-> FALSE]
Baselines  == [mutated: BOOLEAN, verifiedOk: BOOLEAN, fires: 0..MaxFires,
               live: BOOLEAN]

Phases == {"idle", "issued", "running", "returned", "refused"}

(* With no detectable gate one nudge is enough.                            *)
SessionCap == IF HasGate THEN MaxFires * 3 ELSE 1

TypeOK ==
  /\ clock \in Clocks
  /\ Cardinality(PendingCalls(clock.pending)) =< MaxPending
  /\ Len(clock.completed) =< MaxCompleted
  /\ mutated \in BOOLEAN /\ verifiedOk \in BOOLEAN
  /\ fires \in 0..MaxFires /\ sessionFires \in 0..SessionCap
  /\ nagAwaitingEvidence \in BOOLEAN
  /\ mutationEpochBaseline \in Baselines
  /\ mutationEpochChanged \in BOOLEAN
  /\ preventedBeforeStart \subseteq Calls
  /\ tool \in [Calls -> AllTools]
  /\ phase \in [Calls -> Phases]
  /\ started \subseteq Calls /\ ended \subseteq Calls
  /\ turnCalls \subseteq Calls /\ todo \subseteq turnCalls
  /\ turnPhase \in {"open", "ending"}
  /\ since \in [Calls -> SUBSET Calls] /\ stale \subseteq Calls
  /\ failedEdits \subseteq Calls /\ owed \subseteq Calls

Init ==
  /\ clock = NewClock
  /\ mutated = FALSE /\ verifiedOk = FALSE
  /\ fires = 0 /\ sessionFires = 0 /\ nagAwaitingEvidence = FALSE
  /\ mutationEpochBaseline = NoBaseline /\ mutationEpochChanged = FALSE
  /\ preventedBeforeStart = {}
  /\ tool = [c \in Calls |-> "other"] /\ phase = [c \in Calls |-> "idle"]
  /\ started = {} /\ ended = {}
  /\ turnCalls = {} /\ todo = {} /\ turnPhase = "open"
  /\ since = [c \in Calls |-> {}] /\ stale = {} /\ failedEdits = {} /\ owed = {}

-----------------------------------------------------------------------------
(* classifyStart.  It knows gates that are shell commands only; "other"    *)
(* covers reads and edits provably outside the project directory.          *)
ClassifyStart(t) == CASE t \in {"edit", "shell"} -> "source_mutation"
                      [] t = "gate_command"      -> "verification"
                      [] OTHER                   -> "other"

(* The start handler, not turn_end, knows verify_project for a gate.       *)
StartKind(t) == IF t = "verify_project" THEN "verification" ELSE ClassifyStart(t)

IsMutation(c) == ClassifyStart(tool[c]) = "source_mutation"
IsGate(c)     == StartKind(tool[c]) = "verification"

(* settleMutationEpoch(mutationCounts), given the clock after the call     *)
(* settled and what st would be otherwise.  The baseline comes back only   *)
(* when no mutation is pending and none of the epoch counted.              *)
SettleMutationEpoch(clk, counts, mut, ok, f) ==
  LET changed == mutationEpochChanged \/ counts
      restore == ~ changed /\ mutationEpochBaseline.live
  IN  IF HasPendingMutations(clk)
        THEN /\ mutated' = mut /\ verifiedOk' = ok /\ fires' = f
             /\ mutationEpochChanged' = changed
             /\ UNCHANGED mutationEpochBaseline
        ELSE /\ mutated'    = IF restore THEN mutationEpochBaseline.mutated ELSE mut
             /\ verifiedOk' = IF restore THEN mutationEpochBaseline.verifiedOk ELSE ok
             /\ fires'      = IF restore THEN mutationEpochBaseline.fires ELSE f
             /\ mutationEpochChanged' = FALSE
             /\ mutationEpochBaseline' = NoBaseline

-----------------------------------------------------------------------------
(* The host.  The model asks for a call, and the call runs.                *)
Issue(c, t) ==
  /\ turnPhase = "open" /\ phase[c] = "idle"
  /\ phase' = [phase EXCEPT ![c] = "issued"]
  /\ tool' = [tool EXCEPT ![c] = t]
  /\ turnCalls' = turnCalls \cup {c}
  /\ UNCHANGED <<clockVars, stVars, treeVars, owed, started, ended, todo, turnPhase>>

(* A call that runs before its start event was delivered is one whose      *)
(* start event is lost.                                                    *)
Run(c) ==
  /\ phase[c] = "issued"
  /\ phase' = [phase EXCEPT ![c] = "running"]
  /\ UNCHANGED <<clockVars, stVars, treeVars, owed, tool, started, ended,
                 turnCalls, todo, turnPhase>>

GateRuns(c) == IsGate(c) /\ phase[c] \in {"running", "returned"} /\ c \notin ended

Write(c) ==
  /\ phase[c] = "running" /\ IsMutation(c)
  /\ since' = [g \in Calls |-> IF GateRuns(g) THEN since[g] \cup {c} ELSE since[g]]
  /\ stale' = stale \cup {c}
  /\ UNCHANGED <<clockVars, stVars, hostVars, failedEdits, owed>>

Return(c) ==
  /\ phase[c] = "running"
  /\ phase' = [phase EXCEPT ![c] = "returned"]
  /\ UNCHANGED <<clockVars, stVars, treeVars, owed, tool, started, ended,
                 turnCalls, todo, turnPhase>>

-----------------------------------------------------------------------------
(* At most MaxPrevented refusals are remembered; which one is dropped is   *)
(* left open (the code drops the oldest).                                  *)
RememberPrevented(c) ==
  LET all == preventedBeforeStart \cup {c} IN
    IF Cardinality(all) > MaxPrevented
      THEN \E d \in preventedBeforeStart : preventedBeforeStart' = all \ {d}
      ELSE preventedBeforeStart' = all

(* A tool_call hook of the harness refuses the call and signals            *)
(* tool/prevented.                                                         *)
ToolPrevented(c) ==
  /\ phase[c] = "issued" /\ turnPhase = "open"
  /\ phase' = [phase EXCEPT ![c] = "refused"]
  /\ LET after == Prevent(clock, c) IN
       /\ clock' = after
       /\ IF ~ CanSettle(clock, c)
            THEN /\ RememberPrevented(c)
                 /\ UNCHANGED <<mutated, verifiedOk, fires, mutationEpochBaseline,
                                mutationEpochChanged, owed>>
            ELSE /\ UNCHANGED preventedBeforeStart
                 /\ owed' = owed \ {c}
                 /\ IF KindFor(clock, c) = "source_mutation"
                      THEN SettleMutationEpoch(after, FALSE, mutated, verifiedOk, fires)
                      ELSE UNCHANGED <<mutated, verifiedOk, fires,
                                       mutationEpochBaseline, mutationEpochChanged>>
  /\ UNCHANGED <<sessionFires, nagAwaitingEvidence, treeVars, tool, started, ended,
                 turnCalls, todo, turnPhase>>

(* A started mutation disarms the green at once, remembering what to put   *)
(* back; a start whose refusal came first is prevented in the same step.   *)
ToolExecutionStart(c) ==
  /\ phase[c] \in {"issued", "refused"} /\ turnPhase = "open"
  /\ c \in turnCalls /\ c \notin started \cup ended
  /\ started' = started \cup {c}
  /\ LET kind      == StartKind(tool[c])
         arming    == kind = "source_mutation" /\ CanStart(clock, c)
         opening   == arming /\ ~ HasPendingMutations(clock)
         running   == Start(clock, c, kind)
         refusal   == c \in preventedBeforeStart
         prevented == refusal /\ CanSettle(running, c)
     IN
       /\ preventedBeforeStart' = preventedBeforeStart \ {c}
       /\ clock' = IF refusal THEN Prevent(running, c) ELSE running
       /\ owed' = IF arming /\ ~ prevented THEN owed \cup {c} ELSE owed
       /\ CASE kind # "source_mutation" \/ ~ CanStart(clock, c) ->
                 UNCHANGED <<mutated, verifiedOk, fires, mutationEpochBaseline,
                             mutationEpochChanged>>
            [] arming /\ prevented ->
                 \* armed, then settled as a mutation that never ran
                 IF opening
                   THEN /\ UNCHANGED <<mutated, verifiedOk, fires>>
                        /\ mutationEpochBaseline' = NoBaseline
                        /\ mutationEpochChanged' = FALSE
                   ELSE SettleMutationEpoch(clock', FALSE, mutated, FALSE, 0)
            [] arming /\ ~ prevented ->
                 /\ verifiedOk' = FALSE /\ fires' = 0
                 /\ UNCHANGED mutated
                 /\ IF opening
                      THEN /\ mutationEpochBaseline' =
                                [mutated |-> mutated, verifiedOk |-> verifiedOk,
                                 fires |-> fires, live |-> TRUE]
                           /\ mutationEpochChanged' = FALSE
                      ELSE UNCHANGED <<mutationEpochBaseline, mutationEpochChanged>>
  /\ UNCHANGED <<sessionFires, nagAwaitingEvidence, treeVars, tool, phase, ended,
                 turnCalls, todo, turnPhase>>

(* A call may fail whether or not it wrote: verification-order.ts:54-57    *)
(* says so of a shell command and of a built-in tool alike.                *)
PossibleErrors(c) == {e \in BOOLEAN : phase[c] = "refused" => e}

(* Mutant: a shell command that failed is taken to have written nothing.   *)
MutationCountsOnSuccess(c, isError) == ~ isError

(* The failure of a built-in edit is taken for atomic.                     *)
MutationCounts(c, isError) == ~ isError \/ tool[c] = "shell"

ToolExecutionEnd(c, isError) ==
  /\ phase[c] \in {"returned", "refused"} /\ turnPhase = "open"
  /\ c \in turnCalls /\ c \notin ended
  /\ ended' = ended \cup {c}
  /\ LET kind    == KindFor(clock, c)
         after   == Finish(clock, c)
         counts  == kind = "source_mutation" /\ MutationCounts(c, isError)
         valid   == ~ isError /\ VerificationOrdered(clock, c)
     IN
       /\ clock' = after
       /\ owed' = IF CanSettle(clock, c) THEN owed \ {c} ELSE owed
       /\ CASE ~ CanSettle(clock, c) \/ kind = "other" ->
                 UNCHANGED <<mutated, verifiedOk, fires, mutationEpochBaseline,
                             mutationEpochChanged, stale, failedEdits>>
            [] CanSettle(clock, c) /\ kind = "verification" ->
                 /\ verifiedOk' = valid
                 /\ stale' = IF valid THEN since[c] ELSE stale
                 /\ UNCHANGED <<mutated, fires, mutationEpochBaseline,
                                mutationEpochChanged, failedEdits>>
            [] CanSettle(clock, c) /\ kind = "source_mutation" ->
                 /\ SettleMutationEpoch(after, counts, mutated \/ counts,
                                        verifiedOk /\ ~ counts, fires)
                 /\ failedEdits' = IF isError /\ tool[c] = "edit"
                                     THEN failedEdits \cup {c} ELSE failedEdits
                 /\ UNCHANGED stale
  /\ since' = [since EXCEPT ![c] = {}]
  /\ UNCHANGED <<sessionFires, nagAwaitingEvidence, preventedBeforeStart, tool,
                 phase, started, turnCalls, todo, turnPhase>>

-----------------------------------------------------------------------------
(* turn_end looks at the calls of the transcript one at a time, with an    *)
(* await before each.                                                      *)
TurnEndBegin ==
  /\ turnPhase = "open"
  /\ \A c \in turnCalls : phase[c] \in {"returned", "refused"}
  /\ turnPhase' = "ending" /\ todo' = turnCalls
  /\ UNCHANGED <<clockVars, stVars, treeVars, owed, tool, phase, started, ended,
                 turnCalls>>

(* A call the events did not complete is not evidence of success: a        *)
(* mutation arms the gate and stays pending, a gate that is a shell        *)
(* command revokes the green.                                              *)
TurnEndCall(c) ==
  /\ turnPhase = "ending" /\ c \in todo
  /\ todo' = todo \ {c}
  /\ LET kind   == ClassifyStart(tool[c])
         unseen == ~ HasCompleted(clock, c)
         arms   == unseen /\ kind = "source_mutation"
     IN
       /\ clock' = IF unseen THEN Start(clock, c, kind) ELSE clock
       /\ owed' = IF arms THEN owed \cup {c} ELSE owed
       /\ mutated' = (mutated \/ arms)
       /\ verifiedOk' = (verifiedOk /\ ~ (unseen /\ kind # "other"))
       /\ fires' = IF arms THEN 0 ELSE fires
  /\ UNCHANGED <<sessionFires, nagAwaitingEvidence, preventedBeforeStart,
                 mutationEpochBaseline, mutationEpochChanged, treeVars, tool, phase,
                 started, ended, turnCalls, turnPhase>>

Nags(wrappingUp, planPhaseActive) ==
  /\ wrappingUp /\ ~ nagAwaitingEvidence
  /\ mutated /\ ~ verifiedOk
  /\ fires < MaxFires /\ sessionFires < SessionCap
  /\ ~ planPhaseActive

TurnEndFinish(planPhaseActive) ==
  /\ turnPhase = "ending" /\ todo = {}
  /\ turnPhase' = "open" /\ turnCalls' = {}
  /\ LET wrappingUp == turnCalls = {} IN
       IF Nags(wrappingUp, planPhaseActive)
         THEN /\ fires' = fires + 1 /\ sessionFires' = sessionFires + 1
              /\ nagAwaitingEvidence' = TRUE
         ELSE /\ nagAwaitingEvidence' = (nagAwaitingEvidence /\ wrappingUp)
              /\ UNCHANGED <<fires, sessionFires>>
  /\ UNCHANGED <<clockVars, mutated, verifiedOk, treeVars, owed, tool, phase, started,
                 ended, todo>>

(* A new, forked or resumed session forgets everything; the host starts    *)
(* one between turns.                                                      *)
SessionStart ==
  /\ turnPhase = "open" /\ turnCalls = {}
  /\ clock' = NewClock
  /\ mutated' = FALSE /\ verifiedOk' = FALSE
  /\ fires' = 0 /\ sessionFires' = 0 /\ nagAwaitingEvidence' = FALSE
  /\ mutationEpochBaseline' = NoBaseline /\ mutationEpochChanged' = FALSE
  /\ preventedBeforeStart' = {}
  /\ since' = [c \in Calls |-> {}] /\ stale' = {} /\ failedEdits' = {} /\ owed' = {}
  /\ UNCHANGED hostVars

Next ==
  \/ \E c \in Calls : \/ \E t \in Tools : Issue(c, t)
                      \/ Run(c) \/ Write(c) \/ Return(c)
                      \/ ToolPrevented(c) \/ ToolExecutionStart(c)
                      \/ \E e \in PossibleErrors(c) : ToolExecutionEnd(c, e)
                      \/ TurnEndCall(c)
  \/ TurnEndBegin
  \/ \E p \in BOOLEAN : TurnEndFinish(p)
  \/ SessionStart

Spec == Init /\ [][Next]_vars

-----------------------------------------------------------------------------
(* A call nobody announced: its start event was lost and turn_end has not  *)
(* looked at it yet.  The gate cannot know of its writes.                  *)
Unseen(c) == /\ c \in turnCalls /\ c \notin started
             /\ turnPhase = "open" \/ c \in todo

(* A green means the tree is as the accepted gate found it: whoever wrote  *)
(* since that gate began, whatever overlapped, was refused or was reported *)
(* out of order, is either unannounced yet or an edit that reported a      *)
(* failure, whose green is restored as if it had been atomic (finish,      *)
(* applyOrderedOutcome and settleMutationEpoch together).                  *)
GreenIsFresh == verifiedOk => \A c \in stale : Unseen(c) \/ c \in failedEdits

(* The warning of agent_end.                                               *)
Warns == mutated /\ ~ verifiedOk

(* Between turns a tree written and not verified since is warned about,    *)
(* unless every writer was an edit that reported a failure: no restored    *)
(* baseline, trimmed entry or lost event hides any other write.            *)
HandoffSound ==
  turnPhase = "open" /\ turnCalls = {} /\ ~ (stale \subseteq failedEdits) => Warns

(* While a mutation has started and not settled, or its events are         *)
(* missing, the project is never green: pendingMutations never falls below *)
(* the mutations it stands for, although it is trimmed and clamped at 0.   *)
NoGreenWhileOwed == owed # {} => ~ verifiedOk
=============================================================================
