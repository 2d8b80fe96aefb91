----------------------------- MODULE Compaction -----------------------------
(***************************************************************************)
(* Three extensions of one process compact the context: the model's tool   *)
(* compact_context, the handoff of runtime-truth.ts, which finds the       *)
(* context too large for the model, and the recovery of                    *)
(* context-admission.ts, which refused a request.  They share one slot     *)
(* (compaction-coordinator.ts).  ctx.compact() returns at once; Pi reports *)
(* the committed compaction as an event and the end of it as a callback,   *)
(* which may come twice, or after the session was replaced.                *)
(*                                                                         *)
(* The latches of a call's closure, settled and finished, are its at.  The *)
(* coordinator's generation is the session's number: both count the        *)
(* session starts.  handoffActiveKey is set and cleared with the latch     *)
(* handoffInFlight and only asked whether it is set: it is left out.       *)
(* Timings, the protocol summary and calibration are left out too.         *)
(***************************************************************************)
EXTENDS ContextBudget

CONSTANTS
  First,          \* the model of the first session
  Calls,          \* tool calls that reserve room for their output
  Payloads,       \* sizes of requests
  Margin,         \* the uncertainty of a request's size, by its size
  Usages,         \* what Pi measures after an answer
  MaxSessions,    \* bounds the session starts
  MaxRequests,    \* bounds the compactions the coordinator grants
  MaxEpoch,       \* bounds the changes of model, and of the session by a new one
  MaxCompactions  \* bounds the compactions of a session

ASSUME Bounds == /\ MaxSessions \in Nat /\ MaxRequests \in Nat /\ MaxEpoch \in Nat
                 /\ MaxCompactions \in Nat
                 /\ First \in Models /\ Payloads \subseteq Nat
                 /\ Margin \in [Payloads -> Nat] /\ Usages \subseteq Nat \ {0}

\* What a request left for its tools, and what Pi measured.
Measurements == [session : Nat, epoch : Epochs, generation : Nat, room : Int]
Readings     == [session : Nat, epoch : Epochs, over : BOOLEAN]

\* observedProfile: the model's fingerprint and window, and its epoch.
Profiles     == [epoch : Nat, model : Models, window : Windows]

ASSUME UnknownIsNoHistory == Unknown \notin Measurements \cup Readings \cup Profiles

VARIABLES
  \* Pi: its session, how far that has started, where the agent is between
  \* two events, the model, and the measured context
  session, up, at, model, usage,
  \* compaction-coordinator.ts, and the calls it granted, by request number
  active, request, call,
  \* compact-tool.ts
  inFlight,
  \* runtime-truth.ts
  profile, sessionId, prior, handoffInFlight, handoffDisarmedKey, handoffCompactedEpoch,
  \* context-admission.ts
  current, allowance, overflow, generation, pending, attempted, reserved,
  \* continuation requests emitted, by the compaction that caused them
  offers,
  \* what the allowance was computed from, and what Pi last measured
  measured, seen

pi          == <<session, up, at, model, usage>>
coordinator == <<active, request, call>>
handoff     == <<handoffInFlight, handoffDisarmedKey, handoffCompactedEpoch>>
truth       == <<profile, sessionId, prior>>
budget      == <<current, allowance, overflow, generation>>
recovery    == <<pending, attempted>>
history     == <<measured, seen>>
vars == <<pi, coordinator, inFlight, truth, handoff, budget, recovery, reserved, offers,
          history>>

Requests == 1..MaxRequests
Key(p)   == <<p.epoch, p.window>>

(* A granted call of an owner: it reads the goal before it compacts, Pi    *)
(* compacts ("running"), has committed, or has called back, and the owner  *)
(* reads the goal again before it asks to go on ("resuming").  mark is the *)
(* profile's key, or the epoch.                                            *)
NoCall == [owner |-> Unknown, at |-> "none", session |-> 0, mark |-> Unknown]

Init ==
  /\ session = 0 /\ up = "down" /\ at = "idle" /\ model = First /\ usage = Unknown
  /\ active = 0 /\ request = 0 /\ call = [n \in Requests |-> NoCall]
  /\ inFlight = FALSE
  /\ profile = Unknown /\ sessionId = Unknown /\ prior = "none"
  /\ handoffInFlight = FALSE /\ handoffDisarmedKey = Unknown
  /\ handoffCompactedEpoch = Unknown
  /\ current = Unknown /\ allowance = Unknown /\ overflow = Unknown /\ generation = 0
  /\ pending = Unknown /\ attempted = {} /\ reserved = {}
  /\ offers = [n \in Requests |-> [times |-> 0, session |-> Unknown]]
  /\ measured = Unknown /\ seen = Unknown

-----------------------------------------------------------------------------
(* The slot.                                                               *)

(* beginCompaction granted, and ctx.compact() called or about to be.       *)
Begin(owner, where, mark) ==
  /\ active = 0 /\ request < MaxRequests
  /\ request' = request + 1 /\ active' = request'
  /\ call' = [call EXCEPT ![request'] =
                [owner |-> owner, at |-> where, session |-> session, mark |-> mark]]

(* The same, and ctx.compact() threw: the slot is given back.              *)
BeginAndFail(owner, mark) ==
  /\ active = 0 /\ request < MaxRequests
  /\ request' = request + 1 /\ active' = 0
  /\ call' = [call EXCEPT ![request'] =
                [owner |-> owner, at |-> "closed", session |-> session, mark |-> mark]]

(* Mutant: whoever finishes gives the slot back.                           *)
HoldsAny(n) == active # 0

(* finishCompaction: the token is the active one.                          *)
Holds(n) == active = n

Finish(n) == active' = IF Holds(n) THEN 0 ELSE active
Become(n, where) == call' = [call EXCEPT ![n].at = where]

-----------------------------------------------------------------------------
(* runtime-truth.ts.                                                       *)

(* observeModel: another fingerprint is another context epoch.             *)
Observed(m) ==
  IF profile # Unknown /\ profile.model = m THEN profile
  ELSE [epoch |-> IF profile = Unknown THEN 0 ELSE profile.epoch + 1,
        model |-> m, window |-> Declared[m]]

(* requestHandoff, with the marks as observeModel left them.               *)
Wanted(p, disarmed, compacted) ==
  /\ ~ handoffInFlight /\ active = 0
  /\ NeedsHandoff(p.window, usage)
  /\ disarmed # Key(p) /\ compacted # p.epoch

RequestHandoff(p, disarmed, compacted) ==
  \/ /\ Wanted(p, disarmed, compacted)
     /\ handoffCompactedEpoch' = compacted
     /\ \/ /\ Begin("model-handoff", "running", Key(p))
           /\ handoffInFlight' = TRUE /\ handoffDisarmedKey' = disarmed
        \/ /\ BeginAndFail("model-handoff", Key(p))
           /\ handoffInFlight' = FALSE /\ handoffDisarmedKey' = Key(p)
  \/ /\ ~ Wanted(p, disarmed, compacted)
     /\ LET rearm == ~ handoffInFlight /\ BelowRearm(p.window, usage) IN
        /\ handoffDisarmedKey' = IF rearm /\ disarmed = Key(p) THEN Unknown ELSE disarmed
        /\ handoffCompactedEpoch' = IF rearm /\ compacted = p.epoch THEN Unknown ELSE compacted
     /\ UNCHANGED <<coordinator, handoffInFlight>>

NoHandoff(disarmed, compacted) ==
  /\ handoffDisarmedKey' = disarmed /\ handoffCompactedEpoch' = compacted
  /\ UNCHANGED <<coordinator, handoffInFlight>>

(* reset().                                                                *)
ResetTruth ==
  /\ profile' = Unknown /\ prior' = "none"
  /\ handoffInFlight' = FALSE /\ handoffDisarmedKey' = Unknown
  /\ handoffCompactedEpoch' = Unknown

-----------------------------------------------------------------------------
(* The session is replaced: the handlers of session_shutdown, then those   *)
(* of session_start in the order in which the extensions were loaded.      *)
(* Callbacks may run between them.                                         *)
SessionShutdown ==
  /\ up = "up" /\ session < MaxSessions
  /\ up' = "down" /\ at' = "idle"
  /\ ResetTruth /\ sessionId' = Unknown
  /\ reserved' = {} /\ current' = Unknown
  /\ UNCHANGED <<session, model, usage, coordinator, inFlight, allowance, overflow,
                 generation, recovery, offers, history>>

(* compact-tool.ts: resetCompactionCoordinator, and its own latch.         *)
ToolStart ==
  /\ up = "down" /\ session < MaxSessions
  /\ up' = "tool" /\ session' = session + 1 /\ usage' = Unknown
  /\ active' = 0 /\ inFlight' = FALSE
  /\ UNCHANGED <<at, model, request, call, truth, handoff, budget, recovery, reserved,
                 offers, history>>

TruthStart ==
  /\ up = "tool" /\ up' = "truth"
  /\ ResetTruth /\ sessionId' = session
  /\ UNCHANGED <<session, at, model, usage, coordinator, inFlight, budget, recovery,
                 reserved, offers, history>>

AdmissionStart ==
  /\ up = "truth" /\ up' = "up"
  /\ current' = <<model, Declared[model]>>
  /\ allowance' = Unknown /\ overflow' = Unknown /\ generation' = 0
  /\ pending' = Unknown /\ attempted' = {} /\ reserved' = {}
  /\ UNCHANGED <<session, at, model, usage, coordinator, inFlight, truth, handoff, offers,
                 history>>

-----------------------------------------------------------------------------
(* Mutant: a session that Pi compacted keeps the allowance it had.         *)
KeepAllowance == allowance' = allowance

(* What a compaction leaves of the budget.                                 *)
DropAllowance == allowance' = Unknown

(* syncEpoch: another epoch drops what was measured and reserved for the   *)
(* one before.                                                             *)
Sync(e) ==
  /\ current' = e
  /\ IF e = current
     THEN UNCHANGED <<allowance, overflow, pending, reserved, seen>>
     ELSE /\ allowance' = Unknown /\ overflow' = Unknown /\ pending' = Unknown
          /\ reserved' = Of(reserved, e) /\ seen' = Unknown

ModelSelect(m) ==
  LET p == Observed(m)
      disarmed  == IF p = profile THEN handoffDisarmedKey ELSE Unknown
      compacted == IF p = profile THEN handoffCompactedEpoch ELSE Unknown
  IN
  /\ up = "up" /\ m # model /\ p.epoch + session =< MaxEpoch + 1
  /\ model' = m /\ profile' = p
  /\ IF profile # Unknown /\ p # profile /\ prior # "none"
     THEN RequestHandoff(p, disarmed, compacted)
     ELSE NoHandoff(disarmed, compacted)
  /\ Sync(EpochKey(p))
  /\ UNCHANGED <<session, up, at, usage, inFlight, sessionId, prior, generation, attempted,
                 offers, measured>>

-----------------------------------------------------------------------------
(* Mutant: no measurement stands for room.                                 *)
ObservationFresh(e) ==
  IF usage # Unknown
  THEN [tokens |-> usage, epoch |-> e, generation |-> generation, window |-> Declared[model]]
  ELSE Unknown

(* What a request is measured against besides its own size: Pi's present   *)
(* measurement, or else the last overflow.  Pi counts in the window of its *)
(* registry.                                                               *)
Observation(e) ==
  IF usage # Unknown
  THEN [tokens |-> usage, epoch |-> e, generation |-> generation, window |-> Declared[model]]
  ELSE IF e = current THEN overflow ELSE Unknown

(* Admission of a request, by context-admission.ts.                        *)
Admit(e, payload) ==
  LET o     == Observation(e)
      held  == IF e = current THEN Held(reserved, e) ELSE 0
      v     == Verdict(e, generation, payload, Margin[payload], o, held)
      fresh == usage # Unknown /\ ~ Stale(o, e, generation)
      room  == IF v = "within_budget" THEN Room(e[2], payload, Margin[payload], o)
               ELSE 0
  IN
  /\ current' = e
  /\ reserved' = IF e = current THEN reserved ELSE Of(reserved, e)
  /\ overflow' = IF fresh THEN (IF Over(o, e[2]) THEN o ELSE Unknown)
                 ELSE IF e = current THEN overflow ELSE Unknown
  /\ allowance' = room
  /\ pending' = IF v \in {"observed_budget_exceeded", "aggregate_budget_exceeded"}
                THEN <<e, payload>> ELSE Unknown
  /\ at' = IF v = "within_budget" /\ request' = request THEN "requested" ELSE "aborted"
  /\ measured' = IF v # "within_budget" THEN Unknown
                 ELSE [session |-> session, epoch |-> e, generation |-> generation, room |-> room]
  /\ seen' = IF usage # Unknown /\ e[2] = Declared[model]
             THEN [session |-> session, epoch |-> e, over |-> usage > Safe[e[2]]]
             ELSE IF e = current THEN seen ELSE Unknown

(* before_provider_request.  Whoever finds the context too large aborts.   *)
BeforeProviderRequest(payload) ==
  LET p == Observed(model)
      disarmed  == IF p = profile THEN handoffDisarmedKey ELSE Unknown
      compacted == IF p = profile THEN handoffCompactedEpoch ELSE Unknown
  IN
  /\ up = "up" /\ at \in {"idle", "ended"}
  /\ profile' = p
  /\ prior' = IF prior = "none" THEN "timed" ELSE prior
  /\ IF prior # "none" THEN RequestHandoff(p, disarmed, compacted)
                       ELSE NoHandoff(disarmed, compacted)
  /\ Admit(EpochKey(p), payload)
  /\ UNCHANGED <<session, up, model, usage, inFlight, sessionId, generation, attempted,
                 offers>>

(* The provider answers, and Pi measures the context; or it does not.      *)
AfterProviderResponse ==
  /\ up = "up" /\ at = "requested" /\ at' = "answered"
  /\ \/ usage' \in Usages /\ prior' = "observed"
     \/ UNCHANGED <<usage, prior>>
  /\ UNCHANGED <<session, up, model, coordinator, inFlight, profile, sessionId, handoff,
                 budget, recovery, reserved, offers, history>>

TurnEnd ==
  /\ up = "up" /\ at = "answered" /\ at' = "ended"
  /\ RequestHandoff(profile, handoffDisarmedKey, handoffCompactedEpoch)
  /\ UNCHANGED <<session, up, model, usage, inFlight, truth, budget, recovery, reserved,
                 offers, history>>

(* The user aborts, or Pi does before it compacts.                         *)
Abort ==
  /\ up = "up" /\ at \in {"requested", "answered", "ended"} /\ at' = "aborted"
  /\ UNCHANGED <<session, up, model, usage, coordinator, inFlight, truth, handoff, budget,
                 recovery, reserved, offers, history>>

(* agent_settled, runtime-truth.ts: it asks the server for its window.     *)
Settle ==
  /\ up = "up" /\ at \in {"ended", "aborted"} /\ at' = "settling"
  /\ prior' = IF prior = "timed" THEN "none" ELSE prior
  /\ \/ /\ prior = "observed" /\ profile # Unknown
        /\ profile' = [profile EXCEPT !.window = Served[profile.model]]
        /\ IF NeedsHandoff(profile'.window, usage)
           THEN RequestHandoff(profile', handoffDisarmedKey, handoffCompactedEpoch)
           ELSE UNCHANGED <<coordinator, handoff>>
     \/ UNCHANGED <<profile, coordinator, handoff>>
  /\ UNCHANGED <<session, up, model, usage, inFlight, sessionId, budget, recovery, reserved,
                 offers, history>>

(* agent_settled, context-admission.ts: one recovery for what it refused.  *)
Settled ==
  /\ up = "up" /\ at = "settling" /\ at' = "idle" /\ reserved' = {}
  /\ \/ /\ pending # Unknown /\ pending \notin attempted /\ pending[1] = current
        /\ \/ Begin("context-admission", "running", current) /\ UNCHANGED allowance
           \/ BeginAndFail("context-admission", current) /\ allowance' = Unknown
        /\ attempted' = attempted \cup {pending} /\ pending' = Unknown
     \/ /\ \/ pending = Unknown \/ pending \in attempted
           \/ pending # Unknown /\ pending[1] # current
           \/ active # 0
        /\ UNCHANGED <<coordinator, recovery, allowance>>
  /\ UNCHANGED <<session, up, model, usage, inFlight, truth, handoff, current, overflow,
                 generation, offers, history>>

-----------------------------------------------------------------------------
(* Tools, while an answer is carried out.                                  *)
Reserve(id, tokens) ==
  /\ up = "up" /\ at = "answered" /\ current # Unknown /\ allowance # Unknown
  /\ Grants(reserved, id, current, tokens, allowance)
  /\ reserved' = reserved \cup {[id |-> id, epoch |-> current, tokens |-> tokens]}
  /\ UNCHANGED <<pi, coordinator, inFlight, truth, handoff, budget, recovery, offers, history>>

Release(id) ==
  /\ up = "up" /\ at \in {"answered", "ended", "aborted"}
  /\ \E r \in reserved : r.id = id
  /\ reserved' = {r \in reserved : r.id # id}
  /\ UNCHANGED <<pi, coordinator, inFlight, truth, handoff, budget, recovery, offers, history>>

CompactContext ==
  /\ up = "up" /\ at = "answered" /\ ~ inFlight
  /\ Begin("compact-tool", "reading", Unknown)
  /\ inFlight' = TRUE
  /\ UNCHANGED <<pi, truth, handoff, budget, recovery, reserved, offers, history>>

(* It has read the goal: ctx.compact(), which throws for a session that is *)
(* no longer there.                                                        *)
ToolCompacts(n) ==
  /\ call[n].at = "reading"
  /\ \/ /\ call[n].session = session /\ up = "up"
        /\ Become(n, "running") /\ UNCHANGED <<active, inFlight>>
     \/ Become(n, "closed") /\ Finish(n) /\ inFlight' = FALSE
  /\ UNCHANGED <<pi, request, truth, handoff, budget, recovery, reserved, offers, history>>

-----------------------------------------------------------------------------
(* Pi compacts.                                                            *)
Compacting(n) == call[n].at = "running" /\ call[n].session = session

(* session_compact: the entry is in the session's file.                    *)
Compacted ==
  /\ up = "up" /\ generation < MaxCompactions
  /\ generation' = generation + 1 /\ usage' = Unknown
  /\ DropAllowance
  /\ UNCHANGED <<session, up, at, model, inFlight, truth, current, overflow, recovery,
                 reserved, offers, history, active, request, handoffInFlight,
                 handoffDisarmedKey>>

Commit(n) ==
  /\ Compacting(n) /\ Become(n, "committed")
  /\ handoffCompactedEpoch' =
       IF active # 0 /\ call[active].owner = "model-handoff" /\ handoffInFlight
          /\ profile # Unknown
       THEN profile.epoch ELSE handoffCompactedEpoch
  /\ Compacted

(* Pi's own compaction, at its threshold, or the user's.                   *)
PiCompacts ==
  /\ \A n \in Requests : ~ Compacting(n)
  /\ Compacted /\ UNCHANGED <<call, handoffCompactedEpoch>>

(* Mutant: every callback is taken.                                        *)
SettledNever(n) == FALSE

(* settled of a tool call, finished of a handoff.                          *)
HasSettled(n) == call[n].at \in {"resuming", "closed"}

(* onComplete of a committed compaction or onError of any; perhaps again.  *)
CallsBack(n, ok) ==
  /\ call[n].at \in {"running", "committed", "resuming", "closed"}
  /\ ok => call[n].at # "running"
  /\ ~ HasSettled(n)

ToolBack(n, ok) ==
  /\ call[n].owner = "compact-tool" /\ CallsBack(n, ok)
  /\ Finish(n)
  /\ Become(n, IF Holds(n) THEN "resuming" ELSE "closed")
  /\ inFlight' = (inFlight /\ ~ Holds(n))
  /\ UNCHANGED <<pi, request, truth, handoff, budget, recovery, reserved, offers, history>>

(* finish of requestHandoff: a committed handoff counts, lease or not.     *)
HandoffBack(n, ok) ==
  LET committed == handoffCompactedEpoch = call[n].mark[1]
      counts    == Holds(n) \/ committed
  IN
  /\ call[n].owner = "model-handoff" /\ CallsBack(n, ok)
  /\ handoffInFlight' = FALSE /\ Finish(n)
  /\ Become(n, IF counts /\ (ok \/ committed) THEN "resuming" ELSE "closed")
  /\ handoffDisarmedKey' = IF counts THEN call[n].mark ELSE handoffDisarmedKey
  /\ UNCHANGED <<pi, request, inFlight, truth, handoffCompactedEpoch, budget, recovery,
                 reserved, offers, history>>

RecoveryBack(n, ok) ==
  /\ call[n].owner = "context-admission" /\ CallsBack(n, ok)
  /\ Finish(n) /\ Become(n, "closed")
  /\ allowance' = IF Holds(n) /\ call[n].mark = current THEN Unknown ELSE allowance
  /\ UNCHANGED <<pi, request, inFlight, truth, handoff, current, overflow, generation,
                 recovery, reserved, offers, history>>

(* The session a continuation request names: the tool's is the one it was  *)
(* called in, the handoff's the one that has started by now.               *)
Named(n) == IF call[n].owner = "compact-tool" THEN call[n].session ELSE sessionId

(* It has read the goal again and asks to go on, unless runtime-truth.ts   *)
(* has no session now.  A paused goal, or no dispatcher, would keep it     *)
(* from asking: every permission is taken here.                            *)
Resume(n) ==
  /\ call[n].at = "resuming" /\ Become(n, "closed")
  /\ offers' = IF Named(n) = Unknown THEN offers
               ELSE [offers EXCEPT ![n] = [times |-> @.times + 1, session |-> Named(n)]]
  /\ UNCHANGED <<pi, active, request, inFlight, truth, handoff, budget, recovery, reserved,
                 history>>

-----------------------------------------------------------------------------
Next ==
  \/ SessionShutdown \/ ToolStart \/ TruthStart \/ AdmissionStart
  \/ \E m \in Models : ModelSelect(m)
  \/ \E payload \in Payloads : BeforeProviderRequest(payload)
  \/ AfterProviderResponse \/ TurnEnd \/ Abort \/ Settle \/ Settled
  \/ \E id \in Calls, tokens \in Payloads : Reserve(id, tokens)
  \/ \E id \in Calls : Release(id)
  \/ CompactContext \/ PiCompacts
  \/ \E n \in Requests : ToolCompacts(n) \/ Commit(n) \/ Resume(n)
  \/ \E n \in Requests, ok \in BOOLEAN : ToolBack(n, ok) \/ HandoffBack(n, ok) \/ RecoveryBack(n, ok)

Spec == Init /\ [][Next]_vars

-----------------------------------------------------------------------------
(* A call of this session that has not called back.                        *)
Live(n) == call[n].at \in {"reading", "running", "committed"} /\ call[n].session = session

(* The slot is held exactly by the one compaction of this session that is  *)
(* under way, whatever an earlier session left behind; and neither latch   *)
(* outlives the compaction it stands for, which would turn the extension   *)
(* off for the rest of the session (runtime-truth.ts, finish).             *)
SlotAgrees ==
  /\ \A n \in Requests : Live(n) <=> (active = n)
  /\ inFlight => active # 0 /\ call[active].owner = "compact-tool"
  /\ handoffInFlight => \E n \in Requests : /\ call[n].owner = "model-handoff"
                                            /\ call[n].at \in {"running", "committed"}

(* A compaction asks to go on at most once, however often Pi calls back,   *)
(* and compact_context asks for no session but its own (resume).           *)
OneResume ==
  \A n \in Requests :
    /\ offers[n].times =< 1
    /\ offers[n].times = 1 /\ call[n].owner = "compact-tool" => offers[n].session = call[n].session

(* Once a measurement was over the budget, no request of the same epoch is *)
(* let through until a newer measurement is within it: neither silence nor *)
(* a compaction stands for room (before_provider_request).  A measurement  *)
(* against another window than the server's is refused and not kept.       *)
OverflowRemembered ==
  at = "requested" =>
    ~ (seen # Unknown /\ seen.session = session /\ seen.epoch = current /\ seen.over)

(* Room for the output of a tool is granted only out of what the last      *)
(* request left, in the same session and epoch and with no compaction      *)
(* since, and the grants that are held together fit in it (reserve,        *)
(* session_compact).  A grant is released when its tool has ended.         *)
CertifiedReservation ==
  [][\A r \in reserved' \ reserved :
       /\ measured # Unknown
       /\ measured.session = session /\ measured.epoch = r.epoch
       /\ measured.generation = generation
       /\ Held(reserved', r.epoch) =< measured.room]_vars
=============================================================================
