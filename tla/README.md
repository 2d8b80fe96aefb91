# pi-munchkin in TLA+

pi-munchkin is a harness around the coding agent Pi: some forty extensions that
listen to Pi's events (a session starts, the agent starts a turn, a tool starts and
ends, the agent settles), keep state in memory, in the session file and in a
private directory, and act back on the agent with tools, refusals, nags and further
turns. This directory holds the specifications of the parts of `harness/` whose
correctness depends on the order of things, the TLC models that check them, and
proofs of the main properties. Paths below are relative to the repository's root;
`lib/` and `extensions/` stand for `harness/lib/` and `harness/extensions/`.

Check a model with `tlc -config X.cfg MCX.tla`, the proofs with `tlapm XProofs.tla`
(`GateProofs` is about `VerifyGate` and `GateReuse`, `PlanProofs` about `PlanItems` and
`PlanLock`, the others about the module of their name).

## 1. Inventory

JavaScript is single-threaded, so what runs between two `await`s is atomic; the
hazards are in what happens between awaits, between event handlers, and between
processes that share files. Several Pi processes may serve one repository.

| Component | State | Operations | Interacts with | What must hold |
|---|---|---|---|---|
| **Verification gate** (`extensions/verify-gate.ts`, `lib/verification-order.ts`) | the execution clock (`sequence`, `pending`, `completed`, `pendingMutations`, `latestMutationBoundary`), `st`, the baseline of the mutation epoch, the refused calls | tool start / end / refusal, `turn_end`, session start and end of the agent | every tool call; the command policy classifies it; Pi may run calls concurrently, lose, trim or reorder their events | a green describes the tree as it is; an unverified tree is warned about (both but for what an edit that failed has written, section 4) |
| **Gate result reuse** (same file, `lib/tree-fingerprint.ts`, `lib/gate-runtime.ts`) | `changeEpoch`, `lastGate` | `verify_project`, with three awaits; tools that may change files | concurrent calls of itself, writers, the gate's own writes, the user | a reused answer is the answer of the tree the caller meets |
| **Plan items** (`lib/planning-runtime.ts`, `lib/plan-*.ts`) | the persisted plan: items with status, dependencies, parents; phase; settlement | `/plan`, `/plan-go`, `/plan-cancel`, `plan_write`, `plan_update`, `plan_expand`, `plan_settle`, restart | the plan lock, the goal, research dispatch | order of dependencies, one item at a time, no silent standstill, no lost work |
| **Cross-process plan lock** (`lib/planning-runtime.ts`) | the lock file, the plan file | acquire, steal a dead owner's lock, read-modify-write, release | other processes, which may die | mutual exclusion, no lost update, recovery |
| **Continuation dispatcher** (`extensions/control-arbiter.ts`, `lib/continuation-authority.ts`) | offers, delivered owner revisions (receipts in the session file), the turn budget, the flush's lock, the stop after an abort | offers, `flushContinuations` (two awaits per candidate), session, compaction and agent events | goal, compaction resume, drift review and delegated results offer; Pi starts runs | one delivery per owner revision, a bounded number of turns, no revoked turn, an abort stays an abort |
| **Goal ledger** (`lib/goal-state.ts`, `goal-service.ts`, `private-state-lock.ts`) | the ledger's file with up to 64 goals, their criteria, a pending settlement; a lock directory | five tools of the model, seven commands of the user, each a transaction under the lock | dispatcher, plan, other processes | one ledger changed by one operation at a time; one open goal, settled by the rules, for good |
| **Research rounds and ledger** (`lib/research-round.ts`, `research-aggregate.ts`, `research-reservations.ts`) | the run's aggregate: phase, deadline, a ledger of allocated, reserved and used calls, receipts, coverage, conflicts, children | authorize, record, note, extend, cancel, finish; a timer; each a commit under the aggregate's lock | web tools, subagents, the plan, other processes | the budget adds up; a settled run is at rest and its evidence frozen |
| **Research dispatch** (`lib/research-dispatch-service.ts`, `planning-runtime.ts`) | leases in the plan's branches | lease, give back, report, fail, interrupt, settle | rounds, the subagent runner, session starts | no child runs unpaid, no late report counts |
| **Web tools** (`extensions/ketch.ts`) | what a call read before its request | deadline check, authorization, request, receipt | rounds | a call is paid for once |
| **Compaction and context admission** (`lib/compaction-coordinator.ts`, `extensions/compact-tool.ts`, `runtime-truth.ts`, `context-admission.ts`, `lib/context-accounting.ts`) | the slot of the compaction under way, latches of the handoff and of the recovery, usage of the context, reservations, what was observed to overflow | the tool `compact_context`, the handoff near the limit, admission of a request, Pi's callbacks, model changes, sessions | dispatcher, Pi, the goal | one compaction at a time, the slot never outlives it, one resume; a request that does not fit is not sent |
| **Run kernel** (`extensions/run-kernel.ts`, `lib/run-kernel-state.ts`, `-events.ts`, `-receipts.ts`) | a reducer's state per run, sequence numbers of the last change and of the last gate, receipts of calls | every event of Pi and signals of other extensions; restoring from a snapshot | every extension's signals | a gate that counts covers the changes; no run completes over an unverified one (of those it saw succeed, section 4) |
| **Run capsule** (`extensions/run-capsule.ts`, `lib/run-capsule-store.ts`) | a queue of checkpoints, files and session entries, the brief owed after a compaction | checkpoint at each boundary, restore, brief, abandon | kernel, compaction, the file system | a change of phase is written before its boundary returns; one brief per compaction |
| Control arbiter queue (`lib/control-arbiter.ts`) | proposals of one boundary, charges | `add`, `decide`, `delivered` | every advisory extension | one intervention per boundary, charged when delivered |
| Loop breaker (`extensions/loop-breaker.ts`, `lib/failure-episodes.ts`) | an escalation ladder per failure | outcomes of calls | arbiter queue | escalates once, resets on progress |
| Anchored edits (`extensions/hashline.ts`) | anchors per read | read, edit | the tree | a stale anchor is refused |
| Telemetry (`lib/telemetry-writer.ts`) | a bounded queue | record, flush, close | all | bounded, drops are counted |
| Tool activation, life cycle of extensions | the active tool set, subscriptions | reload, activate | Pi | one subscription, no lost tool |
| Drift scanner, working memory, blackboard, visual observation, subagent runner, context reduction, command policy | mostly text, processes and network | | | |
| Session start, receipts, small guards; `optimizer/`, `scripts/`, `skills/` | little or none | | | |

What is in bold is modelled, wholly or for the most part. `PROJECT.json` lists every
component with its files and how much of it is modelled, and every hazard with its
line and the properties that watch it.

## 2. Plan

In order of what a wrong step costs: the evidence that work is verified, the plan the
work follows, who may start more work, what is paid for, and what survives a
compaction or a crash.

1. *Done.* `VerificationOrder` → `VerifyGate`; `GateReuse`; `PlanItems`; `PlanLock`;
   `Continuation` → `ContinuationHistory`; all with proofs.
2. *Done.* `GoalLedger` (the reducers), `GoalLifecycle` (the abstract ledger) and
   `GoalStore` (processes, lock and file), with proofs.
3. *Done.* `ResearchLedger` → `Research`: the rounds, the web calls and the leases of
   the branches in one model, with proofs.
4. *Done.* `ContextBudget` → `Compaction`; `RunState` → `RunKernel`; `RunCapsule`; all
   with proofs.
5. *Left.* The arbiter's queue with the loop breaker and the plateau that feed it:
   proposals, merges, the charge on delivery. `GoalStore` with the dispatcher, whose
   `Revise` stands for a change of the goal. Hashline's anchors, the telemetry queue,
   the active tool set.

## 3. Modules

Definitions keep the names of the source where TLA+ allows it. History variables,
which no action reads, say what really happened (to the tree, to an offer); they
are marked as such where they are declared. An operator whose comment begins with
*Mutant* is a plausible mistake in the definition after it and is used by no
specification.

### VerificationOrder, VerifyGate

`VerificationOrder` is the class `VerificationOrderClock`: a clock is a record, each
method an operator from clock to clock. Stamps are numbers, the two collections are
bounded by `MaxPending` (512 in the code) and `MaxCompleted` (2048) and trimmed as
there. `VerifyGate` has one action per handler of `verify-gate.ts` in its default
mode (`VERIFY_EXECUTION_ORDER=execution`): `ToolExecutionStart`, `ToolExecutionEnd`,
`ToolPrevented`, `SessionStart`; `turn_end`, which awaits for each call of the
message, is `TurnEndBegin`, `TurnEndCall` per call and `TurnEndFinish`. `Issue`,
`Run`, `Write` and `Return` are the host and the tool. `ClassifyStart` is
`classifyStart`, which both `turn_end` and the start handler ask; that
`verify_project` is a gate only the start handler knows (`StartKind`), so a
`verify_project` whose events were lost is nothing to `turn_end`.

Any call may write and then fail or succeed, and may fail without having written
(`PossibleErrors`). The code is of two minds about that: `verification-order.ts:54-57`
says that a built-in tool may fail after touching the filesystem,
`verify-gate.ts:436-440` that such a failure is atomic, and `MutationCounts` follows the
second. The history `failedEdits` keeps the edits that reported a failure; the two
properties that depend on it name them (section 4).

Assumed of Pi: a tool's implementation runs only after its start handler returned,
or the start event was lost; neither event of a call is delivered once the
`turn_end` of its turn has begun; `session_start` comes between turns.

### GateReuse

`verify_project`'s `execute` between its awaits: `Begin` (reads the epoch and asks
for a fingerprint), `Fingerprint`, `Decide` (reuse or run), `Test`, `Ended`,
`FingerprintAgain`, `Record`, `Return`. A tree is what git sees and what git ignores;
a fingerprint covers the first alone and may be unknown. Writers write while they
run, and calls and writers overlap in every way; the gate itself may write;
`BeforeAgentStart` is the user's turn. A gate that runs to its end is deterministic, so
its answer is represented by the tree it was found on. One that is cut short, by its
time limit or the abort signal, gives an answer that speaks of no tree (`NoTree`); the
code records it, and reuses it, as any other.

Assumed: a gate that changes visible files leaves contents not seen before; what it
leaves in ignored files does not influence it; a fingerprint is taken in one step.
The history `lateWrite` says that a writer wrote in an epoch in which a call had already
begun: it was running before the call and the epoch did not move.

### PlanItems

One action per operation on a plan without a research profile. An item is absent or
has a status, its dependencies and its parent. `PlanWrite` replaces the list as
`structuralItems` and `migrateState` do; `PlanUpdate` applies deltas;
`Acyclic` says by a ranking what `findCycle` finds by search. A tool call that
validation refuses changes nothing and is no step. `PlanStartFails` is `/plan` whose
replacement cannot be written: the old plan is gone then. `Restart` forgets
planning mode, which is in memory. `Readable` and `KeepsNoDeferred` are what
`migrateState` and `structuralItems` do to a graph plan (section 6).

### PlanLock

`acquirePlanFileLock` and `mutatePlan`, one file operation per step: create the lock
file exclusively, write the owner into it, judge an existing one stale, unlink it,
read the plan, write it, read the lock, unlink it, and `Wait` and `Retry`, the pause
between two attempts. Any process may die between two steps; a lock file without a
name grows old (`Age`). `Request` and `GiveUp` are a caller and the timeout. The history
`usurped` says that a waiter removed a lock which had taken the place of the stale one
he judged (`judged`).

### Continuation, ContinuationHistory

`flushContinuations` is `FlushStart` (or `SettleCompleted`, when a settling run calls
and awaits it), `FirstAnswer`, `SecondAnswer` and `Act`, with any handler in between;
up to `Flushes` calls exist at a time, for a reload cancels one without ending it.
The other handlers are an action each. `pending` is a set: offers of the same
producer for the same revision coalesce, as their idempotency keys make them do.
What passes with time (an offer's expiry, the twenty-minute window, a failing read)
is a choice. `UserMessage` and the `run` variable are Pi.

Assumed of Pi: sessions start and end while no run is under way; a follow-up message
sent while Pi is idle starts the next run, unless one is starting or under way, in
which case it is queued there and has no `before_agent_start` of its own; after
`continue: true` the run goes on, with or without another `agent_start`.

`ContinuationHistory` counts deliveries per session, owner and revision, counts the
harness's turns since the user spoke, and remembers whose owner changed since its
second answer.

### GoalLedger, GoalLifecycle, GoalStore

`GoalLedger` has no variables: a ledger is a sequence of goals and the id of the
current one, and each tool or command is a relation between the ledger it reads and
the one it writes (`Propose`, `Update`, `Complete`, `ProposeSettlement`, `Block`; `Goal`,
`AcceptGoal`, `AcceptSettlement`, `Resume`, `Pause`, `Cancel`). A goal has a status, the
status of each criterion and whether an 80/20 settlement is proposed; texts,
evidence, history and times are left out. An update changes one criterion; one of
several criteria is several updates. `Put` is `writeGoalUnlocked`; a write over the
ledger's limit of bytes (`goal-state.ts:615`) changes nothing and is a `Refuse` of
`GoalStore`, which may come for any reason.

`GoalLifecycle` is what users of the ledger may rely on: a single ledger to which these
operations are applied one at a time. `GoalStore` is how processes do it
(`withGoalTransaction` and `withPrivateStateLock`), a file operation per step: make
the lock directory, write `owner.json` into it, load, write and rename, read the
owner, unlink it, remove the directory. Any of these may be the last one of a
process, writing the owner may fail, and so may cleaning up. `Serialized` is the
refinement: `GoalStore` implements `GoalLifecycle` with its ledger the file.

Assumed: whoever removes a lock by hand has stopped all sessions, as the message and
the README ask; a new goal's id is a new one; an unreadable or foreign ledger is a
transaction that is refused. `writeGoal` and `clearGoal` are not called by the harness.

### ResearchLedger, Research

`ResearchLedger` is the class `ResearchRoundLedger` as reducers on one record: what is
allocated, reserved and consumed per kind of call, the operations, what was found,
lost and covered, the conflicts, the children. `Research` is a run around it: the phase
and the deadline of the aggregate, the branches of the graph with their leases, the
web calls and the children under way. Each operation reads, reduces and writes the
aggregate under its lock and is one step; what a process knows *between* two
operations (a deadline it saw pass, a call or a child it waits for) is a variable, so
that everything else may come in between. `research_round record` and
`research_note` add findings, `AuthorizeCall` and `Outcome` are a web call before and
after its request, `ReceiptLost` is the receipt that the busy lock refuses;
`AcquireLease` to `KidLost` are a child; `SessionStart` and `Recover` are a start or a
reload of a session; `Die` may come at any moment.

Left out: leads, gaps, texts, digests and capacities of lists (the budget keeps them
out of reach); leaves, citations, `plan_expand` and the allowances of one process, which
only refuse; `research_round` start and inspect; the files of compatibility, which are
rebuilt from the aggregate; the fallback for an unexpected throw
(`planning-runtime.ts:2090`); a session start that fails. The aggregate's lock file is taken
as given: one that is empty because its writer died is never recovered
(`research-aggregate.ts:156`), which stops the run and does not corrupt it. A process id
that is given to another process keeps a dead process's operations open.

### ContextBudget, Compaction

`ContextBudget` is the arithmetic of `context-profile.ts` and `context-accounting.ts`: when
a handoff is needed, when it is armed again, the verdict on a request, the ledger of
reservations. `Compaction` has the slot of `compaction-coordinator.ts` and the three
extensions that share it, an action per handler, with Pi's compactions and callbacks.
A granted compaction is a `call` with a number: it reads the goal, runs, is committed
(`session_compact`), calls back, reads the goal again and asks to go on. A callback may
come twice, or after its session was replaced. A session start is three steps, one per
extension in the order in which they are loaded.

Abstracted: tokens are small numbers and the margin of uncertainty is a function of the
payload; the coordinator's generation is the session's number;
`handoffActiveKey` is set and cleared with `handoffInFlight`; `activeReservations` holds the
ids of the ledger. Every permission to go on is taken (a paused goal would refuse some).
Left out: calibration, an unavailable profile, a malformed payload, the percentage a
host without token counts reports, a host without `ctx.compact` (the only use of
`pendingBudgetHandoff`), a probe of the server that outlives its session. One instance of
each extension serves all sessions of a process, and a new session's usage is unknown.

### RunState, RunKernel

`RunState` is the reducer of `run-kernel-state.ts`, one operator per event. `RunKernel`
numbers the events, keeps the receipts of overlapping calls, rotates the run at a new
prompt or cycle, restores a resumed one, and lets the process end at any moment. The
components `touched` and `exposure` of a state are history, told without sequence
numbers: the sorts of change the run's sources have met, and those the last gate does
not cover. A change is "seen" when the kernel learns that its call succeeded. It is
"unseen" when the call failed after it wrote, when its result never came, or when a
resumed state is older than the sources. `kept` is what a resumption will find: any state the kernel
ever held, for the capsule may have kept it.

Left out: hashes, labels, counters, the environment, the copy of the older extensions'
state, control proposals and decisions; `conservativeArmed`, which only telemetry reads;
web tools, which are reads here; duplicate and missing tool events and the trimming of
the maps of receipts. Assumed of Pi: it hands over one event after the other, a call's
start before its result before its end, and `agent_start` when no call runs. The clock
does not step back between a call's start and its end.

### RunCapsule

The checkpoint queue (`StartWrite`, `EndWrite`, which may fail), what the capsule
hears from the kernel, every handler of `run-capsule.ts` in its default mode `recovery`,
restoring from the session's entry or the only file, and the end of the process at any
moment. A handler that awaits the queue is the variable `handler`. Of the kernel's state
only what the capsule looks at is kept; whether an event moves the run to another phase
is open. `owed` and `due` are history. A session start that goes on with a capsule gives
it a new queue, beside which the old one still writes what it has (`late`, `LateWrite`;
in which order is left open). The two files of a write are one: the markdown is
written first and is never read back. The await in `session_start` is one step. Left
out: rendering and sizes, the message for a manual resume, the limit of 64 directories.

## 4. What TLC checks

| Run | Properties | Bounds |
|---|---|---|
| `verify_gate` | `TypeOK`, `GreenIsFresh`, `HandoffSound`, `NoGreenWhileOwed` | 3 calls, collections of 2, so that a third trims; 1 remembered refusal; 2 nags; edits, shell commands, `verify_project` and gates that are shell commands |
| `gate_reuse` | `ReuseSound` | 2 calls of `verify_project`, 2 writers, 2 visible and 2 ignored contents, 2 epochs |
| `plan_items` | `TypeOK`, `StartedAfterDeps`, `OneInProgress`, `StuckIsReported`, `OpenWorkKept`, `SettledFrozen` | 3 items (a chain, two dependencies, a parent with two children), depth 1, `PLAN_GRAPH=on` |
| `plan_lock` | `MutualExclusion`, `NoLostUpdate`, `DeadLockRecovered` | 3 processes, 2 crashes, 3 writes |
| `goal_store` | `LedgerValid`, `SettlementEarned`, `SettledFrozen`, `Serialized` | 2 processes, 2 crashes, 3 goals of which 2 are kept, a required and an optional criterion |
| `continuation` | `SingleFlight`, `NoStrandedOffer`, `OneDelivery`, `TurnBudget`, `RevocationSeen` | 1 owner with 2 revisions, 2 producers, 2 sessions, 2 flushes, 2 session events, a budget of 1, 2 waiting offers |
| `continuation_abort` | `AbortedStaysStopped` is **violated** | 1 session, 1 flush |
| `research` | `TypeOK`, `LedgerBalanced`, `LeaseBacked`, `SettledAtRest`, `EvidenceFrozen`, `OnlyExtensionResumes` | 2 web calls, 1 query, 1 page, 1 claim, 1 branch, 2 processes; a budget of 2 searches, 1 read, 1 validation read, 1 search of it the branch's; 1 extension, 1 lease, 1 late pause |
| `research_settled` | `SettledStaysSettled` is **violated** | the same, either session may be reloaded |
| `compaction` | `SlotAgrees`, `OneResume`, `OverflowRemembered`, `CertifiedReservation` | 2 models with budgets of 5 (of which the server has 3) and 3, a margin of 1, 2 sessions, 2 granted compactions, 1 compaction per session, 1 change of epoch, requests of 1 and 3, measurements of 1, 3 and 6, 2 tool calls |
| `run_kernel` | `TypeOK`, `ValidMeansCovered`, `CompleteIsEarned` | 11 events, 2 overlapping calls (edits, gates, fixes, each of which may fail after it wrote), 3 transitions, 2 sessions, 2 runs, 1 signal, 1 compaction |
| `run_capsule` | `BriefOwed`, `PhaseCheckpointed`, `OneRunPerCapsule`, `HandlerReturns` | 6 states published, 2 sessions, 2 runs, 1 compaction |

Why the bounds are enough. In the gate, what matters between calls is a pair (a
mutation and a gate, or two mutations of one epoch) and a third that trims or
overlaps both. In reuse, a stale answer needs two epochs, two calls that record in
the wrong order, a writer that was there before and one that is not, and a tree that
changes, changes back or changes unseen. In plans, three items give every shape of a
dependency a rule looks at; the proofs hold for any number. Without `PLAN_GRAPH`, the
default, there is no `plan_expand` and no `plan_settle` and the states are a subset; the
proofs hold for both. In the lock the race needs one that died, one that judged its
lock and one that took it meanwhile; the second death leaves a lock without a name, or
a steal half done. In the dispatcher a second flush exists only after a reload, so two
flushes and two session events are every overlap there is; a budget of one makes each
further turn a violation. `MaxTasks` is 1 because a microtask runs before Pi's next
event. In the goal store a third goal drops the first, two processes race for a lock
that a dead one left, and the criteria are one of each kind. In research, two
processes are one that acts and one that acts in between or dies; one branch is
enough, for the code lets a run have one child at a time, and the proof of `LeaseBacked`
holds for any number; a second web call competes for the last unit of each kind.
In compaction two granted calls are one that is late and one of the present session;
a model whose server has less than declared changes its epoch without a change of
model. In the kernel eleven numbers are a start, two overlapping calls of three
events each, the end of the cycle and a transition or a resumption in between; the
proof has no bound. In the capsule six states are a session, a cycle, a boundary with
one more change while its write is under way, and a restart.

Deadlock is checked where it means something. `PlanLock`, `Continuation`, `Research`,
`Compaction`, `RunKernel` and `RunCapsule` set `CHECK_DEADLOCK FALSE`: their bounds on
writes, sessions and events end their behaviours.

Fairness. `PlanLock` assumes `WF_vars(Step(p))`, a live process goes on with the operation
it is in, which is what an event loop does with a resolved promise; nothing forces a
request, a timeout or a crash. `DeadLockRecovered` is checked under it. `RunCapsule` assumes
the same of the queue's writes and of a handler whose wait is over, for
`HandlerReturns`: a write may fail, but it ends. The other modules state safety only:
how long a model, a user or a gate command takes is not the harness's to promise.

### What the violated runs show

* `continuation_abort`: "An aborted run stays stopped until the user sends something
  new." `stoppedByAbort` is read before the first await of a flush only. A flush
  that waits for `authorize()` while the user sends a message, and aborts the run it
  starts, finds no run under way afterwards and starts another.
* `research_settled`: "a stale timer cannot pause a settled run" (`research-aggregate.ts:66`).
  `researchDeadlineStatus`, which every web tool calls (`ketch.ts:324`), reads the phase
  without the lock and then pauses without looking again. A web call sees an active
  run past its deadline; `research_finish` settles it; the call moves the settled run
  to `awaiting_extension`, from where `/research-extend` makes it active with a settled
  ledger.

### Limits of what holds

Where the code does not do what the property would say without its condition. Each was
found by TLC with the condition removed; the properties exempt these cases and no others.

* **A failed edit that wrote** (`GreenIsFresh`, `HandoffSound`). When `edit` or `write` reports
  a failure, the baseline of its epoch is restored, its green included
  (`verify-gate.ts:235-239`), and no warning is given. Had it written before it failed,
  as `verification-order.ts:54-57` admits, the green is stale. The comment at
  `verify-gate.ts:436-440` takes these failures for atomic; whether they are is the
  tool's affair. A failed shell command is counted. The properties exempt the writes of
  edits that reported a failure (`failedEdits`) and hold for every other writer in the
  same epoch.
* **Nothing ends a mutation whose end is lost.** `pendingMutations` then stays above zero
  and no later gate counts for the rest of the session: the project keeps being nagged
  about, up to the limits, and warned about. That is safe (`NoGreenWhileOwed`) and no
  property says that it must end.
* **A writer that outlives the start of `verify_project`** (`ReuseSound`). The tools of one
  message run concurrently, and `changeEpoch` moves when a writer starts, not while it
  writes. A writer starts, `verify_project` reads the epoch, fingerprints, runs and
  records; the writer then changes a file that git ignores; the next `verify_project` of
  the epoch finds the same fingerprint and reuses the answer of the older tree, which
  `verify-gate.ts:245-246` excludes. Nothing in the code keeps a call from beginning then.
  `ReuseSound` speaks of an epoch until such a write (`lateWrite`) and of a gate that ran to
  its end; the answer of one cut short is reused as it is.
* **The race of stealing** (`MutualExclusion`, `NoLostUpdate`). The plan lock's file is
  removed by path after another file at that path was judged stale. With three processes,
  one of which died, two others judge its lock, the first removes it and takes the lock,
  and the second removes that one: two owners, and an update may be lost.
  `docs/HARNESS_MODERNIZATION_2026-10.md:52-53` knows and accepts this. `plan_lock` reaches
  it; both properties claim everything before it and nothing after (`usurped`). With
  at most two processes, or when none dies, it cannot happen (`NoTheftWithOneWaiter`).
* **Changes the kernel does not count** (`CompleteIsEarned`, `ValidMeansCovered`).
  `run-kernel-state.ts:255-261` keeps what a failed shell command may have written out of
  `hasMutation`, so `settle()` completes a run after a text-only answer over sources such a
  command has changed. The same goes for a call whose result is lost and for changes
  made between the moment a resumed state was kept and the resumption. The run has all
  three, and completes over them; the properties are about the changes that were seen
  to succeed.
* **Room given back** (`CertifiedReservation`). The grants that are held together fit in what
  the answered request left. A grant that is released (`context-admission.ts:134-138`)
  frees its room within the same answer, so outputs one after the other may exceed it
  in sum.
* **A revocation after the second answer** (`RevocationSeen`) is not seen by the dispatcher.
* **Two compactions before one request** share one brief (`BriefOwed`). Signals are finitely
  many (`MaxEvents`), so `HandlerReturns` does not exclude that endless signals keep the
  queue busy for ever.
* **`/plan` that fails to write** the replacement has already removed the old plan
  (`OpenWorkKept` is about a plan that stays in execution).
* The green that a failed edit restores from the baseline may be older than a red: a
  green, an edit starts, a gate ends red, the edit fails. The tree is the one the
  green describes, but the gate's last word is lost.
* A goal that is paused or blocked keeps its proposed settlement: the resumed goal
  still waits for the user and takes a second `/goal-resume`.

## 5. What is proved

For every value of the constants that satisfies the modules' assumptions. The
invariants are inductive strengthenings, first checked with TLC.

* `GateProofs`, the gate (assumes finitely many calls and capacities of at least one).
  The invariant is `TypeOK`, `CallsInv` (the host's phases against what the clock
  knows), `CountInv` (`pendingMutations` counts at least the mutations that started
  and have not settled, trimmed or not), `OrderInv` (a pending gate that a write
  overtook cannot be accepted: the write moved the boundary past its start, is still
  counted, or was not announced yet), and `GreenInv` (the green, the green in the
  baseline, and the two `mutated` bits agree with what was written by whoever is not
  an edit that reported a failure).
  From it: `TypeCorrect`, `GreenIsFreshAlways`, `HandoffSoundAlways`,
  `NoGreenWhileOwedAlways`. `GreenIsFresh` alone is not inductive: a failed edit
  restores a green from the baseline, and trimming may make a mutation's end
  unrecognizable.
* `GateProofs`, reuse, for any number of calls and writers that overlap in any way.
  The invariant relates each call's epoch to the present one (`EpochInv`), what a call
  fingerprinted and tested to the tree, as long as no writer wrote late in its epoch
  (`CallInv`, `TestInv`), and the record to both. From it `ReuseInvariance`,
  `ReuseSoundAlways` and `RecordCoversTreeAlways`, which says that a record that may be
  reused was found on the fingerprint it carries and on the ignored files as they are
  now. The only condition is the one in the properties (section 4).
* `PlanProofs`, the items, for any finite set of items. The invariant adds to the checked
  ones that dependencies are acyclic and that only a graph plan is settled.
  `StuckIsReported` is not a step property but a consequence: among the open items
  the one of least rank depends on none of them, so it runs, is ready, or waits for
  a blocked or deferred item. The action properties `DoneAfterDeps` (no
  item is finished before what it depends on), `OpenWorkKept` and `SettledFrozen` follow action by action.
* `PlanProofs`, the lock, for any number of processes, crashes and writes. `LockInvariance`:
  short of the race, who got past `acquirePlanFileLock` owns the file (`OwnInv`) and who is
  about to write has read the last revision (`CopyInv`); and always, only a dead process's
  lock grows old (`AgeInv`) and who is about to remove a lock judged a dead one's
  (`StealInv`). Hence `MutualExclusionAlways` and `NoLostUpdateAlways`: the race is the *only*
  way to two owners. `NoTheftWithOneWaiter`: when nobody dies, or at most two processes
  share the plan, it does not happen, for the one that removes a dead owner's lock is then
  alone. `WaiterNeverStuck`: the lock is nobody's, a dead process's that is or will be
  found stale, or of a live one that has yet to release it.
* `GoalStoreProofs`, for any number of processes, crashes, goals and criteria and any
  capacity of at least one goal. `LockInv` says that whoever got past `mkdir` owns the
  lock and that what it loaded is what the file holds; `LockHeld` is its invariance.
  Hence a step that changes the file applies one operation to the file's own
  contents (`OneMutation`), which is the refinement `SerializedAlways`. What holds of
  the ledger is then proved of single operations: each writes one goal that is new or
  not settled for good, while all others are (`MutationWrites`), and such a write keeps
  the ledger valid and changes no other goal (`PutGoals`, over two lemmas on the
  sequences `Without` and `Latest`). From these `LedgerValidAlways`,
  `SettlementEarnedAlways`, `SettledFrozenAlways`, `AcceptedWhenOffered` (who accepts a
  settlement finds it in the file as it is then: active, proposed, and still allowed
  by the criteria) and `TypeCorrect`. Without `Valid` neither of the others is inductive: with two open goals a write could leave one
  that is not current.

* `ContinuationProofs`, for any number of owners, producers, sessions and flushes and any
  budget. The invariant is `Type`; `FlightInv` (`SingleFlight`, and no
  flush is younger than the session); `EligibleInv` (what the
  current flush holds may still be delivered, and there is a turn left for it);
  `OfferInv` (an offer that waits has a flush or a task that will look at it);
  `ReceiptInv` (the receipts in the session's file are the deliveries made);
  `BudgetInv` (only the user's message gives turns back); and `RevocationSeen`. From it
  `SingleFlightAlways`, `NoStrandedOfferAlways`, `OneDeliveryAlways`, `TurnBudgetAlways` and
  `RevocationSeenAlways`. `OneDelivery` alone is not inductive: whether an owner was
  served is read before an await, so that the invariant must say what a flush in
  flight may rely on. `AbortStopsWhatHadNotBegun` says how far the finding
  `continuation_abort` goes: while an abort stands and no flush was under way, none
  begins and no turn starts, whatever is offered, queued or due. The flush that was
  waiting is the only way through.
* `ResearchProofs`, for any number of calls, branches and processes: `TypeCorrect`,
  `LeaseBackedAlways` (the branch with a lease is the ledger's only child; what was
  launched and has no lease has been charged), `SettledAtRestAlways`,
  `EvidenceFrozenAlways` and `OnlyExtension`.

  `LedgerBalancedAlways` needs an invariant of its own, `Balanced`: for each kind of call
  the sums agree (`Sums`), an open search asks for no more new queries than it has
  reserved (`Backed`), and one child at most is charged (`OnlyOne`). `Backed` is what the
  sums rest on: a query that another call has found meanwhile is not charged again, so
  a search may spend less than it reserved and must never spend more. The sums are over
  sets, which no prover here can do induction on; what operations reserve is therefore
  represented as a set of places, one per unit and operation, so that a sum is the
  cardinality of a union of disjoint sets and each step adds or removes some of them.
  From the same invariant, `ChargesStand`: no failure, late answer, lost receipt,
  interrupted child or recovery gives back what was charged or drops accepted evidence.

  `RecoveredOnce` is about the reducer alone: two sessions that find the same process
  gone charge its calls once. `OnlyLatePauseUnsettles` says how far the finding
  `research_settled` goes: a settled run leaves its phase by a pause decided before it
  settled, for `awaiting_extension`, and in no other way.
* `RunKernelProofs`, for any number of calls and any bounds. `IInvAlways`: every state,
  the kept one included, is `Sound` (valid, with its largest number not below the last
  change and its exposure to seen changes told by its numbers), and for a call in flight `Remembers`
  relates its start to the last change: a gate that began before a change ended is
  known to. Hence `TypeCorrect`, `ValidMeansCoveredAlways` and `CompleteIsEarnedAlways`. `Sound`
  of the kept state is what a resumption needs: its events are numbered from there.
* `CompactionProofs`, for any number of sessions, requests, callbacks and tool calls and
  any models and windows (assumed: `Budgets`, `Bounds`, and that `Unknown` is none of the
  values it stands in for). The slot and the budget share only the session, so
  the invariant is that of each. `SlotInv` adds to `SlotAgrees` and `OneResume` that numbers
  not given out belong to no call, no call is of a later session, and only a call
  that is over has asked to go on (`CallsAgree`): a second or late callback finds its
  call closed. From it `SlotCorrect` and `ResumeCorrect`. `BudgetInv` adds what the agent's
  whereabouts imply (`Whereabouts`), that an allowance is what the answered request
  left (`Certified`), and that a measurement over the budget is kept as the overflow
  of its epoch, of which a session that starts knows nothing yet (`Remembered`). From it
  `OverflowCorrect` and `ReservationCorrect`. `VerdictFits` is a lemma about
  `buildContextAccounting`: a request is let through exactly when it fits with the
  uncertainty of its count and everything held, both counted here and as a fresh report
  counted it (the margin is taken from the larger of the two, `context-accounting.ts:249`).
* `RunCapsuleProofs`, for any number of sessions, runs, events and compactions (assumed:
  that the bounds are numbers and that `None` is no state). The invariant: what the process is bound to in
  each phase of its life (`Bound`); everything a capsule's queue, file, entry and
  binding say is of one run (`OneRun`), which needs that numbers not given out have
  left no trace (`Fresh`); while a boundary owes a write, one at least as new waits in
  the queue it is bound to or is being written (`Due`); what a replaced queue may still
  write is of its capsule's run; and `BriefOwed`. From it
  `BriefCorrect`, `PhaseCorrect` and `OneRunCorrect`. `HandlerNeverStuck` needs that a queue with
  something in it is scheduled or writing (`Drains`).

Model-checked only: the liveness properties `DeadLockRecovered` and `HandlerReturns`
(liveness and fairness are outside the prover's reach; `WaiterNeverStuck` and
`HandlerNeverStuck` are what of them is a safety property). The two violations are
TLC's; what else could cause them, `AbortStopsWhatHadNotBegun` and
`OnlyLatePauseUnsettles` exclude.

## 6. What is not modelled

* Wording, sizes and layout of messages, the byte limits of plans, telemetry calls.
* The classification of shell commands, paths and gate output: the models take every
  answer the classifier could give. The transcript mode of the gate
  (`VERIFY_EXECUTION_ORDER=transcript`), which is not the default.
* Process ids that are given to another process, and a file system that loses a
  completed write: an owner is dead or alive for good, a completed write is there.
* A failing write of the plan's projection after its file, a lock directory of the
  goal ledger that cannot be removed by a live owner for ever, an `authorize()` that
  never settles. Each stops the work it belongs to, and no later operation repairs it:
  there is nothing to check but that.
* The event-bus registration of the dispatcher, the arbiter's queue and the loop
  breaker, and every component marked `not_modelled` in `PROJECT.json` with its reason:
  text, processes, pixels and network, or counters that nothing else reads.

Seen while modelling, and not a property of a run:

* Plan, with `PLAN_GRAPH=on`. (a) `/plan` writes a graph plan without items, which
  `migrateState` then refuses to read (`planning-runtime.ts:392-398`), although
  `validateStateSize` makes an exception for it; `plan_write` is rejected until
  `/plan-cancel`. (b) A revision by `plan_write` drops the record of why an item was deferred
  (`plan-service.ts:184-189`), so `validateGraph` refuses every revision that keeps a deferred
  item.
* Goal. `writeGoalUnlocked` drops goals by number, not by bytes: a ledger at its limit of
  bytes refuses every write that makes it larger (`goal-state.ts:568`, `615`).
* Compaction. (a) A change of model between a handoff's start and its commit lets the
  commit be noted for the new epoch; if the callback then reports an error, the
  committed handoff is not resumed, where `runtime-truth.ts:149-152` and
  `docs/SURFACE_BOUNDARIES.md:109` say it is. (b) A handoff that waits for the goal while a
  session starts asks to go on under the new session's id; `OneResume` therefore
  speaks of the session for `compact_context` only. (c) A server with a smaller window
  than declared makes every measurement stale (`context-accounting.ts:250-253`):
  requests are refused as `stale_usage_epoch` until the measurement is gone.
* Kernel. A clock that steps back between a call's start and its end makes the kernel
  refuse the event of its end (`run-kernel-events.ts:107`). An abandonment asked for by
  `/run-new` survives a session switch within the process and is lost when the process
  ends. A compaction between the end of a turn and the settlement moves a blocked run
  out of the phase "blocked".
* Capsule. After a crash the session's last entry is preferred to a newer file, which
  is then overwritten with the older state; without an entry, the only capsule there
  is may be another session's (`run-capsule-store.ts:148-165`). A session that starts on the
  capsule it had while the old queue still writes may have its newer state overwritten by
  an older one of the same run (`run-capsule.ts:155`).
