------------------------------ MODULE Research ------------------------------
(***************************************************************************)
(* A parent-led research run: the aggregate file that holds its life       *)
(* cycle, its deadline, the graph of its branches and its evidence ledger  *)
(* (harness/lib/research-aggregate.ts, research-round.ts,                  *)
(* research-dispatch-service.ts, planning-runtime.ts), the web tools that  *)
(* charge it (harness/extensions/ketch.ts) and the child process that a    *)
(* branch may be leased to.                                                *)
(*                                                                         *)
(* Every operation reads, reduces and writes the aggregate under one lock, *)
(* so it is one step; one that throws leaves the aggregate alone and is a  *)
(* disabled action.  What a process knows between two operations is a      *)
(* variable: a deadline it has seen pass, a call or a child it has under   *)
(* way.  Processes share the aggregate and die at any moment.  Pending and *)
(* in_progress branches are both open.  A branch's retry epoch changes     *)
(* only while it has no lease, so that the lease id tells attempts apart.  *)
(* Leaves, citations and per-process allowances, which only refuse, and    *)
(* the compatibility files, which are rebuilt, are left out.               *)
(***************************************************************************)
EXTENDS ResearchLedger

CONSTANTS MaxExtend, MaxLeases,  \* bounds: /research-extend, leases of a run,
          MaxLate,               \*   processes about to pause the run at once
          Reloads,               \*   processes whose session may be reloaded
          Proposals, Notes       \* what research_round and research_note are asked to record

ASSUME ProposalShape ==
  Proposals \subseteq [queries : SUBSET Queries, reads : SUBSET Urls, validation : SUBSET Urls, ok : BOOLEAN,
                       covers : SUBSET Claims, opens : SUBSET Claims, closes : SUBSET Claims]
ASSUME NoteShape == Notes \subseteq [page : Urls, covers : SUBSET Claims]
ASSUME Bounds == MaxExtend \in Nat /\ MaxLeases \in Nat /\ MaxLate \in Nat /\ Reloads \subseteq Procs

VARIABLES
  phase,    \* aggregate.phase
  window,   \* deadlinePhase, which the clock moves
  ext,      \* deadline.extension_count
  L,        \* evidence_round
  st,       \* status of the root branches
  lease,    \* lease_id of a branch, 0 when it has none
  spent,    \* branches whose own budget is used up
  receipt,  \* coverage of a branch
  settled,  \* settled_at of the graph
  issued,   \* number of leases issued
  proc,     \* processes
  running,  \* operations whose web call is under way
  late,     \* processes that read an active run past its deadline, and will pause it
  kids      \* leases acquired or launched, held in memory by a process

graph == <<st, lease, spent, receipt, settled, issued>>
local == <<proc, running, late, kids>>
vars  == <<phase, window, ext, L, graph, local>>

Phases    == {"active", "paused", "awaiting_extension", "blocked", "settled"}
Terminal  == {"done", "blocked", "deferred"}
Up        == {p \in Procs : proc[p] = "up"}
Dead      == {p \in Procs : proc[p] = "dead"}
Kids      == [branch : Branches, lease : 1..MaxLeases, by : Procs, at : {"acquired", "launched"}]
AllTerminal == \A b \in Branches : st[b] \in Terminal
Leased    == {b \in Branches : lease[b] # 0}

(* research_plan_start by process p: the state it leaves.                  *)
Init ==
  /\ phase = "active" /\ window = "discovery" /\ ext = 0
  /\ L = EmptyLedger
  /\ st = [b \in Branches |-> "open"] /\ lease = [b \in Branches |-> 0]
  /\ spent = {} /\ receipt = [b \in Branches |-> "none"] /\ settled = FALSE /\ issued = 0
  /\ \E p \in Procs : proc = [q \in Procs |-> IF q = p THEN "up" ELSE "new"]
  /\ running = {} /\ late = {} /\ kids = {}

(* Mutant: the phase is taken from the ledger alone.                       *)
NextPhaseOfLedger(l) == IF l.status \in {"settled", "blocked"} THEN l.status ELSE "active"

(* mutateParentResearchRoundLedger: a settled or blocked ledger moves the  *)
(* phase, and nothing brings it back to active.                            *)
NextPhase(l) ==
  CASE l.status = "settled"                         -> "settled"
    [] l.status # "settled" /\ phase # "active"     -> phase
    [] l.status = "blocked" /\ phase = "active"     -> "blocked"
    [] OTHER                                        -> "active"

Commit(l) == L' = l /\ phase' = IF l = L THEN phase ELSE NextPhase(l)

-----------------------------------------------------------------------------
(* The deadline.                                                           *)
Tick ==
  /\ window # "expired"
  /\ window' = IF window = "discovery" THEN "validation" ELSE "expired"
  /\ UNCHANGED <<phase, ext, L, graph, local>>

(* expireResearchDeadline, by the timer or by a tool that finds it passed. *)
TimerExpire(p) ==
  /\ p \in Up /\ phase = "active" /\ window = "expired"
  /\ phase' = "awaiting_extension" /\ UNCHANGED <<window, ext, L, graph, local>>

(* researchDeadlineStatus reads the phase, and pauses in a second step.    *)
DeadlineSeen(p) ==
  /\ p \in Up \ late /\ phase = "active" /\ window = "expired" /\ Cardinality(late) < MaxLate
  /\ late' = late \cup {p} /\ UNCHANGED <<phase, window, ext, L, graph, proc, running, kids>>

LateExpire(p) ==
  /\ p \in late
  /\ phase' = "awaiting_extension" /\ late' = late \ {p}
  /\ UNCHANGED <<window, ext, L, graph, proc, running, kids>>

(* /research-extend and /research-cancel.                                  *)
Extend(p) ==
  /\ p \in Up /\ phase \in {"paused", "awaiting_extension"} /\ ext < MaxExtend
  /\ phase' = "active" /\ window' = "discovery" /\ ext' = ext + 1
  /\ UNCHANGED <<L, graph, local>>

Cancel(p) ==
  /\ p \in Up /\ phase \notin {"settled", "paused"}
  /\ phase' = "paused" /\ UNCHANGED <<window, ext, L, graph, local>>

-----------------------------------------------------------------------------
(* web_search and web_read: authorized before the call, recorded after.    *)
AuthorizeCall(p, o, kind, request) ==
  /\ p \in Up /\ phase = "active"
  /\ IF kind = "searches" THEN window = "discovery" ELSE window # "expired"
  /\ MayAuthorize(L, o, kind, request)
  /\ Commit(Authorize(L, o, kind, request, p)) /\ running' = running \cup {o}
  /\ UNCHANGED <<window, ext, graph, proc, late, kids>>

(* A call that failed is recorded as one that worked.                      *)
Outcome(o) ==
  /\ o \in running
  /\ \E l \in IF L.ops[o].kind = "searches" THEN {SearchReceipt(L, o)} ELSE ReadReceipts(L, o) : Commit(l)
  /\ running' = running \ {o} /\ UNCHANGED <<window, ext, graph, proc, late, kids>>

(* The lock stays busy: the receipt is lost, the operation stays open.     *)
ReceiptLost(o) ==
  /\ o \in running /\ running' = running \ {o}
  /\ UNCHANGED <<phase, window, ext, L, graph, proc, late, kids>>

(* research_round record.                                                  *)
RecordRound(p, r) ==
  /\ p \in Up /\ phase = "active" /\ window # "expired" /\ L.status # "settled"
  /\ \E l \in Rounds(L, r.queries, r.reads, r.validation, r.ok, r.covers, r.opens, r.closes) : Commit(l)
  /\ UNCHANGED <<window, ext, graph, local>>

(* research_note: its page is a validation read.  A truncated one supports *)
(* no claim.  The deadline is not looked at.                               *)
NoteCard(p, n) ==
  /\ p \in Up /\ phase = "active" /\ L.status # "settled"
  /\ \E l \in Rounds(L, {}, {}, {n.page}, n.covers # {}, n.covers, {}, {}) :
       (n.covers # {} => n.page \in l.usable) /\ Commit(l)
  /\ UNCHANGED <<window, ext, graph, local>>

-----------------------------------------------------------------------------
(* Dispatch of a branch to a child process.                                *)
AcquireLease(p, b) ==
  /\ p \in Up /\ phase = "active" /\ window = "discovery" /\ ~settled
  /\ st[b] = "open" /\ Leased = {} /\ b \notin spent /\ issued < MaxLeases
  /\ MayReserveChild(L, b) /\ Commit(ReserveChild(L, b))
  /\ issued' = issued + 1 /\ lease' = [lease EXCEPT ![b] = issued']
  /\ kids' = kids \cup {[branch |-> b, lease |-> issued', by |-> p, at |-> "acquired"]}
  /\ UNCHANGED <<window, ext, st, spent, receipt, settled, proc, running, late>>

Launch(k) ==
  /\ k \in kids /\ k.at = "acquired"
  /\ kids' = (kids \ {k}) \cup {[k EXCEPT !.at = "launched"]}
  /\ UNCHANGED <<phase, window, ext, L, graph, proc, running, late>>

Live(k) == lease[k.branch] = k.lease

(* The dispatch failed before a child was started: only this exact lease   *)
(* is given back, with its reservation.                                    *)
ReleaseLease(k) ==
  /\ k \in kids /\ k.at = "acquired" /\ kids' = kids \ {k}
  /\ IF Live(k) /\ phase # "settled"
     THEN Commit(ReleaseChild(L, k.branch)) /\ lease' = [lease EXCEPT ![k.branch] = 0]
     ELSE UNCHANGED <<phase, L, lease>>
  /\ UNCHANGED <<window, ext, st, spent, receipt, settled, issued, proc, running, late>>

(* mergeBranchResult and mergeResearchRoundChildResult, in one commit.     *)
Failures == {"child_failed", "missing_report"}

CloseLease(b, status) ==
  /\ st' = [st EXCEPT ![b] = status] /\ lease' = [lease EXCEPT ![b] = 0]
  /\ UNCHANGED <<settled, issued>>

MergeReport(b, status, used) ==
  /\ CloseLease(b, status) /\ Commit(MergeChild(L, b, used, status = "blocked"))
  /\ receipt' = [receipt EXCEPT ![b] = IF status = "done" THEN "complete" ELSE "partial"]
  /\ spent' = IF used = Share THEN spent \cup {b} ELSE spent

MergeFailure(b, failure) ==
  /\ CloseLease(b, "blocked") /\ Commit(MergeChild(L, b, Zero, TRUE))
  /\ spent' = IF failure = "child_failed" THEN spent ELSE spent \cup {b}
  /\ UNCHANGED receipt

ChildResult(k) ==
  /\ k \in kids /\ k.at = "launched" /\ kids' = kids \ {k}
  /\ IF Live(k) /\ ~settled /\ st[k.branch] = "open"
     THEN \/ \E status \in Terminal, used \in {Zero, Share} : MergeReport(k.branch, status, used)
          \/ \E failure \in Failures : MergeFailure(k.branch, failure)
     ELSE UNCHANGED <<phase, L, graph>>
  /\ UNCHANGED <<window, ext, proc, running, late>>

(* The lease cannot be given back or the report cannot be merged: the      *)
(* failure is swallowed.                                                   *)
KidLost(k) ==
  /\ k \in kids /\ kids' = kids \ {k}
  /\ UNCHANGED <<phase, window, ext, L, graph, proc, running, late>>

-----------------------------------------------------------------------------
(* plan_update.  A branch that is closed under its child charges the child *)
(* in full, and the report that comes later finds no lease.                *)
CloseBranch(p, b, status) ==
  /\ p \in Up /\ ~settled /\ phase = "active" /\ window # "expired" /\ status \in Terminal
  /\ Commit(Interrupt(L, {b} \cap Leased))
  /\ st' = [st EXCEPT ![b] = status] /\ lease' = [lease EXCEPT ![b] = 0]
  /\ UNCHANGED <<window, ext, spent, receipt, settled, issued, local>>

ReopenBranch(p, b) ==
  /\ p \in Up /\ ~settled /\ phase = "active" /\ window # "expired" /\ st[b] \in Terminal
  /\ st' = [st EXCEPT ![b] = "open"] /\ receipt' = [receipt EXCEPT ![b] = "none"]
  /\ UNCHANGED <<phase, window, ext, L, lease, spent, settled, issued, local>>

(* closeUndispatchedResearchBranches at the end of a run of the agent: the *)
(* pending branches that nobody was given.                                 *)
AgentEnd(p, bs) ==
  /\ p \in Up /\ ~settled
  /\ bs # {} /\ \A b \in bs : st[b] = "open" /\ lease[b] = 0
  /\ st' = [b \in Branches |-> IF b \in bs THEN "blocked" ELSE st[b]] /\ spent' = spent \cup bs
  /\ UNCHANGED <<phase, window, ext, L, lease, receipt, settled, issued, local>>

-----------------------------------------------------------------------------
(* Settlement: of the ledger, of the graph, or of both at once.            *)
Finishable == phase \in {"active", "awaiting_extension"} \/ (phase = "settled" /\ ~settled)

SettleRound(p) ==
  /\ p \in Up /\ Finishable /\ L.status # "settled" /\ MaySettle(L, AllTerminal)
  /\ Commit(Settle(L)) /\ UNCHANGED <<window, ext, graph, local>>

(* settleErrors, on the graph with the statuses s and the receipts r.      *)
GraphSettles(s, r) ==
  \A b \in Branches : \/ s[b] = "done" /\ r[b] = "complete"
                      \/ s[b] = "deferred" /\ r[b] # "none"

(* Mutant: a settled ledger is enough to settle the graph.                 *)
PlanSettleByLedger(p) ==
  /\ p \in Up /\ ~settled /\ L.status = "settled"
  /\ settled' = TRUE /\ phase' = "settled"
  /\ UNCHANGED <<window, ext, L, st, lease, spent, receipt, issued, local>>

PlanSettle(p) ==
  /\ p \in Up /\ ~settled /\ GraphSettles(st, receipt)
  /\ L.status = "settled" /\ MaySettle(L, TRUE)
  /\ settled' = TRUE /\ phase' = "settled"
  /\ UNCHANGED <<window, ext, L, st, lease, spent, receipt, issued, local>>

(* research_finish: what the ledger supports closes the open branches.     *)
Finish(p) ==
  LET fills(f, with) == [b \in Branches |-> IF st[b] = "open" THEN with ELSE f[b]] IN
  /\ p \in Up /\ ~settled /\ Finishable /\ MaySettle(L, TRUE) /\ L.covered # {}
  /\ st' = fills(st, "done") /\ receipt' = fills(receipt, "complete") /\ GraphSettles(st', receipt')
  /\ L' = Settle(L) /\ phase' = "settled" /\ settled' = TRUE
  /\ UNCHANGED <<window, ext, lease, spent, issued, local>>

-----------------------------------------------------------------------------
(* Sessions.  rebindActivePlan takes every lease it finds for interrupted: *)
(* the committed graph does not say who wrote it.                          *)
SessionStart(p) ==
  /\ proc[p] = "new" \/ (proc[p] = "up" /\ p \in Reloads)
  /\ proc' = [proc EXCEPT ![p] = "starting"]
  /\ LET stale == {b \in Leased : st[b] = "open"} IN
     /\ Commit(Interrupt(L, stale))
     /\ st' = [b \in Branches |-> IF b \in stale THEN "blocked" ELSE st[b]]
     /\ lease' = [b \in Branches |-> IF b \in stale THEN 0 ELSE lease[b]]
     /\ spent' = spent \cup stale
  /\ UNCHANGED <<window, ext, receipt, settled, issued, running, late, kids>>

Recover(p) ==
  /\ proc[p] = "starting" /\ proc' = [proc EXCEPT ![p] = "up"]
  /\ Commit(RecoverAbandoned(L, Dead))
  /\ UNCHANGED <<window, ext, graph, running, late, kids>>

Die(p) ==
  /\ proc[p] \in {"starting", "up"} /\ proc' = [proc EXCEPT ![p] = "dead"]
  /\ running' = {o \in running : L.ops[o].owner # p} /\ late' = late \ {p}
  /\ kids' = {k \in kids : k.by # p}
  /\ UNCHANGED <<phase, window, ext, L, graph>>

-----------------------------------------------------------------------------
Requests == {<<"searches", {q}>> : q \in Queries} \cup {<<"reads", us>> : us \in SUBSET Urls \ {{}}}

Deadlines(p)   == TimerExpire(p) \/ DeadlineSeen(p) \/ LateExpire(p) \/ Extend(p) \/ Cancel(p)
Retrieval(p)   == \/ \E o \in Ops, r \in Requests : AuthorizeCall(p, o, r[1], r[2])
                  \/ \E n \in Notes : NoteCard(p, n)
Recording(p)   == \E r \in Proposals : RecordRound(p, r)
GraphWork(p)   == \E b \in Branches : \/ AcquireLease(p, b) \/ ReopenBranch(p, b)
                                      \/ \E s \in Terminal : CloseBranch(p, b, s)
Closing(p)     == SettleRound(p) \/ PlanSettle(p) \/ Finish(p) \/ \E bs \in SUBSET Branches : AgentEnd(p, bs)
Sessions(p)    == SessionStart(p) \/ Recover(p) \/ Die(p)
Calls(o)       == Outcome(o) \/ ReceiptLost(o)
Children(k)    == Launch(k) \/ ReleaseLease(k) \/ ChildResult(k) \/ KidLost(k)

Next ==
  \/ Tick
  \/ \E p \in Procs : Deadlines(p) \/ Retrieval(p) \/ Recording(p) \/ GraphWork(p) \/ Closing(p) \/ Sessions(p)
  \/ \E o \in Ops : Calls(o)
  \/ \E k \in kids : Children(k)

Spec == Init /\ [][Next]_vars

-----------------------------------------------------------------------------
(* The values the code keeps; a receipt is only written with a report.     *)
TypeOK ==
  /\ phase \in Phases /\ window \in {"discovery", "validation", "expired"} /\ ext \in 0..MaxExtend
  /\ L.status \in {"active", "ready", "blocked", "settled"} /\ L.ops \in [Ops -> Operations]
  /\ L.queries \subseteq Queries /\ L.read \subseteq Urls /\ L.lost \subseteq Urls
  /\ L.usable \subseteq L.validated /\ L.validated \subseteq Urls
  /\ L.covered \subseteq Claims /\ L.conflicts \subseteq Claims
  /\ st \in [Branches -> {"open"} \cup Terminal] /\ lease \in [Branches -> 0..MaxLeases]
  /\ spent \subseteq Branches /\ receipt \in [Branches -> {"none", "partial", "complete"}]
  /\ settled \in BOOLEAN /\ issued \in 0..MaxLeases
  /\ proc \in [Procs -> {"new", "starting", "up", "dead"}]
  /\ running \subseteq Ops /\ late \subseteq Procs /\ kids \subseteq Kids

(* The budget of a run is never overdrawn and its entries add up: what is  *)
(* reserved is what the open operations and the child may still spend,     *)
(* what is consumed is what was found, lost or charged for the child, each *)
(* query and each page once, whatever fails, is lost, or is recovered      *)
(* (validateResearchRoundLedger, which refuses the file otherwise).        *)
LedgerBalanced ==
  LET held(k) == Units(L, OfKind(L, InFlight(L), k)) + Cardinality(L.children) * Share[k]
      found   == [searches   |-> Cardinality(L.queries), reads |-> Cardinality(L.read) + L.lostReads,
                  validation |-> Cardinality(L.validated)]
  IN \A k \in Kinds : /\ L.reserved[k] = held(k)
                      /\ L.consumed[k] = found[k] + L.childSpent[k]
                      /\ L.consumed[k] + L.reserved[k] <= Allocated[k]

(* A leased branch and a reserved child are the same thing, a run has at   *)
(* most one, and a child that was launched holds its lease or has been     *)
(* charged: no child runs unpaid, and none reports twice.  A web call      *)
(* under way is open in the ledger: nobody recovers it from under the      *)
(* process that makes it.                                                  *)
LeaseBacked ==
  /\ L.children = Leased /\ L.children \cap L.reports = {}
  /\ \A b, c \in L.children \cup L.reports : b = c
  /\ \A k \in kids : k.at = "launched" => Live(k) \/ k.branch \in L.reports
  /\ running \subseteq InFlight(L)

(* A settled ledger is at rest: no call and no child is under way, each    *)
(* claim is covered and no conflict is open; a settled graph has such a    *)
(* ledger, and its branches and their receipts satisfy settleErrors.       *)
SettledAtRest ==
  /\ L.status = "settled" => /\ InFlight(L) = {} /\ running = {} /\ L.children = {}
                             /\ L.covered = Claims /\ L.conflicts = {}
  /\ phase = "settled" => L.status = "settled"
  /\ settled => L.status = "settled" /\ GraphSettles(st, receipt)

(* A settled ledger never changes again: no late answer, late report,      *)
(* recovery or restart spends after settlement.                            *)
EvidenceFrozen == [][L.status = "settled" => L' = L]_vars

(* A run that stopped, for whatever reason and in whichever process, goes  *)
(* on only by /research-extend, which starts a new deadline.               *)
OnlyExtensionResumes == [][phase # "active" /\ phase' = "active" => ext' = ext + 1 /\ window' = "discovery"]_vars

(* "A stale timer cannot pause a settled run" (research-aggregate.ts:66):  *)
(* a settled run stays settled.                                            *)
SettledStaysSettled == [][phase = "settled" => phase' = "settled"]_vars
=============================================================================
