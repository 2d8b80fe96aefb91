------------------------------ MODULE PlanItems ------------------------------
(***************************************************************************)
(* The persisted plan of a session: its items, their dependencies and      *)
(* their status, and every operation that rewrites them (harness/lib/      *)
(* planning-runtime.ts over plan-service.ts, plan-dependencies.ts,         *)
(* plan-delta.ts and plan-graph.ts).                                       *)
(*                                                                         *)
(* mutatePlan reads, checks and writes under a lock, so an operation is    *)
(* one step, and one that throws leaves the file alone: a rejection is a   *)
(* disabled action.  PlanLock models the lock.  Titles, notes and byte     *)
(* limits are left out, and so are deep-research plans (profile).          *)
(***************************************************************************)
EXTENDS Naturals, FiniteSets

CONSTANTS Items,      \* item ids
          MaxItems,   \* PLAN_MAX_ITEMS and PLAN_GRAPH_MAX_NODES, both 24
          MaxDeps,    \* PLAN_MAX_DEPENDENCIES, 8
          MaxDepth,   \* PLAN_GRAPH_MAX_DEPTH, 3
          MaxKids,    \* children of one expansion, 8
          PlanGraph,  \* PLAN_GRAPH=on: schema version 5
          None        \* no parent

ASSUME ItemsFinite == IsFiniteSet(Items) /\ None \notin Items
ASSUME PlanLimits  == MaxItems \in Nat \ {0} /\ MaxDeps \in Nat /\ MaxDepth \in Nat /\ MaxKids \in Nat
ASSUME GraphFlag   == PlanGraph \in BOOLEAN

VARIABLES
  exists,    \* there is a plan
  phase, status, deps, parent,
  head,      \* head_terminal_at is set
  settled,   \* settled_at is set
  planning   \* isPlanning(), forgotten when the process restarts

plan == <<exists, phase, status, deps, parent, head, settled>>
vars == <<plan, planning>>

Open      == {"pending", "in_progress"}
Terminal  == {"done", "blocked", "deferred"}
Statuses  == Open \cup Terminal
(* The schema of plan_update offers `deferred` to graph plans only.        *)
DeltaStatuses == IF PlanGraph THEN Statuses ELSE Statuses \ {"deferred"}

Present == {i \in Items : status[i] # "absent"}

TypeOK ==
  /\ exists \in BOOLEAN /\ head \in BOOLEAN /\ settled \in BOOLEAN
  /\ planning \in BOOLEAN /\ phase \in {"planned", "executing"}
  /\ status \in [Items -> Statuses \cup {"absent"}]
  /\ deps \in [Items -> SUBSET Items] /\ parent \in [Items -> Items \cup {None}]
  /\ \A i \in Items : deps[i] \subseteq Present \ {i}
  /\ \A i \in Items : parent[i] \in Present \cup {None}
  /\ \A i \in Items \ Present : deps[i] = {} /\ parent[i] = None

Init ==
  /\ exists = FALSE /\ phase = "planned" /\ head = FALSE /\ settled = FALSE
  /\ status = [i \in Items |-> "absent"]
  /\ deps = [i \in Items |-> {}] /\ parent = [i \in Items |-> None]
  /\ planning = FALSE

-----------------------------------------------------------------------------
(* findCycle finds none: the items can be ranked above their dependencies. *)
Ranks == [Items -> 1..Cardinality(Items)]
RankedBy(dp, r) == \A i \in Items : \A d \in dp[i] : r[d] < r[i]

(* Mutant: two items that wait for each other are let through.             *)
AcyclicIfNoSelfReference(dp) == \A i \in Items : i \notin dp[i]

Acyclic(dp) == {r \in Ranks : RankedBy(dp, r)} # {}

(* Mutant: what a dependency names need not be in the plan.                *)
StructureOkUnknown(st, dp) == Acyclic(dp)

(* dependencyStructureErrors.                                              *)
StructureOk(st, dp) ==
  /\ \A i \in Items : /\ Cardinality(dp[i]) =< MaxDeps
                       /\ \A d \in dp[i] : d # i /\ st[d] # "absent"
  /\ Acyclic(dp)

Unmet(st, dp, i) == {d \in dp[i] : st[d] # "done"}

(* Mutant: only what is newly done is checked, not what is under way.      *)
DependencyStatusOkNewly(st, dp, newlyDone) ==
  \A i \in newlyDone : Unmet(st, dp, i) = {}

(* dependencyStatusErrors.                                                 *)
DependencyStatusOk(st, dp, newlyDone) ==
  \A i \in Items : st[i] = "in_progress" \/ i \in newlyDone => Unmet(st, dp, i) = {}

Ready == {i \in Items : status[i] = "pending" /\ Unmet(status, deps, i) = {}}

Children(pa, i) == {c \in Items : pa[c] = i}

AllTerminal(st) == \A i \in Items : st[i] # "absent" => st[i] \in Terminal

(* validateGraph, on what the checks of the operations leave open.         *)
GraphOk(st, pa, hd, se, ph) ==
  /\ \E i \in Items : st[i] # "absent"
  /\ \A i \in Items : st[i] \in Terminal => \A c \in Children(pa, i) : st[c] \notin Open
  /\ hd => AllTerminal(st)
  /\ se => ph = "executing" /\ AllTerminal(st) /\ \A i \in Items : st[i] # "blocked"

(* validateStateSize, which every write passes through.                    *)
Valid(st, dp, pa, hd, se, ph) ==
  /\ StructureOk(st, dp) /\ DependencyStatusOk(st, dp, {})
  /\ PlanGraph => GraphOk(st, pa, hd, se, ph)

(* migrateState keeps head_terminal_at of a graph plan only.               *)
Kept(hd) == PlanGraph /\ hd

-----------------------------------------------------------------------------
(* /plan <request>: the old plan goes and an empty one takes its place;    *)
(* when that write fails, the old one is gone and planning stays off.      *)
Erase ==
  /\ phase' = "planned" /\ head' = FALSE /\ settled' = FALSE
  /\ status' = [i \in Items |-> "absent"]
  /\ deps' = [i \in Items |-> {}] /\ parent' = [i \in Items |-> None]

PlanStart == Erase /\ exists' = TRUE /\ planning' = TRUE

PlanStartFails == exists /\ Erase /\ exists' = FALSE /\ UNCHANGED planning

PlanCancel == Erase /\ exists' = FALSE /\ planning' = FALSE

(* migrateState refuses a graph plan without items, also the one /plan has *)
(* just written: no operation that reads the plan finds one.               *)
Readable == PlanGraph => Present # {}

(* structuralItems: the dependencies of a revision that keeps `kept` and   *)
(* gives `given` new lists.                                                *)
RevisedDeps(kept, given, list) ==
  [i \in Items |-> IF i \notin kept THEN {}
                   ELSE IF i \in given THEN list[i] ELSE deps[i] \cap kept]

(* Mutant: a revision may drop any item.                                   *)
OmitsAnything(kept) == TRUE

OmitsNoOpenWork(kept) ==
  exists /\ phase = "executing" => \A i \in Present \ kept : status[i] \notin Open

(* A revision copies an item without the record of why it was deferred,    *)
(* and validateGraph refuses a deferred item that has none.                *)
KeepsNoDeferred(kept) == \A i \in kept : status[i] # "deferred"

(* Mutant: a settled plan may be revised.                                  *)
RevisableSettled == \A i \in Items : parent[i] = None

Revisable == ~ settled /\ \A i \in Items : parent[i] = None

PlanWrite(kept, given, list) ==
  /\ Revisable /\ (exists => Readable)
  /\ kept # {} /\ Cardinality(kept) =< MaxItems
  /\ OmitsNoOpenWork(kept) /\ KeepsNoDeferred(kept)
  /\ deps' = RevisedDeps(kept, given, list)
  /\ status' = [i \in Items |-> CASE i \in kept \cap Present -> status[i]
                                  [] i \in kept \ Present   -> "pending"
                                  [] OTHER                  -> "absent"]
  /\ phase' = IF exists THEN phase ELSE IF planning THEN "planned" ELSE "executing"
  /\ head' = Kept(head)
  /\ Valid(status', deps', parent, head', settled, phase')
  /\ exists' = TRUE
  /\ UNCHANGED <<parent, settled, planning>>

(* Mutant: several items may be under way.                                 *)
OneActiveOrMore(st) == TRUE

OneActive(st) == \A i, j \in Items : st[i] = "in_progress" /\ st[j] = "in_progress" => i = j

(* plan_update, judged on the resulting plan: "finish a, start b" works.   *)
PlanUpdate(changed, to) ==
  /\ exists /\ ~ settled
  /\ changed # {} /\ changed \subseteq Present
  /\ status' = [i \in Items |-> IF i \in changed THEN to[i] ELSE status[i]]
  /\ OneActive(status')
  /\ DependencyStatusOk(status', deps,
                        {i \in Items : status[i] # "done" /\ status'[i] = "done"})
  /\ head' = AllTerminal(status')
  /\ Valid(status', deps, parent, head', settled, phase)
  /\ UNCHANGED <<exists, phase, deps, parent, settled, planning>>

Depth[i \in Items] == IF parent[i] = None THEN 0 ELSE 1 + Depth[parent[i]]

(* plan_expand.                                                            *)
PlanExpand(p, kids) ==
  /\ PlanGraph /\ exists /\ ~ settled
  /\ p \in Present /\ status[p] \in Open /\ Children(parent, p) = {}
  /\ kids # {} /\ Cardinality(kids) =< MaxKids /\ kids \cap Present = {}
  /\ Cardinality(Present \cup kids) =< MaxItems
  /\ Depth[p] < MaxDepth
  /\ status' = [i \in Items |-> IF i \in kids THEN "pending" ELSE status[i]]
  /\ parent' = [i \in Items |-> IF i \in kids THEN p ELSE parent[i]]
  /\ Valid(status', deps, parent', head, settled, phase)
  /\ UNCHANGED <<exists, phase, deps, head, settled, planning>>

(* plan_settle.                                                            *)
PlanSettle ==
  /\ PlanGraph /\ exists /\ ~ settled
  /\ AllTerminal(status) /\ \A i \in Items : status[i] # "blocked"
  /\ settled' = TRUE
  /\ Valid(status, deps, parent, head, settled', phase)
  /\ UNCHANGED <<exists, phase, status, deps, parent, head, planning>>

(* /plan-go.                                                               *)
PlanGo ==
  /\ exists /\ \E i \in Items : status[i] \in Open
  /\ phase' = "executing" /\ planning' = FALSE
  /\ head' = Kept(head)
  /\ Valid(status, deps, parent, head', settled, phase')
  /\ UNCHANGED <<exists, status, deps, parent, settled>>

(* A restart, or a new session: planning mode is process memory.           *)
Restart == planning /\ planning' = FALSE /\ UNCHANGED plan

Next ==
  \/ PlanStart \/ PlanStartFails \/ PlanCancel \/ PlanSettle \/ PlanGo \/ Restart
  \/ \E kept \in SUBSET Items : \E given \in SUBSET kept :
       \E list \in [given -> SUBSET Items] : PlanWrite(kept, given, list)
  \/ \E changed \in SUBSET Present : \E to \in [changed -> DeltaStatuses] :
       PlanUpdate(changed, to)
  \/ \E p \in Items, kids \in SUBSET Items : PlanExpand(p, kids)

Spec == Init /\ [][Next]_vars

-----------------------------------------------------------------------------
(* "One invariant holds for every persisted plan: an item that is          *)
(* in_progress has every dependency done" (plan-dependencies.ts 5-6); so a *)
(* dependency is not reopened, dropped or added under running work.        *)
StartedAfterDeps ==
  \A i \in Items : status[i] = "in_progress" => \A d \in deps[i] : status[d] = "done"

(* At most one item is under way, although only plan_update checks it and  *)
(* a revision carries statuses over.                                       *)
OneInProgress ==
  \A i, j \in Items : status[i] = "in_progress" /\ status[j] = "in_progress" => i = j

(* A plan with open work is never at a silent standstill: some item runs,  *)
(* some item is ready, or one is stuck behind a blocked or deferred item   *)
(* and derivedStatus says so.                                              *)
StuckIsReported ==
  \/ AllTerminal(status)
  \/ \E i \in Items : status[i] = "in_progress"
  \/ Ready # {}
  \/ \E i \in Items : /\ status[i] = "pending"
                      /\ \E d \in deps[i] : status[d] \in {"blocked", "deferred"}

(* An item newly marked done had every dependency done, and what is done   *)
(* stays so when a revision changes what it depended on.                   *)
NewlyDoneAfterDeps ==
  [][\A i \in Items : status[i] # "done" /\ status'[i] = "done" =>
       \A d \in deps'[i] : status'[d] = "done"]_vars

(* Open work does not silently disappear from an executing plan: an item   *)
(* leaves it resolved, or with the whole plan.                             *)
OpenWorkKept ==
  [][exists /\ phase = "executing" /\ phase' = "executing" =>
       \A i \in Items : status[i] \in Open => status'[i] # "absent"]_vars

(* A settled plan is immutable until it is replaced or cancelled.          *)
SettledFrozen ==
  [][settled /\ settled' => UNCHANGED <<phase, status, deps, parent>>]_vars
=============================================================================
