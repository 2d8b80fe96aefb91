------------------------------ MODULE GateReuse ------------------------------
(***************************************************************************)
(* Reuse of the result of verify_project (harness/extensions/              *)
(* verify-gate.ts, `lastGate` and the tool's execute) over the working     *)
(* tree fingerprint of harness/lib/tree-fingerprint.ts.                    *)
(*                                                                         *)
(* execute awaits twice for a fingerprint and once for the gate; other     *)
(* calls of verify_project, calls that change files and the gate command   *)
(* itself run in between.  A fingerprint is what git sees of the tree or,  *)
(* outside git and when anything is uncertain, Unknown; what git ignores   *)
(* the epoch alone has to cover.  A gate that runs to its end is           *)
(* deterministic over the tree, so its answer is represented by the tree   *)
(* it was found on.  Ignored files the gate itself leaves behind do not    *)
(* influence it and are no part of the tree.                               *)
(***************************************************************************)
EXTENDS Naturals

CONSTANTS Gates,         \* the calls of verify_project
          Writers,       \* the calls that may change files
          Visible,       \* contents of the files git sees
          Ignored,       \* contents of the files git ignores
          Unknown,       \* the fingerprint `null`
          MaxEpoch       \* bounds changeEpoch

ASSUME UnknownIsNoPrint == Unknown \notin Visible
ASSUME EpochBound == MaxEpoch \in Nat

VARIABLES
  changeEpoch, lastGate,
  pc,          \* how far execute has got
  epoch, fingerprint, after, reused,  \* its locals
  testedOn,    \* its result: the tree it was found on
  tree,        \* the working tree
  writing,     \* the writers that are running
  seen,        \* history: the visible contents there have been
  found,       \* history: the tree when execute took its fingerprint, kept
               \* if it reuses an answer
  lateWrite    \* history: a writer wrote in this epoch after a call of the
               \* epoch had begun

locals == <<pc, epoch, fingerprint, after, reused, testedOn, found>>
world  == <<tree, writing, seen, lateWrite>>
reuseVars == <<changeEpoch, lastGate, locals, world>>

Trees  == [visible: Visible, ignored: Ignored]
Prints == Visible \cup {Unknown}

(* No answer yet, or that of a gate cut short, which speaks of no tree.    *)
NoTree == [visible |-> Unknown, ignored |-> Unknown]

Steps  == {"idle", "begun", "printed", "running", "tested", "checking",
           "checked", "done"}

NoGate == [live |-> FALSE, epoch |-> 0, fingerprint |-> Unknown,
           testedOn |-> NoTree]

ReuseTypeOK ==
  /\ changeEpoch \in 0..MaxEpoch
  /\ lastGate \in [live: BOOLEAN, epoch: 0..MaxEpoch, fingerprint: Prints,
                   testedOn: Trees \cup {NoTree}]
  /\ pc \in [Gates -> Steps] /\ epoch \in [Gates -> 0..MaxEpoch]
  /\ fingerprint \in [Gates -> Prints] /\ after \in [Gates -> Prints]
  /\ reused \in [Gates -> BOOLEAN]
  /\ testedOn \in [Gates -> Trees \cup {NoTree}]
  /\ found \in [Gates -> Trees \cup {NoTree}]
  /\ lateWrite \in BOOLEAN
  /\ tree \in Trees /\ writing \subseteq Writers /\ seen \subseteq Visible

ReuseInit ==
  /\ changeEpoch = 0 /\ lastGate = NoGate
  /\ pc = [g \in Gates |-> "idle"] /\ epoch = [g \in Gates |-> 0]
  /\ fingerprint = [g \in Gates |-> Unknown] /\ after = [g \in Gates |-> Unknown]
  /\ reused = [g \in Gates |-> FALSE]
  /\ testedOn = [g \in Gates |-> NoTree] /\ found = [g \in Gates |-> NoTree]
  /\ lateWrite = FALSE
  /\ tree \in Trees /\ writing = {} /\ seen = {tree.visible}

Advance(g, from, to) == pc[g] = from /\ pc' = [pc EXCEPT ![g] = to]

Change(t) == tree' = t /\ seen' = seen \cup {t.visible}

-----------------------------------------------------------------------------
(* execute.                                                                *)
Begin(g) ==
  /\ Advance(g, "idle", "begun")
  /\ epoch' = [epoch EXCEPT ![g] = changeEpoch]
  /\ UNCHANGED <<changeEpoch, lastGate, fingerprint, after, reused, testedOn, found,
                 world>>

Fingerprint(g, known) ==
  /\ Advance(g, "begun", "printed")
  /\ fingerprint' = [fingerprint EXCEPT ![g] = IF known THEN tree.visible ELSE Unknown]
  /\ found' = [found EXCEPT ![g] = tree]
  /\ UNCHANGED <<changeEpoch, lastGate, epoch, after, reused, testedOn, world>>

(* Mutant: the fingerprint alone decides, whatever ran in the meantime.    *)
ReusableByPrint(g) ==
  fingerprint[g] # Unknown /\ lastGate.live /\ lastGate.fingerprint = fingerprint[g]

Reusable(g) ==
  /\ fingerprint[g] # Unknown /\ lastGate.live
  /\ lastGate.epoch = epoch[g] /\ lastGate.fingerprint = fingerprint[g]

Decide(g, force) ==
  LET reuse == ~ force /\ Reusable(g) IN
  /\ Advance(g, "printed", IF reuse THEN "done" ELSE "running")
  /\ reused' = [reused EXCEPT ![g] = reuse]
  /\ testedOn' = [testedOn EXCEPT ![g] = IF reuse THEN lastGate.testedOn ELSE NoTree]
  /\ found' = [found EXCEPT ![g] = IF reuse THEN found[g] ELSE NoTree]
  /\ UNCHANGED <<changeEpoch, lastGate, epoch, fingerprint, after, world>>

(* runReadonlyGate looks at the tree once, some time during its run.  Cut  *)
(* short by its time limit or the abort signal it fails whatever the tree, *)
(* and execute goes on with that result as with any other.                 *)
Test(g, cutShort) ==
  /\ Advance(g, "running", "tested")
  /\ testedOn' = [testedOn EXCEPT ![g] = IF cutShort THEN NoTree ELSE tree]
  /\ UNCHANGED <<changeEpoch, lastGate, epoch, fingerprint, after, reused, found, world>>

(* The gate command may itself write: a report or a snapshot, with a       *)
(* content there has not been before.                                      *)
GateWrites(g, t) ==
  /\ pc[g] \in {"running", "tested"}
  /\ t.ignored = tree.ignored
  /\ t.visible \notin seen
  /\ Change(t)
  /\ UNCHANGED <<changeEpoch, lastGate, locals, writing, lateWrite>>

(* The gate ended: a second fingerprint is worth taking only now.          *)
Ended(g) ==
  /\ Advance(g, "tested", IF fingerprint[g] # Unknown /\ epoch[g] = changeEpoch
                            THEN "checking" ELSE "done")
  /\ UNCHANGED <<changeEpoch, lastGate, epoch, fingerprint, after, reused, testedOn,
                 found, world>>

FingerprintAgain(g, known) ==
  /\ Advance(g, "checking", "checked")
  /\ after' = [after EXCEPT ![g] = IF known THEN tree.visible ELSE Unknown]
  /\ UNCHANGED <<changeEpoch, lastGate, epoch, fingerprint, reused, testedOn, found,
                 world>>

Recordable(g) == after[g] = fingerprint[g] /\ epoch[g] = changeEpoch

Record(g) ==
  /\ Advance(g, "checked", "done")
  /\ lastGate' = IF Recordable(g)
                   THEN [live |-> TRUE, epoch |-> epoch[g],
                         fingerprint |-> fingerprint[g], testedOn |-> testedOn[g]]
                   ELSE NoGate
  /\ after' = [after EXCEPT ![g] = Unknown]
  /\ UNCHANGED <<changeEpoch, epoch, fingerprint, reused, testedOn, found, world>>

(* The call returned; its slot stands for a later call.                    *)
GateReturn(g) ==
  /\ Advance(g, "done", "idle")
  /\ epoch' = [epoch EXCEPT ![g] = 0]
  /\ fingerprint' = [fingerprint EXCEPT ![g] = Unknown]
  /\ after' = [after EXCEPT ![g] = Unknown]
  /\ reused' = [reused EXCEPT ![g] = FALSE]
  /\ testedOn' = [testedOn EXCEPT ![g] = NoTree]
  /\ found' = [found EXCEPT ![g] = NoTree]
  /\ UNCHANGED <<changeEpoch, lastGate, world>>

-----------------------------------------------------------------------------
(* tool_execution_start of a tool that may change files: the epoch moves   *)
(* before the tool runs.                                                   *)
WriterStart(w) ==
  /\ w \notin writing /\ changeEpoch < MaxEpoch
  /\ changeEpoch' = changeEpoch + 1
  /\ writing' = writing \cup {w} /\ lateWrite' = FALSE
  /\ UNCHANGED <<lastGate, locals, tree, seen>>

Current(g) == pc[g] # "idle" /\ epoch[g] = changeEpoch
RecordIsCurrent == lastGate.live /\ lastGate.epoch = changeEpoch

(* Nothing keeps a call from beginning while a writer runs, and the writer *)
(* from writing afterwards, in the same epoch.                             *)
WriterWrites(w, t) ==
  /\ w \in writing
  /\ Change(t)
  /\ lateWrite' = (lateWrite \/ RecordIsCurrent \/ \E g \in Gates : Current(g))
  /\ UNCHANGED <<changeEpoch, lastGate, locals, writing>>

WriterEnd(w) ==
  /\ w \in writing
  /\ writing' = writing \ {w}
  /\ UNCHANGED <<changeEpoch, lastGate, locals, tree, seen, lateWrite>>

(* Between two messages the user may edit files: before_agent_start.       *)
BeforeAgentStart(t) ==
  /\ writing = {} /\ \A g \in Gates : pc[g] = "idle"
  /\ changeEpoch < MaxEpoch
  /\ changeEpoch' = changeEpoch + 1 /\ lateWrite' = FALSE
  /\ Change(t)
  /\ UNCHANGED <<lastGate, locals, writing>>

ReuseNext ==
  \/ \E g \in Gates :
       \/ Begin(g) \/ Ended(g) \/ Record(g) \/ GateReturn(g)
       \/ \E b \in BOOLEAN : \/ Fingerprint(g, b) \/ Decide(g, b) \/ Test(g, b)
                             \/ FingerprintAgain(g, b)
       \/ \E t \in Trees : GateWrites(g, t)
  \/ \E w \in Writers : \/ WriterStart(w) \/ WriterEnd(w)
                        \/ \E t \in Trees : WriterWrites(w, t)
  \/ \E t \in Trees : BeforeAgentStart(t)

ReuseSpec == ReuseInit /\ [][ReuseNext]_reuseVars

-----------------------------------------------------------------------------
(* The premise of reuse, "an unchanged tree gives the same answer"         *)
(* (verify-gate.ts 245-246): the answer a call reuses was found on the     *)
(* very tree the call met, ignored files included, unless a writer that    *)
(* was running already when a call of this epoch began wrote after that,   *)
(* or the gate was cut short.  (A call during which a writer starts is     *)
(* discounted by the execution clock.)                                     *)
ReuseSound ==
  \A g \in Gates :
    reused[g] /\ epoch[g] = changeEpoch /\ ~ lateWrite =>
      testedOn[g] \in {found[g], NoTree}

(* What may be reused now was found on a tree with the recorded            *)
(* fingerprint and with the ignored files as they are now: fingerprint and *)
(* epoch together cover the tree (tree-fingerprint.ts 14-16), although the *)
(* gate, other gates and the writers run between the awaits of execute.    *)
RecordCoversTree ==
  RecordIsCurrent /\ ~ lateWrite /\ lastGate.testedOn # NoTree =>
    /\ lastGate.testedOn.visible = lastGate.fingerprint
    /\ lastGate.testedOn.ignored = tree.ignored
=============================================================================
