--------------------------- MODULE ResearchLedger ---------------------------
(***************************************************************************)
(* The evidence ledger of a parent-led research run, as reducers on one    *)
(* record (class ResearchRoundLedger, harness/lib/research-round.ts).      *)
(*                                                                         *)
(* A query, a page and a claim are identities.  A query is reserved and    *)
(* charged once, a page is charged once per kind of read.  Texts, leads,   *)
(* gaps, digests and the capacities of the lists (32 rounds, operations    *)
(* and receipts, which the budget keeps out of reach) are left out, and so *)
(* are optional claims: settle makes the model name each unresolved one,   *)
(* and refuses any other name, so that they bind nothing.                  *)
(***************************************************************************)
EXTENDS Naturals, FiniteSets, FiniteSetsExt

CONSTANTS Ops,       \* retrieval operations, one per tool call
          Queries, Urls, Claims,
          Branches,  \* the root branches of the research graph, the owners of children
          Procs,     \* processes, by process id
          Allocated, \* the run's budget: 3 searches, 5 reads, 5 validation reads
          Share      \* the budget of a branch, reserved for its child

Kinds == {"searches", "reads", "validation"}
Zero  == [k \in Kinds |-> 0]
a (+) b == [k \in Kinds |-> a[k] + b[k]]
a (-) b == [k \in Kinds |-> a[k] - b[k]]
Within(a, b) == \A k \in Kinds : a[k] <= b[k]
Only(k, n)   == [Zero EXCEPT ![k] = n]

ASSUME Envelopes == /\ Allocated \in [Kinds -> Nat] /\ Share \in [Kinds -> Nat]
                    /\ Share["validation"] = 0 /\ Share # Zero
ASSUME FiniteWork == /\ IsFiniteSet(Ops) /\ IsFiniteSet(Queries) /\ IsFiniteSet(Urls)
                     /\ IsFiniteSet(Branches)

(* An operation holds its request and its reservation until it is done;    *)
(* nothing reads them afterwards.                                          *)
Unused     == [at |-> "none"]
Done       == [at |-> "done"]
Wanted(kind) == IF kind = "searches" THEN Queries ELSE Urls
Calling(kind) == [at : {"open"}, kind : {kind}, request : SUBSET Wanted(kind), unit : Nat, owner : Procs]
OpenOps    == Calling("searches") \cup Calling("reads")
Operations == {Unused, Done} \cup OpenOps

EmptyLedger ==
  [status |-> "active", consumed |-> Zero, reserved |-> Zero,
   queries |-> {},                \* reserved_queries
   read |-> {}, validated |-> {}, \* pages with an accepted read, by phase
   usable |-> {},                 \* pages whose validation read completed
   lost |-> {}, lostReads |-> 0,  \* read_receipts: pages and what was charged for them
   covered |-> {},                \* claims of parent-validated, complete cards
   conflicts |-> {},              \* claims with an open conflict
   ops |-> [o \in Ops |-> Unused],
   children |-> {},               \* owners in child_reservations
   reports |-> {},                \* owners in child_reports
   childSpent |-> Zero]           \* what the reports were charged

InFlight(l) == {o \in Ops : l.ops[o].at = "open"}
OfKind(l, os, k) == {o \in os : l.ops[o].kind = k}
Room(l, k)  == Allocated[k] - (l.consumed[k] + l.reserved[k])
Fits(l, e)  == Within(l.consumed (+) l.reserved (+) e, Allocated)

(* The units of operations are places that bear the operation's name: what *)
(* they have reserved together is the number of places.                    *)
Places(l, os) == UNION {{o} \X (1..l.ops[o].unit) : o \in os}
Units(l, os)  == Cardinality(Places(l, os))

Release(l, o) == [l EXCEPT !.reserved = @ (-) Only(l.ops[o].kind, l.ops[o].unit), !.ops[o] = Done]

-----------------------------------------------------------------------------
(* A query that is reserved and a page that was read cost nothing more.    *)
Unit(l, kind, request) ==
  IF kind = "searches" THEN Cardinality(request \ l.queries)
                       ELSE Cardinality(request \ (l.read \cup l.lost))

MayAuthorize(l, o, kind, request) ==
  /\ l.status # "settled" /\ l.ops[o] = Unused
  /\ Fits(l, Only(kind, Unit(l, kind, request)))

Authorize(l, o, kind, request, p) ==
  LET unit == Unit(l, kind, request) IN
  [l EXCEPT !.reserved = @ (+) Only(kind, unit),
            !.ops[o] = [at |-> "open", kind |-> kind, request |-> request, unit |-> unit, owner |-> p]]

(* Mutant: a query found by two calls at once is charged to both.          *)
SearchReceiptTwice(l, o) ==
  LET asked == l.ops[o].request IN
  [Release(l, o) EXCEPT !.consumed = @ (+) Only("searches", Cardinality(asked)), !.queries = @ \cup asked]

(* The receipt of a search that ran, whatever it returned.                 *)
SearchReceipt(l, o) ==
  LET new == l.ops[o].request \ l.queries IN
  [Release(l, o) EXCEPT !.consumed = @ (+) Only("searches", Cardinality(new)), !.queries = @ \cup new]

-----------------------------------------------------------------------------
(* The items of a proposal are taken in its order while the budget lasts.  *)
Accepted(new, room) == {s \in SUBSET new : Cardinality(s) = Min({room, Cardinality(new)})}

(* Mutant: what was read while searching validates too.                    *)
RoundAnyRead(l, q, r, v, ok, c, x, y) ==
  [l EXCEPT !.consumed = @ (+) [searches |-> Cardinality(q), reads |-> Cardinality(r), validation |-> Cardinality(v)],
            !.queries = @ \cup q, !.read = @ \cup r, !.validated = @ \cup v, !.usable = @ \cup r \cup v,
            !.covered = @ \cup c, !.conflicts = (@ \ y) \cup x]

(* What a round with the accepted queries q, reads r and validation reads  *)
(* v does; ok: the validation reads completed; cards cover the claims c;   *)
(* conflicts open on the claims x and close on y.  An obligation is marked *)
(* resolved once its claim is covered without a conflict: with no conflict *)
(* left, the resolved ones are the covered ones.                           *)
Round(l, q, r, v, ok, c, x, y) ==
  LET used == [searches |-> Cardinality(q), reads |-> Cardinality(r), validation |-> Cardinality(v)]
      covered   == l.covered \cup c
      conflicts == (l.conflicts \ y) \cup x
      noBudget  == \A k \in Kinds : Room(l, k) = used[k]
  IN [l EXCEPT !.consumed = @ (+) used,
               !.queries = @ \cup q, !.read = @ \cup r, !.validated = @ \cup v,
               !.usable = IF ok THEN @ \cup v ELSE @,
               !.covered = covered, !.conflicts = conflicts,
               !.status = IF covered = Claims /\ conflicts = {} THEN "ready"
                          ELSE IF noBudget THEN "blocked" ELSE "active"]

(* A card that claims parent validation needs a completed validation read. *)
Rounds(l, q, r, v, ok, c, x, y) ==
  {n \in {Round(l, qs, rs, vs, ok, c, x, y) :
            qs \in Accepted(q \ l.queries, Room(l, "searches")),
            rs \in Accepted(r \ l.read, Room(l, "reads")),
            vs \in Accepted(v \ l.validated, Room(l, "validation"))} :
     c = {} \/ n.usable # {}}

(* The receipt of a read: the reservation is released first, so that the   *)
(* round that takes its place finds the room.                              *)
ReadReceipts(l, o) == Rounds(Release(l, o), {}, l.ops[o].request, {}, FALSE, {}, {}, {})

-----------------------------------------------------------------------------
(* Operations of processes that are gone: what the provider spent is       *)
(* unknown, so each is charged as if it had run.                           *)
Abandoned(l, dead) == {o \in InFlight(l) : l.ops[o].owner \in dead}

RecoverAbandoned(l, dead) ==
  LET gone     == Abandoned(l, dead)
      searches == OfKind(l, gone, "searches")
      reads    == OfKind(l, gone, "reads")
      new      == (UNION {l.ops[o].request : o \in searches}) \ l.queries
  IN IF gone = {} THEN l
     ELSE [l EXCEPT !.reserved = @ (-) Only("searches", Units(l, searches)) (-) Only("reads", Units(l, reads)),
                    !.consumed = @ (+) Only("searches", Cardinality(new)) (+) Only("reads", Units(l, reads)),
                    !.queries = @ \cup new,
                    !.lost = @ \cup UNION {l.ops[o].request : o \in reads},
                    !.lostReads = @ + Units(l, reads),
                    !.ops = [o \in Ops |-> IF o \in gone THEN Done ELSE @[o]]]

-----------------------------------------------------------------------------
(* One bounded child per run: a run that has a child, or had one that      *)
(* reported, gets no other.                                                *)
MayReserveChild(l, b) ==
  l.status # "settled" /\ l.children = {} /\ l.reports = {} /\ Fits(l, Share)

ReserveChild(l, b) == [l EXCEPT !.children = @ \cup {b}, !.reserved = @ (+) Share]

(* The lease was given back before the child was started.                  *)
ReleaseChild(l, b) ==
  IF b \in l.children THEN [l EXCEPT !.children = @ \ {b}, !.reserved = @ (-) Share] ELSE l

(* A child that failed is charged everything it was allowed to spend.      *)
MergeChild(l, b, spent, failed) ==
  LET charged == IF failed THEN Share ELSE spent IN
  IF l.status = "settled" \/ b \notin l.children THEN l
  ELSE [l EXCEPT !.children = @ \ {b}, !.reports = @ \cup {b},
                 !.reserved = @ (-) Share, !.consumed = @ (+) charged, !.childSpent = @ (+) charged,
                 !.status = IF failed THEN "blocked" ELSE @]

(* Mutant: a child that lost its lease is taken for one that never ran.    *)
InterruptRefunded(l, bs) ==
  LET gone == bs \cap l.children IN
  [l EXCEPT !.children = @ \ gone, !.reserved = @ (-) [k \in Kinds |-> Cardinality(gone) * Share[k]]]

(* closeInterruptedResearchLease: a child that lost its lease may have     *)
(* run, and is charged in full.                                            *)
Times(n, e) == [k \in Kinds |-> n * e[k]]

Interrupt(l, bs) ==
  LET gone == bs \cap l.children
      charged == Times(Cardinality(gone), Share)
  IN IF l.status = "settled" \/ gone = {} THEN l
     ELSE [l EXCEPT !.children = @ \ gone, !.reports = @ \cup gone, !.status = "blocked",
                    !.reserved = @ (-) charged, !.consumed = @ (+) charged, !.childSpent = @ (+) charged]

-----------------------------------------------------------------------------
(* Mutant: calls under way do not matter.                                  *)
MaySettleBusy(l, graphTerminal) ==
  /\ graphTerminal /\ l.covered = Claims /\ l.conflicts = {} /\ l.children = {}

MaySettle(l, graphTerminal) ==
  /\ graphTerminal /\ l.covered = Claims /\ l.conflicts = {}
  /\ l.children = {} /\ InFlight(l) = {}

Settle(l) == [l EXCEPT !.status = "settled"]
=============================================================================
