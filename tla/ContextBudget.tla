--------------------------- MODULE ContextBudget ---------------------------
(***************************************************************************)
(* What a request is measured against (harness/lib/context-profile.ts and  *)
(* harness/lib/context-accounting.ts), as operators.                       *)
(*                                                                         *)
(* Tokens are small numbers.  Of a serving window only the input budget is *)
(* kept, what the completion reserve and the overhead leave of it; the     *)
(* inventory of the payload's contributors is left out.                    *)
(***************************************************************************)
EXTENDS Integers, FiniteSets

CONSTANTS
  Models,    \* provider, model id and endpoint
  Windows,   \* serving windows
  Safe,      \* safe_input_tokens of each window
  Declared,  \* the window the registry gives each model
  Served,    \* the window its server has
  Unknown    \* null: no model, no measurement, no window

Epochs       == Models \X Windows
Observations == [tokens : Nat, epoch : Epochs, generation : Nat, window : Windows]

ASSUME Budgets ==
  /\ Safe \in [Windows -> Nat]
  /\ Declared \in [Models -> Windows] /\ Served \in [Models -> Windows]
  /\ Unknown \notin Nat \cup Observations

(* contextEpochKey: what a reservation or a measurement is bound to.       *)
EpochKey(p) == <<p.model, p.window>>

(* contextNeedsHandoff, and the hysteresis below which a handoff is armed  *)
(* again: strictly under three quarters of the budget.                     *)
NeedsHandoff(w, tokens) == tokens # Unknown /\ tokens >= Safe[w]
BelowRearm(w, tokens)   == tokens # Unknown /\ 4 * tokens < 3 * Safe[w]

-----------------------------------------------------------------------------
(* An observation says for which epoch, in which compaction generation and *)
(* against which window the tokens were counted.                           *)
Stale(o, epoch, generation) ==
  o.epoch # epoch \/ o.generation # generation \/ o.window # epoch[2]

Over(o, w) == o.tokens > Safe[w]
Counted(o) == IF o = Unknown THEN 0 ELSE o.tokens

Larger(a, b) == IF a > b THEN a ELSE b

(* What the request leaves for the outputs of its tools, reservations      *)
(* included.  The uncertainty of the payload's count counts against the    *)
(* larger of it and the report.                                            *)
Room(w, payload, margin, o) == Safe[w] - Larger(payload, Counted(o)) - margin

(* buildContextAccounting, its outcome and reason_class.                   *)
Verdict(epoch, generation, payload, margin, o, held) ==
  IF o # Unknown /\ Stale(o, epoch, generation) THEN "stale_usage_epoch"
  ELSE IF o # Unknown /\ Over(o, epoch[2]) /\ payload + margin + held <= Safe[epoch[2]]
       THEN "observed_budget_exceeded"
  ELSE IF Room(epoch[2], payload, margin, o) < held THEN "aggregate_budget_exceeded"
  ELSE "within_budget"

-----------------------------------------------------------------------------
(* class ContextReservationLedger.  The tokens of a reservation are places *)
(* that bear its id: what is held is their number.                         *)
Of(ledger, epoch)   == {r \in ledger : r.epoch = epoch}
Places(ledger)      == UNION {{r.id} \X (1..r.tokens) : r \in ledger}
Held(ledger, epoch) == Cardinality(Places(Of(ledger, epoch)))

(* A known id changes nothing, whatever is asked for it.                   *)
Grants(ledger, id, epoch, tokens, allowance) ==
  /\ \A r \in ledger : r.id # id
  /\ Held(ledger, epoch) + tokens <= allowance
=============================================================================
