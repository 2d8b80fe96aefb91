------------------------ MODULE ContinuationHistory -------------------------
(***************************************************************************)
(* What the dispatcher promises across steps: history variables over       *)
(* Continuation count the deliveries to each owner's revision and the      *)
(* turns the harness started since the user spoke, and remember which      *)
(* answers the owner has gone back on since.                               *)
(***************************************************************************)
EXTENDS Continuation

VARIABLES
  deliveries,  \* session, owner and revision -> turns started for it
  sinceUser,   \* turns started since the user's last message or session
  overtaken    \* flushes whose owner changed since its second answer

historyVars == <<vars, deliveries, sinceUser, overtaken>>

Keys == Sessions \X Owners \X Revisions

HistoryInit ==
  Init /\ deliveries = [k \in Keys |-> 0] /\ sinceUser = 0 /\ overtaken = {}

(* The flush that dispatches, if any, and for whom.                        *)
Dispatching ==
  IF turnContinuations' =< turnContinuations THEN {}
  ELSE {f \in Flushes : flush[f].pc = "answered" /\ flush'[f] # flush[f]}

KeyOf(f) == <<session, flush[f].offer.owner, flush[f].offer.rev>>

UserSpeaks == starting = "user" /\ run = "idle" /\ run' = "begun"

Count(fs) ==
  /\ deliveries' = [k \in Keys |-> deliveries[k] + Cardinality({f \in fs : KeyOf(f) = k})]
  /\ sinceUser' = IF UserSpeaks \/ generation' # generation THEN 0 ELSE sinceUser + Cardinality(fs)

HistoryNext ==
  /\ Next
  /\ IF Dispatching = {} /\ ~ UserSpeaks /\ generation' = generation
       THEN UNCHANGED <<deliveries, sinceUser>>
       ELSE Count(Dispatching)
  /\ overtaken' = {f \in Flushes : /\ flush[f].pc = "answered" /\ flush'[f] = flush[f]
                                   /\ f \in overtaken \/ revision' # revision}

HistorySpec == HistoryInit /\ [][HistoryNext]_historyVars

-----------------------------------------------------------------------------
(* One flush at most is under way for the current session, and inFlight    *)
(* says so: a flush that a reload cancelled does not clear the lock of the *)
(* new generation (control-arbiter.ts 120-122).                            *)
SingleFlight ==
  /\ \A f, g \in Flushes : flush[f] # NoFlush /\ flush[g] # NoFlush /\ Current(f) /\ Current(g) => f = g
  /\ inFlight <=> \E f \in Flushes : flush[f] # NoFlush /\ Current(f)

(* An offer that waits while nothing runs is not forgotten: a flush is     *)
(* queued, or the one under way will look again.                           *)
NoStrandedOffer ==
  pending # {} /\ live /\ ~ agentActive => microtasks > 0 \/ inFlight

(* One delivery per owner revision, whoever offered it, across reloads of  *)
(* the session and flushes that overlap them.                              *)
OneDelivery == \A k \in Keys : deliveries[k] =< 1

(* At most MaxTurns turns are started by the harness between two messages  *)
(* of the user, although the run of each resets nothing and the handlers   *)
(* cannot see who started a run.                                           *)
TurnBudget == sinceUser =< MaxTurns

(* The offer about to be dispatched was revoked only if that happened      *)
(* after its second answer was read: "a transition that lands during       *)
(* authorization cannot slip through" (control-arbiter.ts 83-85).          *)
RevocationSeen ==
  \A f \in Flushes \ overtaken :
    flush[f].pc = "answered" => flush[f].offer.rev = revision[flush[f].offer.owner]

(* "An aborted run stays stopped until the user sends something new"       *)
(* (control-arbiter.ts 43).                                                *)
AbortedStaysStopped ==
  [][turnContinuations' > turnContinuations => ~ stoppedByAbort]_vars
=============================================================================
