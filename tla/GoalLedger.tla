----------------------------- MODULE GoalLedger -----------------------------
(***************************************************************************)
(* The ledger of persistent goals (harness/lib/goal-state.ts) and what the *)
(* goal tools of the model and the goal commands of the user do to it      *)
(* (harness/lib/goal-service.ts).  Each of them is a reducer from the      *)
(* ledger it reads to the one it writes.                                   *)
(*                                                                         *)
(* A goal has criteria, some of them required.  Texts, evidence, history   *)
(* and time stamps are left out: an update that must carry evidence and    *)
(* does not is refused, and what is refused changes nothing.               *)
(***************************************************************************)
EXTENDS Naturals, Sequences

CONSTANTS
  Ids,       \* goal ids
  Criteria,  \* the criteria of a goal
  Required,  \* those that cannot be waived
  MaxGoals,  \* goals a ledger keeps, 64 in the code
  None       \* a current_goal_id of null

ASSUME RequiredAreCriteria == Required \subseteq Criteria
ASSUME GoalsKept == MaxGoals \in Nat \ {0}
ASSUME NoneIsNoId == None \notin Ids

Statuses == {"proposed", "active", "accepted_80_20", "complete", "blocked", "paused",
             "cancelled"}
Terminal == {"complete", "cancelled"}

(* settlement_proposal says whether an 80/20 settlement waits for the user.*)
Goals   == [id: Ids, status: Statuses, settlement_proposal: BOOLEAN,
            criteria: [Criteria -> {"open", "met", "deferred"}]]
Ledgers == [goals: Seq(Goals), current_goal_id: Ids \cup {None}]

EmptyLedger == [goals |-> <<>>, current_goal_id |-> None]

GoalsOf(l) == {l.goals[i] : i \in DOMAIN l.goals}

(* The current goal, which a transaction passes to its reducer, if any.    *)
CurrentGoals(l) == {g \in GoalsOf(l) : g.id = l.current_goal_id}

CreateGoal(id, status) ==
  [id |-> id, status |-> status, settlement_proposal |-> FALSE,
   criteria |-> [c \in Criteria |-> "open"]]

(* Mutant: the oldest goals are kept.                                      *)
LatestFirst(s) == IF Len(s) > MaxGoals THEN SubSeq(s, 1, MaxGoals) ELSE s

Latest(s) == IF Len(s) > MaxGoals THEN SubSeq(s, Len(s) - MaxGoals + 1, Len(s)) ELSE s

(* The goals of another id; an id is there once at most (Valid).           *)
Without(s, id) ==
  IF \E i \in DOMAIN s : s[i].id = id
    THEN LET i == CHOOSE i \in DOMAIN s : s[i].id = id
         IN  SubSeq(s, 1, i - 1) \o SubSeq(s, i + 1, Len(s))
    ELSE s

(* writeGoalUnlocked.  It may be refused for the bytes of the ledger, and  *)
(* the transaction writes nothing then (GoalStore's Refuse); that it is    *)
(* never refused for what else validateGoalLedger asks is LedgerIsValid.   *)
Put(l, g) ==
  [goals |-> Latest(Append(Without(l.goals, g.id), g)),
   current_goal_id |-> IF g.status \notin Terminal THEN g.id
                       ELSE IF l.current_goal_id = g.id THEN None
                       ELSE l.current_goal_id]

(* validateGoalLedger, but for the limit of its bytes.                     *)
Valid(l) ==
  LET nonTerminal == {g \in GoalsOf(l) : g.status \notin Terminal}
  IN  /\ Len(l.goals) =< MaxGoals
      /\ \A i, j \in DOMAIN l.goals : l.goals[i].id = l.goals[j].id => i = j
      /\ \A g, h \in nonTerminal : g = h
      /\ \A g \in nonTerminal : l.current_goal_id = g.id
      /\ nonTerminal = {} => l.current_goal_id = None

-----------------------------------------------------------------------------
(* The reducers: what m a tool or a command may make of the ledger l.      *)

(* goal_propose, by the model, and /goal, by the user.                     *)
New(l, m, status) ==
  /\ \A g \in CurrentGoals(l) : g.status \in Terminal
  /\ \E id \in Ids \ {g.id : g \in GoalsOf(l)} : m = Put(l, CreateGoal(id, status))

Propose(l, m) == New(l, m, "proposed")
Goal(l, m)    == New(l, m, "active")

(* Mutant: progress leaves a pending proposal alone.                       *)
SupersededNot(g) == g.settlement_proposal

(* New progress supersedes a pending proposal.                             *)
Superseded(g) == FALSE

(* goal_update.  A required criterion cannot be deferred.                  *)
Update(l, m) ==
  \E g \in CurrentGoals(l), c \in Criteria, to \in {"open", "met", "deferred"} :
    /\ g.status = "active"
    /\ c \in Required => to # "deferred"
    /\ m = Put(l, [g EXCEPT !.criteria[c] = to, !.settlement_proposal = Superseded(g)])

(* The rules of settleGoal for the two outcomes.                           *)
MayComplete(g) == \A c \in Criteria : g.criteria[c] = "met"
MayAccept(g) == /\ \A c \in Required : g.criteria[c] = "met"
                /\ \A c \in Criteria : g.criteria[c] # "open"

(* goal_settle: completion settles, 80/20 is proposed.                     *)
Complete(l, m) ==
  \E g \in CurrentGoals(l) :
    /\ g.status = "active" /\ MayComplete(g)
    /\ m = Put(l, [g EXCEPT !.status = "complete", !.settlement_proposal = FALSE])

ProposeSettlement(l, m) ==
  \E g \in CurrentGoals(l) :
    /\ g.status = "active" /\ MayAccept(g)
    /\ m = Put(l, [g EXCEPT !.settlement_proposal = TRUE])

(* A change of the status alone.                                           *)
Transition(l, m, from, to) ==
  \E g \in CurrentGoals(l) : g.status \in from /\ m = Put(l, [g EXCEPT !.status = to])

Block(l, m) == Transition(l, m, {"active"}, "blocked")

(* The commands.                                                           *)
AcceptSettlement(l, m) ==
  \E g \in CurrentGoals(l) :
    /\ g.status = "active" /\ g.settlement_proposal /\ MayAccept(g)
    /\ m = Put(l, [g EXCEPT !.status = "accepted_80_20", !.settlement_proposal = FALSE])

AcceptGoal(l, m) == Transition(l, m, {"proposed"}, "active")
Pause(l, m)      == Transition(l, m, {"active", "blocked"}, "paused")
Cancel(l, m)     == Transition(l, m, Statuses \ Terminal, "cancelled")

Resume(l, m) ==
  \/ Transition(l, m, {"accepted_80_20", "paused", "blocked"}, "active")
  \/ \E g \in CurrentGoals(l) :
       /\ g.status = "active" /\ g.settlement_proposal
       /\ m = Put(l, [g EXCEPT !.settlement_proposal = FALSE])

Mutation(l, m) ==
  \/ Propose(l, m) \/ Update(l, m) \/ Complete(l, m) \/ ProposeSettlement(l, m)
  \/ Block(l, m)
  \/ Goal(l, m) \/ AcceptGoal(l, m) \/ AcceptSettlement(l, m) \/ Resume(l, m)
  \/ Pause(l, m) \/ Cancel(l, m)

-----------------------------------------------------------------------------
(* What a ledger satisfies, over any sequence of operations.               *)

(* validateGoalLedger refuses no write, and the next reader finds what it  *)
(* accepts: the ledger has one goal at most that is not settled, it is the *)
(* current one, and it is never among the goals that are dropped.          *)
LedgerIsValid(l) == Valid(l)

(* A goal that is settled satisfies the rules of its settlement, however   *)
(* it was blocked, paused and resumed since the settlement was proposed,   *)
(* and what is proposed to the user may be accepted as it is.              *)
SettlementIsEarned(l) ==
  \A g \in GoalsOf(l) : /\ g.status = "complete" => MayComplete(g)
                        /\ g.status = "accepted_80_20" => MayAccept(g)
                        /\ g.settlement_proposal => MayAccept(g)

(* Goals that are settled for good stay as they are while they are kept.   *)
SettledStays(l, m) ==
  \A g \in GoalsOf(l) : g.status \in Terminal =>
    \A h \in GoalsOf(m) : h.id = g.id => h = g
=============================================================================
