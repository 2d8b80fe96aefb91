\* One goal with two revisions, a reload or a second session, and a budget of
\* one turn.
CONSTANTS
  goal = goal
  compact = compact
  Owners = {o1}
  Producers <- MCProducers
  Priority <- MCPriority
  Sessions = {s1, s2}
  Flushes = {f1, f2}
  NoOne = NoOne
  MaxTurns = 1
  MaxRevision = 1
  MaxGeneration = 2
  MaxTasks = 1
  MaxPending = 2
SYMMETRY Perms
SPECIFICATION HistorySpec
CHECK_DEADLOCK FALSE
INVARIANTS SingleFlight NoStrandedOffer OneDelivery TurnBudget RevocationSeen
