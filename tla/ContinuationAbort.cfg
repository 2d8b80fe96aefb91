\* A late offer, a message of the user and an abort.
CONSTANTS
  goal = goal
  compact = compact
  Owners = {o1}
  Producers <- MCProducers
  Priority <- MCPriority
  Sessions = {s1}
  Flushes = {f1}
  NoOne = NoOne
  MaxTurns = 1
  MaxRevision = 1
  MaxGeneration = 1
  MaxTasks = 1
  MaxPending = 1
SPECIFICATION HistorySpec
CHECK_DEADLOCK FALSE
PROPERTY AbortedStaysStopped
