SPECIFICATION Spec
CONSTANTS
  Calls = {c1, c2}
  Kinds = {"edit", "gate", "fix"}
  Plans <- PlansMC
  Readings = {137}
  None = None
  MaxTransitions = 3
  MaxSequence = 11
  MaxSessions = 2
  MaxRuns = 2
  MaxSignals = 1
  MaxCompactions = 1
SYMMETRY Symmetry
CHECK_DEADLOCK FALSE
INVARIANTS TypeOK ValidMeansCovered
PROPERTIES CompleteIsEarned
