SPECIFICATION Spec
CONSTANTS
  None = None
  MaxEvents = 6
  MaxSessions = 2
  MaxRuns = 2
  MaxCompactions = 1
CHECK_DEADLOCK FALSE
INVARIANTS BriefOwed PhaseCheckpointed
PROPERTIES OneRunPerCapsule HandlerReturns
