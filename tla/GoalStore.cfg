\* A third goal drops the first; one required and one optional criterion.
CONSTANTS
  Ids = {g1, g2, g3}
  Criteria = {c1, c2}
  Required = {c1}
  MaxGoals = 2
  None = None
  Procs = {p1, p2}
  MaxCrashes = 2
SYMMETRY Perms
SPECIFICATION Spec
INVARIANTS LedgerValid SettlementEarned
PROPERTIES SettledFrozen Serialized
