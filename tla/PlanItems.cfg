\* Three items: a chain or a diamond's half, an item with two dependencies,
\* a parent with two children.
CONSTANTS
  Items = {i1, i2, i3}
  MaxItems = 3
  MaxDeps = 2
  MaxDepth = 1
  MaxKids = 2
  PlanGraph = TRUE
  None = None
SYMMETRY Perms
SPECIFICATION Spec
INVARIANTS TypeOK StartedAfterDeps OneInProgress StuckIsReported
PROPERTIES OpenWorkKept SettledFrozen
