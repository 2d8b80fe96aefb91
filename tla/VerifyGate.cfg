\* Three concurrent calls of the tools that matter; a third pending or
\* completed call trims the collection it is in.
CONSTANTS
  Calls = {c1, c2, c3}
  MaxPending = 2
  MaxCompleted = 2
  MaxPrevented = 1
  MaxFires = 2
  HasGate = TRUE
  Tools = {"edit", "shell", "verify_project", "gate_command"}
SYMMETRY Perms
SPECIFICATION Spec
INVARIANTS TypeOK GreenIsFresh HandoffSound NoGreenWhileOwed
