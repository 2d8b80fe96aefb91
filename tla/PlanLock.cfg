\* Three processes: while one removes the lock of one that died, another may
\* have taken it.  The bound MaxWrites ends the run.
CONSTANTS
  Procs = {p1, p2, p3}
  NoProc = NoProc
  MaxWrites = 3
  MaxCrashes = 2
CHECK_DEADLOCK FALSE
SPECIFICATION LockSpec
INVARIANTS MutualExclusion NoLostUpdate
PROPERTIES DeadLockRecovered
