SPECIFICATION Spec
CONSTANTS
  Ops = {o1, o2}
  Queries = {q1}
  Urls = {u1}
  Claims = {c1}
  Branches = {b1}
  Procs = {p1, p2}
  Allocated <- AllocatedMC
  Share <- ShareMC
  Proposals <- ProposalsMC
  Notes <- NotesMC
  Reloads = {}
  MaxExtend = 1
  MaxLeases = 1
  MaxLate = 1
SYMMETRY Symmetry
CHECK_DEADLOCK FALSE
INVARIANTS TypeOK LedgerBalanced LeaseBacked SettledAtRest
PROPERTIES EvidenceFrozen OnlyExtensionResumes
