SPECIFICATION Spec
CONSTANTS
  Models = {m1, m2}
  m1 = m1
  m2 = m2
  large = large
  small = small
  Windows = {large, small}
  Safe <- SafeMC
  Declared <- DeclaredMC
  Served <- ServedMC
  Unknown = Unknown
  First = m1
  Calls = {t1, t2}
  Payloads = {1, 3}
  Margin <- MarginMC
  Usages = {1, 3, 6}
  MaxSessions = 2
  MaxRequests = 2
  MaxEpoch = 1
  MaxCompactions = 1
SYMMETRY Symmetry
CHECK_DEADLOCK FALSE
INVARIANTS SlotAgrees OneResume OverflowRemembered
PROPERTIES CertifiedReservation
