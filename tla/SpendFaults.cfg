SPECIFICATION Spec
CONSTANTS
  c1 = c1
  c2 = c2
  c3 = c3
  p1 = p1
  p2 = p2
  Calls = {c1, c2}
  Payees = {p1}
  Payee <- MCPayee
  Amount <- MCAmount
  MaxAmount = 2
  CallMax = 2
  PlatformMax = 2
  PayeeMax = 2
  NewPayeeMax = 1
  HistoryLimit = 2
  Window = 1
  Freshness = 0
  Validity = 2
  MaxTime = 3
  MaxLag = 1
  MaxGeneration = 2
  Faults = {"death", "cancel", "sweep", "flag"}
INVARIANTS TypeOK WithinCaps PaidWithinCaps UnusedNeverPaid FlaggedNotPaid
PROPERTIES ResolvedOnce
CHECK_DEADLOCK FALSE
