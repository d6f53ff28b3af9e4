\* Two requests fight over one Call; one job refunds it.
SPECIFICATION Spec
CONSTANTS
  Calls = {c1}
  Requests = {r1, r2}
  Jobs = {j1}
  Credits = {u1}
  Price = 1
  MaxGeneration = 3
  MaxAttempts = 1
  MaxCrashes = 1
  None = None
SYMMETRY Symmetry
INVARIANTS
  TypeOK
  AbandonedNeverHeld
  RowBackedByLedger
  ClaimedNeverRefunded
  RefundNotForgotten
  HoldInv
PROPERTIES
  TerminalStays
  ImplementsBuyerHold
