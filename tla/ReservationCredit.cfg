\* Two Calls compete for one unit of credit; two jobs refund them.
SPECIFICATION Spec
CONSTANTS
  Calls = {c1, c2}
  Requests = {r1}
  Jobs = {j1, j2}
  Credits = {u1}
  Price = 1
  MaxGeneration = 1
  MaxAttempts = 1
  MaxCrashes = 0
  None = None
SYMMETRY Symmetry
INVARIANTS
  CreditConserved
CONSTRAINT CrossingRefunds
