\* A refused Call is refunded although its jobs crash, lose leases and fail.
SPECIFICATION FairSpec
CONSTANTS
  Calls = {c1}
  Requests = {r1}
  Jobs = {j1, j2}
  Credits = {u1}
  Price = 1
  MaxGeneration = 1
  MaxAttempts = 2
  MaxCrashes = 1
  None = None
PROPERTIES
  RefundResolved
