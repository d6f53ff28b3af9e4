\* The hold of a Call that failed before any claim is never released.
SPECIFICATION FairSpec
CONSTANTS
  Calls = {c1}
  Requests = {r1}
  Jobs = {j1}
  Credits = {u1}
  Price = 1
  MaxGeneration = 2
  MaxAttempts = 1
  MaxCrashes = 0
  None = None
PROPERTIES
  PreReleaseHoldRecovered
