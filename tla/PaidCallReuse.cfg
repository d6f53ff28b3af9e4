\* A worker that dies once, and nobody else.
SPECIFICATION Spec
CONSTANTS
  MaxAttempts = 1
  MaxDeaths = 1
  Actors = {}
INVARIANTS SignedUnderHold
CHECK_DEADLOCK FALSE
