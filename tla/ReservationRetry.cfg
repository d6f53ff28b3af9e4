\* Two requests admit one Call; the one that did not create it is refused by the
\* ledger, abandons nothing and tells its caller to retry.  The caller retries for
\* ever and does not finish its reservation.  A request claims at most one attempt
\* of a Call before it is admitted again, so MaxGeneration is never reached.
SPECIFICATION RetrySpec
CONSTANTS
  Calls = {c1}
  Requests = {r1, r2}
  Jobs = {j1}
  Credits = {u1}
  Price = 1
  MaxGeneration = 3
  MaxAttempts = 1
  MaxCrashes = 0
  None = None
PROPERTIES
  RetryFinishesReservation
