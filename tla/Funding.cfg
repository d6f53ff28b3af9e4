\* Any two events of a payment, and the customer's return, with a death and a conflict.
SPECIFICATION Spec
CONSTANTS
  Refunds = {"r1"}
  Disputes = {"d1"}
  Kinds = {"return", "processing", "paid", "failed", "refund", "refund_updated",
           "partial", "unsettled", "opened", "won", "lost", "other"}
  MaxEvents = 2
  MaxTries = 2
  MaxDeaths = 1
  MaxConflicts = 1
  None = None
INVARIANTS TypeOK ReversedOnce RowBacked AppliedIsBooked LostStaysFrozen NoneForgotten
PROPERTY ImplementsTopUp
CHECK_DEADLOCK FALSE
