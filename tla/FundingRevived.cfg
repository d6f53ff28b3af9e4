\* A payment that was credited on the customer's return, reversed, and told again by Stripe.
SPECIFICATION Spec
CONSTANTS
  Refunds = {"r1"}
  Disputes = {}
  Kinds = {"return", "paid", "refund"}
  MaxEvents = 2
  MaxTries = 1
  MaxDeaths = 0
  MaxConflicts = 0
  None = None
INVARIANTS ReversedNotCredited
CHECK_DEADLOCK FALSE
