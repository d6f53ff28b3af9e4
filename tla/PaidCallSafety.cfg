\* The buyer, the sweep and both recovery chains race with a worker without retries.
SPECIFICATION Spec
CONSTANTS
  MaxAttempts = 3
  MaxDeaths = 0
  Actors = {"cancel", "sweep"}
INVARIANTS TypeOK ChargedOnlyIfPaid UnusedOnlyIfDead SignedOnlyWhenMarked CompletedIsPaid CreditFollows
PROPERTIES PinnedStays ImplementsHoldEnding
CHECK_DEADLOCK FALSE
