\* One worker without retries and nobody else.
SPECIFICATION FairSpec
CONSTANTS
  MaxAttempts = 1
  MaxDeaths = 0
  Actors = {}
PROPERTIES HoldReturned
CHECK_DEADLOCK FALSE
