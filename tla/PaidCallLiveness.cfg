\* The worker dies once; both recovery chains and the operator race with its retry.
SPECIFICATION FairSpec
CONSTANTS
  MaxAttempts = 2
  MaxDeaths = 1
  Actors = {"operator"}
INVARIANTS BooksAgree RecoveryWatched
PROPERTIES PendingEnds RecoveryNeverForgotten
CHECK_DEADLOCK FALSE
