CONSTANTS
  Calls = {c1, c2, c3, c4}
  FailureThreshold = 3
  SuccessThreshold = 2
  MaxAttempts = 2
SPECIFICATION FairSpec
INVARIANTS
  TypeOK
PROPERTIES
  ClosesAfterConsecutiveSuccesses
  ClosesAfterRecovery
