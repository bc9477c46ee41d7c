CONSTANTS
  Events = {e1, e2, e3, e4}
  Runs = {r1, r2}
  BatchSize = 2
  MaxRetryQueue = 3
  MaxUnanswered = 1
  MaxRestarts = 1
SPECIFICATION FairSpec
INVARIANTS
  TypeOK
  SentByOne
  DuplicatesNeedLostAnswers
PROPERTIES
  HeldEventsAreSent
