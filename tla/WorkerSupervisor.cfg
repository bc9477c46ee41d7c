CONSTANTS
  MaxCrashes = 2
  MaxManual = 2
  MaxSignals = 2
SPECIFICATION FairSpec
INVARIANTS
  TypeOK
  RunningHasAProcess
  StartsAreAccountedFor
PROPERTY CrashedWorkersComeBack
CHECK_DEADLOCK FALSE
