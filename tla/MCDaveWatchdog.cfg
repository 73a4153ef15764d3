SPECIFICATION Spec
CHECK_DEADLOCK FALSE
CONSTANTS
  ResendLimit = 2
  ResendWindow = 3
  ResetLimit = 1
  ResetWindow = 2
  MaxGen = 2
  MaxTime = 4
INVARIANTS
  RateBounded
  KeepsTrying
  NoOrphanWatchdog
