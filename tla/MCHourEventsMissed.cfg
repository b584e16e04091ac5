SPECIFICATION FairSpec
CONSTANTS
  HoursPerDay = 3
  Targets <- MCOneTarget
  MaxTime = 2
  MaxFaults = 0
PROPERTY
  ReachedEndsWait
CHECK_DEADLOCK FALSE
