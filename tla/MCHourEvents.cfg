SPECIFICATION FairSpec
CONSTANTS
  HoursPerDay = 3
  Targets <- MCTargets
  MaxTime = 4
  MaxFaults = 1
INVARIANTS
  TypeOK
  NeverEarly
PROPERTIES
  ServiceNeverStalls
  WatchersEnd
  OfferedHourEndsWait
CHECK_DEADLOCK FALSE
