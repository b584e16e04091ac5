SPECIFICATION FairSpec
CONSTANTS
  concurrencyLevel = 4
INVARIANTS
  WithinLevel
  ShutdownReleases
PROPERTIES
  PoolRefills
CHECK_DEADLOCK FALSE
