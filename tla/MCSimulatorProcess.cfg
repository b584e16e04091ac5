SPECIFICATION FairProcess
CONSTANTS
  Callers = {j1, hours}
  Hours = hours
  NoCaller = NoCaller
  rabbitDialAttempts = 2
  MaxDrops = 2
INVARIANTS
  OnlyCurrentIsOpen
  ClosedForGood
  ExitDisconnects
PROPERTIES
  PoolSpec
  BuildEnds
  SignalEndsProcess
CHECK_DEADLOCK FALSE
