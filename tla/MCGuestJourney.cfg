SPECIFICATION FairSpec
CONSTANTS
  Cottages = {c1, c2}
  None = None
INVARIANTS
  TypeOK
  PostedOnce
  PeriodOfCottage
  CacheNotAhead
  StayIsPaid
  SuccessIsReal
  OpenChannelIsHeld
PROPERTIES
  CancelEndsJourney
CHECK_DEADLOCK FALSE
