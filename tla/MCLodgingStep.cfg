SPECIFICATION FairSpec
CONSTANTS
  Nights = 3
  Strays <- MCStrays
  MaxStrays = 1
INVARIANTS
  TypeOK
  NothingUnprompted
PROPERTIES
  StayEnds
CHECK_DEADLOCK FALSE
