SPECIFICATION Spec
CONSTANTS
  Nights = 3
  Strays <- NoStrays
  MaxStrays = 0
INVARIANTS
  FullDaysLived
CHECK_DEADLOCK FALSE
