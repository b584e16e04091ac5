SPECIFICATION Spec
CONSTANTS
  Cottages = {1, 2}
  numberOfNights = {2, 3}
  searchWindows <- MCWindows
  minSearchLeadDays = 1
  maxPeriodAttempts = 2
  HoursPerDay = 2
  Nows = {0, 1, 2}
  Answers <- MCAnswers
  Graphs <- MCGraphs
INVARIANTS
  BestOffered
  FairShare
PROPERTIES
  JourneySteps
CHECK_DEADLOCK FALSE
