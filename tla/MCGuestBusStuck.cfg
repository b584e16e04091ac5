SPECIFICATION FairSpec
CONSTANTS
  MaxMsgs = 2
  MaxRedisErrs = 0
PROPERTY
  BufferedEndsWait
CHECK_DEADLOCK FALSE
