SPECIFICATION FairSpec
CONSTANTS
  MaxMsgs = 3
  MaxRedisErrs = 1
INVARIANTS
  TypeOK
  AckedNotLost
  DeliveredOnce
  InvoiceOfMatch
PROPERTIES
  StopUnblocks
  FirstBufferedEndsWait
CHECK_DEADLOCK FALSE
