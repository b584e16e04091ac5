SPECIFICATION Spec
CONSTANTS
  InCap = 1
  AckCap = 1
  MaxSends = 1
  MaxSys = 1
  MaxDups = 0
  AckStatus = {"accepted", "rejected"}
PROPERTY
  RejectedIsReported
CHECK_DEADLOCK FALSE
