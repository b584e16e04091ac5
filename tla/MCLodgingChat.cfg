SPECIFICATION FairSpec
CONSTANTS
  InCap = 1
  AckCap = 1
  MaxSends = 2
  MaxSys = 2
  MaxDups = 2
  AckStatus = {"accepted"}
INVARIANTS
  TypeOK
  AckedBeforeDispatch
PROPERTIES
  ContractSpec
  AckEndsSend
  MessageEndsWait
  ErrorEndsCall
CHECK_DEADLOCK FALSE
