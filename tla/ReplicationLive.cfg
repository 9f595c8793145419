CONSTANTS
  MaxSeq = 4
  BlockLen = 2
  MaxConns = 2
  MaxFlight = 1
  MaxCrashes = 0
  RxMayBeFull = FALSE
  WriteMayFail = FALSE
SPECIFICATION RFairSpec
PROPERTY BackfillDelivers
CHECK_DEADLOCK FALSE
