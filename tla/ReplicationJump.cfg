CONSTANTS
  MaxSeq = 5
  BlockLen = 2
  MaxConns = 3
  MaxFlight = 2
  MaxCrashes = 0
  RxMayBeFull = FALSE
  WriteMayFail = FALSE
SPECIFICATION RSpec
INVARIANT CursorContinuous
CHECK_DEADLOCK FALSE
