CONSTANTS
  MaxSeq = 3
  BlockLen = 2
  MaxConns = 3
  MaxFlight = 1
  MaxCrashes = 1
  RxMayBeFull = TRUE
  WriteMayFail = TRUE
SPECIFICATION RSpec
INVARIANTS  GapsTracked
PROPERTY HoleClosedByData
VIEW CrashView
CHECK_DEADLOCK FALSE
