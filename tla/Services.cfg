CONSTANTS
  MaxFrames = 2
  MaxConnects = 2
  MaxRestarts = 1
  Buffer = 1
  Slots = TRUE
  Boats = {b1}
  MaxLives = 2
  MaxLive = 3
  RxCap = 1
  JournalCap = 1
  RotateCap = 1
  RuleSources = {s1}
  Kinds = {k1, k2}
  Wanted = d1
  Other = d2
  Interval = 2
  Age = 2
  Names = {n1, n2}
  Sources = {s1, s2}
  Null = Null
  NoName = NoName
  IdleTicks = 1
  MaxMoves = 2
SPECIFICATION Spec
INVARIANTS AckedWasRead  
PROPERTIES StreamDelivers ShutdownEnds StaleIsRequested ProductInfoArrives
CHECK_DEADLOCK FALSE
