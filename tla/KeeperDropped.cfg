CONSTANTS
  MaxFiles = 3
  MaxRestarts = 0
  MaxSize = 0
  SoftSize = 0
  AgeLimit = FALSE
  RotateCap = 1
  MaxBackoff = 1
  Triggers = {"on-rotate"}
  Policies = {"delete-unarchived"}
SPECIFICATION KFairSpec
PROPERTY RotatedIsArchived
CHECK_DEADLOCK FALSE
