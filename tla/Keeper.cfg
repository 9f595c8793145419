CONSTANTS
  MaxFiles = 3
  MaxRestarts = 1
  MaxSize = 2
  SoftSize = 1
  AgeLimit = TRUE
  RotateCap = 1
  MaxBackoff = 2
  Triggers = {"on-rotate", "before-expire"}
  Policies = {"delete-unarchived", "pause-recording"}
SPECIFICATION KFairSpec
INVARIANT RetryArmed
PROPERTIES  CapEnforced PauseEnds
CHECK_DEADLOCK FALSE
