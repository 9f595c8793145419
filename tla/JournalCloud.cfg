CONSTANTS
  MaxSeq = 3
  MaxRepeats = 2
  ChanCap = 2
  BlockSpace = 2
  EntrySize = 1
  MaxDevices = 0
  ReplicaMode = TRUE
  Claims = {FALSE}
  Events = {"stop", "pause", "io"}
SPECIFICATION JFairSpec
INVARIANTS NoSendOnClosedChannel
PROPERTY ShutdownTerminates
CHECK_DEADLOCK FALSE
