CONSTANTS
  MaxSeq = 6
  MaxRepeats = 0
  ChanCap = 2
  BlockSpace = 2
  EntrySize = 1
  MaxDevices = 0
  ReplicaMode = FALSE
  Claims = {FALSE}
  Events = {"stop", "pause", "io"}
SPECIFICATION JSpec
INVARIANT NoSendOnClosedChannel
CHECK_DEADLOCK FALSE
