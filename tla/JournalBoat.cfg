CONSTANTS
  MaxSeq = 6
  MaxRepeats = 0
  ChanCap = 2
  BlockSpace = 3
  EntrySize = 1
  MaxDevices = 1
  ReplicaMode = FALSE
  Claims = {FALSE, TRUE}
  Events = {"stop", "pause", "io"}
SPECIFICATION JSpec
INVARIANTS EveryFrameAccounted PipelineInOrder  ReservationHolds 
CHECK_DEADLOCK FALSE
