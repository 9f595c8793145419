CONSTANTS
  MaxSeq = 7
  MaxRepeats = 0
  ChanCap = 1
  BlockSpace = 2
  EntrySize = 1
  MaxDevices = 0
  ReplicaMode = FALSE
  Claims = {FALSE}
  Events = {}
  RingSize = 4
  Consumers = {c1}
SPECIFICATION TFairSpec
INVARIANTS RingExact DeliveredTrue NoBlindSpot
PROPERTIES GivesUpOnlyBehindRing ConsumerProgress
CHECK_DEADLOCK FALSE
