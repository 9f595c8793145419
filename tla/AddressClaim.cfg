CONSTANTS
  Virtual = {2, 4}
  Peers = {1, 3}
  MaxAddr = 1
  TxCap = 3
  MaxEvents = 2
SPECIFICATION AFairSpec
INVARIANTS OwnAddressesDistinct NoConflictAtRest
PROPERTY ClaimSettles
CHECK_DEADLOCK FALSE
