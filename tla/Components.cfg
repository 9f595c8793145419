CONSTANTS
  MaxEnd = 6
  Listeners = {l1}
  Pgns = {p1, p2}
  Claim = claim
  Allowed = {p1}
  ChanCap = 2
  TxCap = 1
  MaxEvents = 3
  MaxQueries = 1
  Window = 2
  SilenceTimeout = 1
  AlertCap = 1
  Nodes = {n1, n2}
  First = 1
  Rest = 2
  Nums = 4
  Counters = 2
  PacketLengths = {2, 5}
  MaxTransfers = 2
  MaxUnseen = 2
  Size = 2
  Lens <- JournalLens
  Values = {0, 1, 2}
  Others = {0, 1}
  NA = NA
  Lengths = {1, 2, 3}
  Bits = 2
  Tolerance = 1
  MinDecode = 2
  IdleTimeout = 1
  Lag = 2
  MaxWords = 11
SPECIFICATION Spec
INVARIANTS HolesAgree ListenerInOrder  AlertsAgree    ReplayFollows FilterMeans
PROPERTY HolesImplementSet
CHECK_DEADLOCK FALSE
