CONSTANTS
  PeerIds = {"self", "relay"}
  LengthLimit = 65536
  Interfaces = {"lo", "eth", "eth1"}
  Loopback = {"lo"}
  Names <- MCNames
  Args <- MCArgs
SPECIFICATION FairSpec
INVARIANTS TypeOK FdReleased FilePrefersRoutable  HintStable RoundTrip
PROPERTIES InitializeReturns
CHECK_DEADLOCK FALSE
