\* Two lookups of one peer, with room for another command between them.
CONSTANTS
  NoPending = NoPending
  Lookups = {l1, l2}
  Peers = {p1}
  RelayServer = relay
  MaxCmds = 2
SPECIFICATION FairSpec
INVARIANTS TypeOK LookupOwned PendingDialing
PROPERTY LookupReturns
