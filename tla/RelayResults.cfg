\* Two lookups of a peer that comes and goes.
CONSTANTS
  NoPending = NoPending
  Lookups = {l1, l2}
  Peers = {p1}
  RelayServer = relay
  MaxCmds = 2
SPECIFICATION Spec
PROPERTY LookupResultTrue
