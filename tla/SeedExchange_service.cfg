SPECIFICATION FairSpec
CONSTANTS
  Instances = {i1,i2}
  Users = {u1,u2}
  Peers = {p, q}
  MaxProbes = 1
  None = None
  Order <- OneScope
  MaxExchanges = 1
  SeedLimit = 1
  Public = {p}
INVARIANTS NoHearsay NothingStays
PROPERTIES PlacesComeBack BootstrapEnds
CHECK_DEADLOCK FALSE
