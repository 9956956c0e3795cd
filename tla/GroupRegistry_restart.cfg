SPECIFICATION FairSpec
CONSTANTS
  Peers = {p, q, r}
  Codes = {c, d}
  SubnetMax = 1
  HostMax = 3
  MaxVersion = 2
  MaxFailures = 1
  MaxCrashes = 1
INVARIANTS
  PromiseKept
  RestartChangesNothing
PROPERTIES
  ComesBack
CHECK_DEADLOCK FALSE
