SPECIFICATION FairSpec
CONSTANTS
  Callers = {c1, c2}
  Self = 5
  Targets = {4}
  Relays = {1, 2, 3}
  Healthy = {2}
  Reachable = {}
  Protos = {"tunnel", "other"}
  Supported = {"tunnel"}
  Views <- Known
  MaxDials = 1
  MaxWaiters = 1
  MaxCandidates = 3
  TotalTime = 4
  DirectTime = 1
  AttemptTime = 3
  MaxFaults = 1
  None = None
INVARIANTS GateExact GivesUpLast
PROPERTY NATsMeet
CHECK_DEADLOCK FALSE
