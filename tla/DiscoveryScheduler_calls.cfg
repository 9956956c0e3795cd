SPECIFICATION FairSchedulerSpec
CONSTANTS
  Peers = {p1, p2}
  Workers = {w1, w2}
  Callers = {k1}
  Calls = {c1, c2}
  None = None
  QueueSize = 1
  StateLimit = 1
INVARIANTS
  OneCallPerPeer
  RequestWasMade
PROPERTIES
  RequestReturns
CHECK_DEADLOCK FALSE
