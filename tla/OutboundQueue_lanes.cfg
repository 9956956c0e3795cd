SPECIFICATION FairSpec
CONSTANTS
  Dests = {d1, d2, d3}
  Workers = {w1, w2}
  NoWorker = NoWorker
  Capacity = 2
  WorkerLimit = 2
  BudgetMax = 3
  Bytes <- FourPackets
INVARIANTS
  BudgetExact
PROPERTIES
  ImplementsLanes
  StopReturns
CHECK_DEADLOCK FALSE
