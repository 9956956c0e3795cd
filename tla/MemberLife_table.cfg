SPECIFICATION FairLifeSpec
CONSTANTS
  x = x
  y = y
  MaxId = 3
  Self = 0
  Addresses <- TwoAddresses
  SaltMax = 1
  ExpiredMemberLimit = 1
  MaxHeard = 1
  Derivations <- UpToNames
INVARIANTS HistoryDoesNotMatter ConflictsAreSettled
PROPERTIES DeadStayDead IsolationIsNoBan
CHECK_DEADLOCK FALSE
