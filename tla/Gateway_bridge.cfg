SPECIFICATION FairSpec
CONSTANTS
  c1 = c1
  c2 = c2
  Conns = {c1, c2}
  n1 = n1
  n2 = n2
  Names = {n1, n2}
  AsClient <- SameName
  AsService <- OtherService
  Pipes = {1}
  QueueSize = 1
  MaxFaults = 1
  MaxFrames = 2
  MaxStreams = 2
  FirstDialId = 10
  None = None
  Mesh = Mesh
INVARIANTS AnswerFirst EOFAfterData
PROPERTIES SessionEnds EndIsPassedOn
CHECK_DEADLOCK FALSE
