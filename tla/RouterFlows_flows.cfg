SPECIFICATION FairSpec
CONSTANTS
  v4 = v4
  v6 = v6
  Self = 2
  NoPeer = NoPeer
  NoFlow = NoFlow
  Peers = {1, 3}
  Addrs = {v4, v6}
  Busy = {v4, v6}
  Streams = {s1, s2}
  FlowLimit = 1
  InitialAddrs <- DualStack
  MaxDisturbances = 1
INVARIANTS
  OneLiveFlow
  NoLeakedStream
  QuietAfterClose
  WriteReachesPeer
PROPERTIES
  ForwardEnds
  FlowGetsPump
CHECK_DEADLOCK FALSE
