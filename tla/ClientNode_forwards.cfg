SPECIFICATION FairSpec
CONSTANTS
  Ports = {p1}
  Targets = {a}
  Setters = {s1, s2}
  Listeners = {l1, l2, l3}
  Conns = {k1}
  Has = {"db", "tun", "console"}
  Files <- NoFile
  MaxFaults = 1
  None = None
INVARIANT LastTableWins
PROPERTY EverythingGoes
CHECK_DEADLOCK FALSE
