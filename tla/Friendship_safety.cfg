SPECIFICATION Spec
CONSTANTS
  a = a
  b = b
  Nodes <- Pair
  AutoAccept <- JustA
  Users <- Pair
  Patient <- Pair
  Warm <- JustB
  Lossy <- JustA
  MaxOrders = 2
INVARIANTS TombstoneBeatsTrust NoGhost
CHECK_DEADLOCK FALSE
