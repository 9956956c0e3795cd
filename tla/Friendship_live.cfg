SPECIFICATION FairSpec
CONSTANTS
  a = a
  b = b
  Nodes <- Pair
  AutoAccept <- Pair
  Users <- JustA
  Patient <- JustA
  Warm <- Nobody
  Lossy <- Nobody
  MaxOrders = 2
PROPERTIES FriendsMeet DeletionSpreads
CHECK_DEADLOCK FALSE
