SPECIFICATION FairUpdateSpec
CONSTANTS
  Shipped = 1
  MaxVersion = 2
  Helpers = {h1, h2}
  Unsuited = {{2}, {4}}
INVARIANTS
  NothingLost
  OffersItself
PROPERTIES
  LandedIsKept
  ComesBack
CHECK_DEADLOCK FALSE
