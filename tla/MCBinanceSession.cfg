SPECIFICATION FairSpec
CONSTANTS
  Orders = {o1}
  None = None
  Lots = 2
  MaxQueue = 2
  MaxDrops = 3
CHECK_DEADLOCK FALSE
INVARIANTS
  PictureExplained
PROPERTIES
  FinishedStays
  FreshKey
