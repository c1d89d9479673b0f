SPECIFICATION FairSpec
CONSTANTS
  Own = {o1}
  Manual = {m1}
  None = None
  Lots = 2
  MaxQueue = 2
  MaxDrops = 1
CHECK_DEADLOCK FALSE
INVARIANTS
  PictureExplained
PROPERTIES
  FinishedStays
  Resubscribed
