SPECIFICATION Spec
CONSTANTS
  s1 = s1
  s2 = s2
  None = None
  Names <- OneName
  Directions <- BothWays
  Prices <- OnePrice
  Volume = 2
  MaxGen = 1
  MaxOrders = 2
  MaxStops = 0
  MaxBus = 3
  MaxDups = 1
  MaxRestarts = 0
CHECK_DEADLOCK FALSE
INVARIANTS
  VenueAgreement
  StopReachesOrders
