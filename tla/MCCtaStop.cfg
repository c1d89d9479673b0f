SPECIFICATION Spec
CONSTANTS
  s1 = s1
  s2 = s2
  None = None
  Names <- OneName
  Directions <- LongOnly
  Prices <- OnePrice
  Volume = 1
  MaxGen = 1
  MaxOrders = 2
  MaxStops = 1
  MaxBus = 3
  MaxDups = 0
  MaxRestarts = 0
INVARIANTS
  StopCancelsAllOrders
CHECK_DEADLOCK FALSE
