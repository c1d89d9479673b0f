SPECIFICATION Spec
CONSTANTS
  s1 = s1
  s2 = s2
  None = None
  Names <- TwoNames
  Directions <- LongOnly
  Prices <- MCPrices
  Volume = 1
  MaxGen = 2
  MaxOrders = 2
  MaxStops = 2
  MaxBus = 1
  MaxDups = 0
  MaxRestarts = 1
CONSTRAINT OneOrMany
CHECK_DEADLOCK FALSE
INVARIANTS
  StopOrdersSound
  VenueAgreement
PROPERTIES
  OnlyTradingSend
