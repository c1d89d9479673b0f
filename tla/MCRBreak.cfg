SPECIFICATION Spec
CONSTANTS
  Limit = 2
  Day = 2
  LastMinute = 7
  Prices <- MCPrices
  Size = 1
  MaxTicks = 4
  MaxStarts = 1
CHECK_DEADLOCK FALSE
INVARIANTS
  BarsSound
  PosBounded
