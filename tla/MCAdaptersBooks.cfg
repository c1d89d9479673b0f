SPECIFICATION Spec
CONSTANTS
  MaxRows = 1
  Wanted <- MCWanted
  Parts <- MCBooks
  MaxQuotes = 2
  MaxQueue = 2
  MaxDrops = 1
  MaxTrades = 1
  MaxSets = 2
  MaxLosses = 1
CHECK_DEADLOCK FALSE
INVARIANTS
  UpdatesSuffice
