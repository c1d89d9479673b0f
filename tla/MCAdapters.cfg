SPECIFICATION Spec
CONSTANTS
  MaxRows = 2
  Wanted <- MCWanted
  Parts <- MCParts
  MaxQuotes = 2
  MaxQueue = 2
  MaxDrops = 1
  MaxTrades = 2
  MaxSets = 2
  MaxLosses = 1
CHECK_DEADLOCK FALSE
INVARIANTS
  StartSound
  TickCurrent
  BooksExplained
PROPERTIES
  StartsUp
  StreamsFollow
