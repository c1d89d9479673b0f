SPECIFICATION EngineSpec
CONSTANTS
  MaxMessages = 0
  MaxOrders = 1
  MaxReports = 0
CHECK_DEADLOCK FALSE
INVARIANTS
  ShutdownCancels
