SPECIFICATION EngineSpec
CONSTANTS
  MaxMessages = 3
  MaxOrders = 2
  MaxReports = 2
CHECK_DEADLOCK FALSE
INVARIANTS
  DeliveredInOrder
  ReportsReach
PROPERTIES
  SendReturns
  EmailDelivered
  
