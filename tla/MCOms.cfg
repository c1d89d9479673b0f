SPECIFICATION Spec
CONSTANTS
  Whole = 2
  Directions = {"LONG"}
  Requested = {1, 4}
  Pieces = {2}
  Held <- MCHeld
  MaxOrders = 2
  MaxPushes = 2
  MaxQueue = 2
CHECK_DEADLOCK FALSE
INVARIANTS
  HoldingTracksVenue
  ConversionSound
