CONSTANTS
  a = a
  b = b
  Tags = {a}
  Venue = "mt5"
  Faults = {"crash"}
  Requests <- LongMarket
  FlattenScopes = {}
  MaxRequests = 2
  MaxOrders = 2
  MaxStarts = 2
SPECIFICATION Spec
SYMMETRY TagSymmetry
PROPERTY RestartAgreesWithVenue
CHECK_DEADLOCK FALSE
