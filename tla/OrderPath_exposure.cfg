CONSTANTS
  a = a
  b = b
  Tags = {a}
  Venue = "mt5"
  Faults = {"crash", "refuse", "expire"}
  Requests <- LongRequests
  FlattenScopes = {"own", "all"}
  MaxRequests = 4
  MaxOrders = 6
  MaxStarts = 2
SPECIFICATION Spec
INVARIANTS ExposureKnown ShutdownLeavesFlat
CHECK_DEADLOCK FALSE
