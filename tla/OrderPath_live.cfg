CONSTANTS
  a = a
  b = b
  Tags = {a}
  Venue = "binance"
  Faults = {"crash", "lostReply", "lateExecution", "readFails", "cancelFails", "expire", "refuse"}
  Requests <- LongRequests
  FlattenScopes = {"all"}
  MaxRequests = 2
  MaxOrders = 3
  MaxStarts = 2
SPECIFICATION FairSpec
INVARIANT TypeOK
PROPERTY IntentsDecided
CHECK_DEADLOCK FALSE
