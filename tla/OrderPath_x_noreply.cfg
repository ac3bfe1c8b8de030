CONSTANTS
  a = a
  b = b
  Tags = {a}
  Venue = "mt5"
  Faults = {"lostReply"}
  Requests <- LongMarket
  FlattenScopes = {}
  MaxRequests = 1
  MaxOrders = 1
  MaxStarts = 1
SPECIFICATION Spec
SYMMETRY TagSymmetry
INVARIANT JournalTruthful
CHECK_DEADLOCK FALSE
