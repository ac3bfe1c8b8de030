CONSTANTS
  a = a
  b = b
  Tags = {a, b}
  Venue = "mt5"
  Faults = {"crash", "fuse", "expire", "refuse"}
  Requests <- AllRequests
  FlattenScopes = {"all"}
  MaxRequests = 2
  MaxOrders = 3
  MaxStarts = 2
SPECIFICATION Spec
SYMMETRY TagSymmetry
INVARIANTS WriteAhead LedgerAccounts JournalTruthful OneLiveOpen
PROPERTY ImplementsIntents
CHECK_DEADLOCK FALSE
