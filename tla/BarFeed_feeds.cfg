CONSTANTS
  Feeds = {"mt5", "binance"}
  Readers = {1}
  BarCount = 3
  RunUntil = TRUE
  Faults = {"outage", "fetchFails", "holiday", "stop"}
  MaxBars = 3
  MaxChanges = 1
SPECIFICATION Spec
INVARIANTS HistoryComplete NoLostWakeup
CHECK_DEADLOCK FALSE
