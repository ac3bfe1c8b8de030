CONSTANTS
  Workers = {w}
  ScaleUp = 2
  ScaleDown = 1
  LeadTimeout = 1
  MaxLots = 2
  Faults = {"agentStops"}
  MaxIntents = 1
  MaxReplays = 1
  MaxTime = 2
SPECIFICATION Spec
INVARIANT ExecutedOnce
CHECK_DEADLOCK FALSE
