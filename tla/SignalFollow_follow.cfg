CONSTANTS
  Workers = {w}
  ScaleUp = 2
  ScaleDown = 1
  LeadTimeout = 1
  MaxLots = 1
  Faults = {"loss", "refuse"}
  MaxIntents = 3
  MaxReplays = 1
  MaxTime = 2
SPECIFICATION Spec
INVARIANTS ExecutedOnce InLeadOrder 
CHECK_DEADLOCK FALSE
