CONSTANTS
  Workers = {w}
  ScaleUp = 2
  ScaleDown = 1
  LeadTimeout = 1
  MaxLots = 1
  Faults = {"agentStops", "leadStops", "leadRefuses"}
  MaxIntents = 2
  MaxReplays = 0
  MaxTime = 3
SPECIFICATION FairSpec
 
PROPERTIES SilentLeadHeld IntentsAnswered HoldIsLifted
CHECK_DEADLOCK FALSE
