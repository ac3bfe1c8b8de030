CONSTANTS
  Callers = {c1, c2}
  MaxCalls = 3
  MaxWorkerFaults = 2
  DayVolume = 4
  SessionFaults = 1
  MaxLoopRestarts = 1
  MaxEdits = 3
  BrokenEdits = {2}
  MaxTicks = 1
  MaxRollbacks = 1
  Clients = {b1}
  Topics = {k1, k2}
  WatchedTargets = {}
  Signatures = {s1}
  Workers = {w1, w2}
  Books = {s1}
  Periods = {1, 2}
  LastTime = 2
  PathPrices = {60}
  Fee = 1
  Capital = 500
  MaxLot = 1
SPECIFICATION Spec
INVARIANTS GatewayTyped FilledAtSeenBar OwnAnswers VolumeCountedOnce
PROPERTIES LockReleased DeadSessionDropped FileTakesEffect StreamFollows ReplayEnds
CHECK_DEADLOCK FALSE
