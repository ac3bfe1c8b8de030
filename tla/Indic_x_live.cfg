CONSTANTS
  MinPeriods = 2
  Declarable = {d1, d2}
  Lockstep = FALSE
  WarmupBars = 3
  FeedLastBar = 4
  MaxPriceMoves = 1
  MaxVolumeMoves = 0
SPECIFICATION IndicSpec
INVARIANT ClosedBarsApplied
CHECK_DEADLOCK FALSE
