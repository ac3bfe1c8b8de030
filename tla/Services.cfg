CONSTANTS
  Coroutines = {c1, c2}
  MaxRequests = 5
  HandlerRaises = TRUE
  StateThreads = {t1, t2}
  StateFaults = {"crash", "saveFails"}
  MaxChanges = 3
  MaxRestarts = 2
  Prices = {61, 120}
  Lots = {1, 2}
  MaxQuantity = 2
  Balance = 500
  MaxOrders = 2
  Exchanges = {"okx", "futures"}
  ExchangeOrderIds = {o1}
  MaxExchangeCalls = 3
  SourceKinds = {"rest", "terminal"}
  OldestBar = 2
  NewestBar = 5
  MarketClosed = {}
  Limits = {3}
  TailRefresh = 1
  PageMin = 1
  PageMax = 2
  RepairMax = 1
  FillRounds = 2
  CacheFaults = {"fetch", "cancel", "evict"}
  MaxShifts = 1
  Paths = {"stream"}
  BucketSize = 3
  LastBase = 4
  MaxVolume = 2
  RowWriters = {w1, w2}
  RowKeys = {k1, k2}
  BufferSize = 2
  MaxVersions = 2
  MaxWriteFailures = 1
  Firing = {f1, f2}
  AlertRules = {r1}
  Channels = {h1}
  Cooldown = 1
  EscalateAfter = 2
  RateLimit = 1
  Minute = 2
  LastTick = 2
  MaxAlerts = 3
  BarPrices = {1, 2, 3}
  MaxBars = 3
  MaxSent = 2
  EnginePrices = {10, 20}
  EngineBars = 4
  EngineCapital = 100
  SizePercent = 95
  EngineFee = 1
  SlipBy = 1
  ParamValues <- SmallSpace
  SampleSize = 2
  PoolSize = 2
  TopN = 2
  Scores = {1, 2}
  TaskRequests = {q1, q2}
  MaxClients = 2
  MaxOutages = 1
  Incremental = {i1}
  Windowed = {i2}
  PartialOutput = {}
  HistoryRequests = {h2}
  MinPeriods = 2
  Needs = {1}
  MaxWarmupTotal = 3
  LastBar = 3
  MaxBarVersion = 2
  MaxPublishing = 1
  ZigZagModes <- SmallModes
  BarShapes <- SmallShapes
  Crosses = {"none", "cross_up", "cross_down"}
  History <- TwoLegs
  MaxZigZagBars = 5
  MaxTicks = 1
  GraphNodes <- SmallGraph
  GraphOutputs = {5, 12}
  GraphSparse = TRUE
  GraphMinPeriods = 0
  NullValue = NullValue
  ClosePrices = {NullValue, 0, 8, 24}
  MaxGraphBars = 4
  Declarable = {i1, i2}
  Lockstep = TRUE
  WarmupBars = 2
  FeedLastBar = 4
  MaxPriceMoves = 1
  MaxVolumeMoves = 1
  Workers <- RiskWorkers
  StrategyOf <- OneStrategy
  TagPeriods = {"none", "1h"}
  RiskLimits <- SmallLimits
  Whitelisted = {"gold", "oil"}
  Share = 0
  Fixed = 6
  Stops = {2}
  StepQty = 2
  MinQty = 2
  MaxQty = 4
  Deposit = 80
  Marks = {2, 3}
  DayLength = 1
  MaxDecisions = 3
  LastSecond = 1
  Adapters = {"binance", "okx"}
  Streams = {k1, k2}
  MaxCallbacks = 2
  MaxAttempts = 2
  MaxLinkBreaks = 2
  Bucket = 2
  Quotes = {1, 2}
  LastMinute = 3
  MaxTrades = 1
  MaxLosses = 1
  MaxStarts = 2
  RuleTrees <- SmallTrees
  RuleConfigs <- SmallConfigs
  FieldValues = {0, 1, 2}
  CooldownTicks = 2
  LastStamp = 3
  MaxUpdates = 3
  ConditionPairs <- SmallConditions
  Tolerance = 4
  MinHistory = 2
  CondBars <- SmallCondBars
  MaxCondBars = 4
  MaxCondTicks = 1
  Setups <- SmallSetups
  SetVars = {"LOGIN"}
  CodeOf <- SmallCode
  MaxErrors = 2
  SizeVenues <- SmallVenues
  Asked = {3, 6}
  Ratios <- SmallRatios
  MaxSized = 3
SPECIFICATION Spec
INVARIANTS ServicesTyped ReplyShift StrategiesKept BooksTrue CacheTrue  SignalsPaced BacktestReported IndicatorsTrue  OrdersSized
PROPERTIES HolesAreTried SignalObeyed
CHECK_DEADLOCK FALSE
