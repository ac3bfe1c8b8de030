------------------------------ MODULE MCServices ------------------------------
(* The services whose properties need no fairness side by side for TLC.    *)
(* They share no state: a behaviour is one of them, and the others stand   *)
(* still.                                                                  *)
EXTENDS RequestReply, StrategyState, PaperTrading, ExchangeOrders,
        KlineCache, DerivedBars, BatchWriter, Alerts, Matcher,
        BacktestEngine, Optimizer, BacktestTasks, IndicatorSeries, ZigZag,
        IndicatorGraph, Indic, RiskGate, ExchangeStream, MarketEngine,
        SignalEngine, Conditions, Launcher, Sizing

VARIABLE part

\* Parameters of the optimizer: one of three values, one of one.
SmallSpace == <<<<1, 2, 3>>, <<1>>>>

\* The zigzag: both searches judged near the close too, and the time window
\* with closed bars alone; an up leg and a down leg to begin with.
SmallModes  == { [window |-> 0, near |-> TRUE, search |-> "cond"],
                 [window |-> 0, near |-> TRUE, search |-> "range"],
                 [window |-> 2, near |-> FALSE, search |-> "cond"] }
SmallShapes == {<<2, 1>>, <<3, 2>>, <<3, 1>>}
LegBar(shape, up) == [shape |-> shape, bull |-> up, bear |-> ~up, cross |-> "none", judged |-> TRUE]
TwoLegs     == <<LegBar(<<2, 1>>, TRUE), LegBar(<<3, 2>>, FALSE)>>

\* An indicator with every kind of node: windows over a column with holes
\* (a division by zero), a line drawn only while a condition holds.
Node(op, in, n) == [op |-> op, in |-> in, n |-> n]
SmallGraph ==
  << Node("close", <<>>, 0),   Node("shift", <<1>>, 1),     Node("div", <<1, 2>>, 0),
     Node("ema", <<3>>, 3),    Node("sma", <<3>>, 2),       Node("hhv", <<1>>, 2),
     Node("llv", <<3>>, 2),    Node("std", <<1>>, 2),       Node("cum", <<3>>, 0),
     Node("gt", <<1, 4>>, 0),  Node("null", <<>>, 0),       Node("where", <<10, 6, 11>>, 0),
     Node("sub", <<6, 7>>, 0), Node("max", <<4, 5>>, 0),    Node("neg", <<13>>, 0),
     Node("const", <<>>, 2),   Node("mul", <<15, 16>>, 0),  Node("abs", <<17>>, 0),
     Node("add", <<9, 8>>, 0), Node("min", <<18, 19>>, 0),  Node("ge", <<20, 14>>, 0) >>

\* Two workers of one strategy, and the rules of a small account.
RiskWorkers  == {"gold", "oil"}
OneStrategy  == [w \in RiskWorkers |-> "trend"]
SmallLimits  == [max_total_positions |-> 1, order_frequency |-> 2, frequency_window |-> 1,
                 max_daily_loss |-> 3, consecutive_loss |-> 1, max_order_amount |-> 8]

\* A crossing, and a rule of all other kinds on two indicators.
RuleNode(op, in, level) == [op |-> op, in |-> in, level |-> level]
SmallTrees ==
  [ cross |-> << RuleNode("cross", <<"fast", "slow">>, 0) >>,
    mixed |-> << RuleNode("threshold", <<"fast">>, 2), RuleNode("compare", <<"slow", "fast">>, 0),
                 RuleNode("not", <<1>>, 0), RuleNode("and", <<2, 3>>, 0), RuleNode("or", <<2, 4>>, 0) >> ]
SmallConfigs == { [rule |-> "cross", feed |-> "ma", route |-> "SEMI"],
                  [rule |-> "mixed", feed |-> "macd", route |-> "AUTO"],
                  [rule |-> "mixed", feed |-> "ma", route |-> "ALERT"] }

\* Conditions of the zigzag: every kind of series, comparison and predicate;
\* a look back that only one of two conditions takes; a source that is no
\* field; and one that is refused.
C(op, in, n) == [op |-> op, in |-> in, n |-> n]
SmallConditions ==
  { [bull |-> << C("close", <<>>, 0), C("ma", <<1>>, 2), C("ema", <<1>>, 3), C("cross_up", <<2, 1>>, 0),
                 C("ref", <<1>>, 2), C("gt", <<5, 3>>, 0), C("or", <<4, 6>>, 0) >>,
     bear |-> << C("close", <<>>, 0), C("ma", <<1>>, 2), C("cross", <<1, 2>>, 0), C("falling", <<1>>, 0),
                 C("and", <<3, 4>>, 0) >>, cross |-> "none"],
    [bull |-> << C("sum", <<>>, 0), C("ref", <<1>>, 1), C("sub", <<1, 2>>, 0), C("close", <<>>, 0),
                 C("ge", <<3, 4>>, 0), C("rsi", <<>>, 1), C("const", <<>>, 50), C("ge", <<6, 7>>, 0),
                 C("and", <<5, 8>>, 0) >>,
     bear |-> << C("macd_dif", <<>>, 2), C("macd_dea", <<>>, 2), C("gt", <<1, 2>>, 0), C("atr", <<>>, 1),
                 C("const", <<>>, 1), C("lt", <<4, 5>>, 0), C("or", <<3, 6>>, 0) >>, cross |-> "none"],
    [bull |-> << C("high", <<>>, 0), C("boll_upper", <<>>, 2), C("gt", <<1, 2>>, 0), C("span", <<>>, 0),
                 C("low", <<>>, 0), C("div", <<4, 5>>, 0), C("mul", <<6, 5>>, 0), C("add", <<7, 5>>, 0),
                 C("gt", <<8, 2>>, 0), C("and", <<3, 9>>, 0) >>,
     bear |-> <<>>, cross |-> "cross"],
    [bull |-> << C("close", <<>>, 0), C("ema", <<1>>, 1), C("ma", <<2>>, 1), C("rising", <<3>>, 0),
                 C("not", <<4>>, 0), C("gt", <<2, 1>>, 0), C("and", <<5, 6>>, 0) >>,
     bear |-> << C("close", <<>>, 0), C("falling", <<1>>, 0), C("not", <<2>>, 0) >>, cross |-> "cross_up"],
    [bull |-> << C("close", <<>>, 0), C("ref", <<1>>, 1), C("rising", <<2>>, 0) >>,
     bear |-> <<>>, cross |-> "none"] }
SmallCondBars == { [high |-> 2, low |-> 1, close |-> 1], [high |-> 3, low |-> 1, close |-> 3],
                   [high |-> 2, low |-> 2, close |-> 2] }

\* Live processes: two strategies, one of them on two symbols; a strategy that
\* is the only one of its module under another name, and one that another
\* module has registered; what refuses to come up.
Account(nm, mk, main, needs) == [name |-> nm, market |-> mk, main |-> main, needs |-> needs, keys |-> main]
Instance(nm, module, symbols, periods) ==
  [name |-> nm, module |-> module, symbols |-> symbols, period |-> "1m", periods |-> periods, enabled |-> TRUE]
Demo       == Account("demo", "fx", TRUE, {"LOGIN"})
Trend      == Instance("trend", "crossings", {"EURUSD", "XAUUSD"}, {"1m", "1h"})
Breakout   == Instance("range", "breakouts", {"EURUSD"}, {})
SmallCode  == [ crossings |-> [names |-> {"trend", "fast"}, plain |-> FALSE],
                breakouts |-> [names |-> {"breakout"}, plain |-> FALSE],
                legacy    |-> [names |-> {}, plain |-> TRUE],
                copied    |-> [names |-> {"trend", "slow"}, plain |-> FALSE] ]
LiveSetup(accounts, pick, strategies) ==
  [accounts |-> accounts, named |-> pick, market |-> "fx", strategies |-> strategies, only |-> {}]
SmallSetups ==
  { LiveSetup(<<Demo>>, "", <<Trend, Breakout>>),
    LiveSetup(<<Demo, Account("coins", "crypto", FALSE, {"KEY"})>>, "demo",
              <<Instance("plain", "legacy", {"EURUSD"}, {}), [Trend EXCEPT !.enabled = FALSE]>>),
    LiveSetup(<<>>, "", <<Trend, Instance("fast", "missing", {"EURUSD"}, {})>>),
    LiveSetup(<<Account("coins", "crypto", FALSE, {})>>, "coins", <<Trend>>),
    LiveSetup(<<Account("real", "fx", TRUE, {"PASSWORD"})>>, "", <<Trend>>),
    LiveSetup(<<Demo, Account("demo", "fx", FALSE, {})>>, "", <<Trend>>),
    LiveSetup(<<Demo>>, "", <<Trend, Instance("trend", "legacy", {"EURUSD"}, {})>>),
    LiveSetup(<<Demo>>, "", <<Trend, Instance("slow", "copied", {"EURUSD"}, {})>>),
    LiveSetup(<<Demo>>, "", <<Instance("quiet", "crossings", {"EURUSD"}, {})>>),
    LiveSetup(<<Demo>>, "", <<Instance("lost", "missing", {"EURUSD"}, {})>>),
    LiveSetup(<<Demo>>, "", <<Instance("range", "breakouts", {"EURUSD"}, {"1h"})>>),
    [LiveSetup(<<Demo>>, "", <<Trend, Breakout>>) EXCEPT !.only = {"range"}],
    [LiveSetup(<<Demo>>, "", <<Trend>>) EXCEPT !.market = "crypto"],
    [LiveSetup(<<Account("coins", "crypto", TRUE, {})>>, "coins", <<Breakout>>) EXCEPT !.market = "crypto"],
    LiveSetup(<<Demo>>, "", <<[Trend EXCEPT !.enabled = FALSE]>>) }

\* A terminal that takes no short positions and one that does, an exchange
\* with coarser lots, and a symbol that is not listed.
LotFilter(kind, listed, step, largest, tradeMode) ==
  [kind |-> kind, listed |-> listed, step |-> step, min |-> step, max |-> largest, mode |-> tradeMode]
SmallVenues == { LotFilter("mt5", TRUE, 2, 6, 1), LotFilter("mt5", TRUE, 2, 0, 4),
                 LotFilter("binance", TRUE, 4, 8, 0), LotFilter("binance", FALSE, 4, 8, 0) }
SmallRatios == {<<1, 1>>, <<1, 2>>}

vars == <<part, requestVars, stateVars, paperVars, exchangeVars, cacheVars,
          derivedVars, batchVars, alertVars, matcherVars, engineVars,
          optimizerVars, taskVars, seriesVars, zigzagVars, graphVars,
          indicVars, riskVars, streamVars, marketVars, signalVars, condVars,
          launchVars, sizingVars>>

Parts == {"request", "state", "paper", "exchange", "cache", "derived",
          "batch", "alert", "matcher", "engine", "optimizer", "task",
          "series", "zigzag", "graph", "indic", "risk", "stream", "market",
          "signal", "condition", "launcher", "sizing"}

\* A component that stands still has one initial state.
Init ==
  /\ part \in Parts
  /\ RequestInit /\ StateInit /\ PaperInit /\ DerivedInit /\ BatchInit /\ AlertInit
  /\ MatcherInit /\ EngineInit
  /\ ExchangeInit /\ (part = "exchange" \/ exchange = "okx")
  /\ CacheInit /\ (part = "cache" \/ source = "rest")
  /\ OptimizerInit /\ (part = "optimizer" \/ search = [method |-> "grid", ascending |-> FALSE, forward |-> FALSE])
  /\ TasksInit /\ (part = "task" \/ \A r \in TaskRequests : router[r] = "fx")
  /\ SeriesInit
  /\ ZigZagInit /\ (part = "zigzag" \/ mode = [window |-> 0, near |-> TRUE, search |-> "cond"])
  /\ GraphInit
  /\ IndicInit
  /\ RiskInit /\ (part = "risk" \/ mark = 2)
  /\ StreamInit /\ (part = "stream" \/ adapter = "okx")
  /\ MarketInit /\ (part = "market" \/ minutes = <<FirstTrade(1, 1)>>)
  /\ SignalInit
  /\ CondInit /\ (part = "condition" \/ condition = CHOOSE c \in ConditionPairs : Accepted(c.bull) /\ Accepted(c.bear))
  /\ LauncherInit /\ (part = "launcher" \/ setup = CHOOSE s \in Setups : TRUE)
  /\ SizingInit /\ (part = "sizing" \/ (/\ sizeVenue = [p \in Parties |-> CHOOSE v \in SizeVenues : ~v.listed]
                                      /\ scaleBy = CHOOSE r \in Ratios : TRUE))

Next ==
  /\ UNCHANGED part
  /\ IF part = "request"   THEN RequestNext   ELSE UNCHANGED requestVars
  /\ IF part = "state"     THEN StateNext     ELSE UNCHANGED stateVars
  /\ IF part = "paper"     THEN PaperNext     ELSE UNCHANGED paperVars
  /\ IF part = "exchange"  THEN ExchangeNext  ELSE UNCHANGED exchangeVars
  /\ IF part = "cache"     THEN CacheNext     ELSE UNCHANGED cacheVars
  /\ IF part = "derived"   THEN DerivedNext   ELSE UNCHANGED derivedVars
  /\ IF part = "batch"     THEN BatchNext     ELSE UNCHANGED batchVars
  /\ IF part = "alert"     THEN AlertNext     ELSE UNCHANGED alertVars
  /\ IF part = "matcher"   THEN MatcherNext   ELSE UNCHANGED matcherVars
  /\ IF part = "engine"    THEN EngineNext    ELSE UNCHANGED engineVars
  /\ IF part = "optimizer" THEN OptimizerNext ELSE UNCHANGED optimizerVars
  /\ IF part = "task"      THEN TasksNext     ELSE UNCHANGED taskVars
  /\ IF part = "series"    THEN SeriesNext    ELSE UNCHANGED seriesVars
  /\ IF part = "zigzag"    THEN ZigZagNext    ELSE UNCHANGED zigzagVars
  /\ IF part = "graph"     THEN GraphNext     ELSE UNCHANGED graphVars
  /\ IF part = "indic"     THEN IndicNext     ELSE UNCHANGED indicVars
  /\ IF part = "risk"      THEN RiskNext      ELSE UNCHANGED riskVars
  /\ IF part = "stream"    THEN StreamNext    ELSE UNCHANGED streamVars
  /\ IF part = "market"    THEN MarketNext    ELSE UNCHANGED marketVars
  /\ IF part = "signal"    THEN SignalNext    ELSE UNCHANGED signalVars
  /\ IF part = "condition" THEN CondNext      ELSE UNCHANGED condVars
  /\ IF part = "launcher"  THEN LauncherNext  ELSE UNCHANGED launchVars
  /\ IF part = "sizing"    THEN SizingNext    ELSE UNCHANGED sizingVars

Spec == Init /\ [][Next]_vars

-------------------------------------------------------------------------------
\* Every component stays well typed; whoever waits to write has a batch.
ServicesTyped ==
  /\ part = "request"   => RequestTypeOK
  /\ part = "state"     => StateTypeOK
  /\ part = "paper"     => PaperTypeOK
  /\ part = "exchange"  => ExchangeTypeOK
  /\ part = "cache"     => CacheTypeOK
  /\ part = "derived"   => DerivedTypeOK
  /\ part = "batch"     => BatchTypeOK
  /\ part = "alert"     => AlertTypeOK
  /\ part = "matcher"   => MatcherTypeOK
  /\ part = "engine"    => EngineTypeOK
  /\ part = "optimizer" => OptimizerTypeOK
  /\ part = "task"      => TasksTypeOK
  /\ part = "risk"      => RiskTypeOK
  /\ part = "stream"    => ExchangeStreamTypeOK
  /\ part = "market"    => MarketTypeOK
  /\ part = "signal"    => SignalTypeOK

\* Accounts are kept right: the books of the paper account add up, and a record
\* of the order manager says of an order what the exchange says or said of it.
BooksTrue ==
  /\ part = "paper"     => BooksAgree
  /\ part = "exchange"  => RecordsTruthful

\* Bars out of the gateway's caches are the source's: all of them in one time
\* zone, and derived ones the aggregate of the base bars they stand for.
CacheTrue ==
  /\ part = "cache"     => OneZone
  /\ part = "derived"   => DerivedIsAggregate

\* What a strategy runs on: state it has not changed since is on disk, and it is
\* given up for failures of its own only.
StrategiesKept ==
  /\ part = "state"     => CleanIsSaved
  /\ part = "launcher"  => GivesUpAlone

\* Market data goes through whole: what is subscribed is served by the socket,
\* what is stored of a bar is true of it, and no row is lost on its way there.
MarketDataTrue ==
  /\ part = "stream"    => SubscribedIsServed
  /\ part = "market"    => StoredIsTrue
  /\ part = "batch"     => RowsKept

\* A rule signals once per cooldown, and a channel sends no more than its rate.
SignalsPaced ==
  /\ part = "signal"    => OneGoodSignal
  /\ part = "alert"     => PaceBounded

\* A backtest reports what happened: no fill of a resting order is missed, the
\* figures are those of the equity curve, the best of a search are ranked by
\* them, and a client that polls a finished task finds its result.
BacktestReported ==
  /\ part = "matcher"   => RestsUntouched
  /\ part = "engine"    => ReportIsRight
  /\ part = "optimizer" => TopAreBest
  /\ part = "task"      => PollFindsResult

\* Indicators agree with their bars on every path: series kept by ticks have
\* every bar, a graph computed step by step has the values of the whole batch,
\* and a backtest applies every closed bar.
IndicatorsTrue ==
  /\ part = "series"    => SeriesIsFull
  /\ part = "graph"     => GraphIsBatch
  /\ part = "indic"     => ClosedBarsApplied

\* The zigzag of a forming bar is the one of the bars alone: ticks taken back
\* leave nothing in the pivots, nor in the conditions judged on closed bars.
ZigZagTrue ==
  /\ part = "zigzag"    => LiveIsReplay
  /\ part = "condition" => JudgedOnClosedBars

\* No order is larger than the risk allows or than venue and position take,
\* whatever the quantity was rounded to on its way.
OrdersSized ==
  /\ part = "risk"      => LimitsHold
  /\ part = "sizing"    => SizesHold
===============================================================================
