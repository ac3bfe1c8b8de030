------------------------------- MODULE RiskGate -------------------------------
(***************************************************************************)
(* The SDK's risk check (kqsdk/risk_adapter.py, risk_rules.py and the      *)
(* rules and the engine of core/risk_engine/) as the worker threads of a   *)
(* live runner use it (kqsdk/api.py calc_qty, risk_check): a worker sizes  *)
(* an order by the loss at its stop, takes a snapshot of the account under *)
(* the provider's lock, has it judged under the adapter's, and sends the   *)
(* order if it passed. Nothing holds a lock from the snapshot to the fill, *)
(* so other workers decide in between.                                     *)
(*                                                                         *)
(* Abstracted: market orders, filled in one step; the workers' symbols     *)
(* differ and have one price; legs are long; money is whole numbers; a     *)
(* snapshot reads the ledger at once. The rules' exceptions refuse, as a   *)
(* rejection does.                                                         *)
(***************************************************************************)
EXTENDS Integers, Sequences, FiniteSets, FiniteSetsExt, SequencesExt, Functions

CONSTANTS
  Workers,      \* the threads: one per strategy and symbol
  StrategyOf,   \* worker -> strategy
  TagPeriods,   \* the periods a worker keeps positions of, a tag each
  RiskLimits,   \* rule -> parameter, of the rules the configuration enables
  Whitelisted,  \* the workers whose symbol is on the list of new_symbol
  Share, Fixed, \* risk_pct and risk_amount
  Stops,        \* stop distances
  StepQty, MinQty, MaxQty, \* the symbol's specification
  Deposit, Marks, \* the initial equity; the prices
  DayLength,    \* ticks of a day
  MaxDecisions, LastSecond \* bounds

ASSUME RiskAssumption ==
  /\ StrategyOf \in [Workers -> STRING]
  /\ {StepQty, MinQty, MaxQty, DayLength} \subseteq Nat \ {0}
  /\ {Share, Fixed, Deposit, MaxDecisions, LastSecond} \subseteq Nat
  /\ Stops \subseteq Nat \ {0} /\ Marks \subseteq Nat \ {0}
  /\ {"order_frequency", "frequency_window", "max_total_positions"} \subseteq DOMAIN RiskLimits
  /\ RiskLimits \in [DOMAIN RiskLimits -> Nat]
  /\ IsFiniteSet(Workers) /\ Workers # {} /\ IsFiniteSet(TagPeriods)

VARIABLES
  second,
  mark,         \* the price
  legs,         \* the ledger: <<worker, period>> -> [qty, entry, gained, stop, budget]
  dayStart,     \* [day, equity] of the day's first decision
  realizedBase, \* _realized_base: strategy -> <<its gain at the day's start>> or <<>>
  lossTrack,    \* _loss_track: strategy -> <<gain, losses>> of the last sample or <<>>
  orderTimes,   \* OrderFrequencyRule._order_timestamps
  judging,      \* worker -> the order it decides on and its snapshot
  passed        \* history: the snapshot times of the orders that passed

riskVars == <<second, mark, legs, dayStart, realizedBase, lossTrack, orderTimes,
              judging, passed>>

Strategies == Range(StrategyOf)
Legs       == Workers \X TagPeriods
FlatLeg    == [qty |-> 0, entry |-> 0, gained |-> 0, stop |-> 0, budget |-> 0]
NoDecision == [at |-> "idle"]

RiskTypeOK ==
  /\ second \in 0 .. LastSecond /\ mark \in Marks
  /\ \A l \in Legs : legs[l].qty \in 0 .. MaxQty
  /\ \A w \in Workers : judging[w].at \in {"idle", "asked", "passed"}
  /\ Len(orderTimes) <= RiskLimits["order_frequency"]

RiskInit ==
  /\ second = 0 /\ mark \in Marks
  /\ legs = [l \in Legs |-> FlatLeg]
  /\ dayStart = [day |-> -1, equity |-> 0]
  /\ realizedBase = [s \in Strategies |-> <<>>] /\ lossTrack = [s \in Strategies |-> <<>>]
  /\ orderTimes = <<>> /\ passed = <<>>
  /\ judging = [w \in Workers |-> NoDecision]

-----------------------------------------------------------------------------
(* The size of an order and the snapshot of the account.                   *)

OpenLegs    == {l \in Legs : legs[l].qty # 0}
OpenOf(s)   == {l \in OpenLegs : StrategyOf[l[1]] = s}
SumLegs(S, Of(_)) == MapThenSumSet(Of, S)
Equity ==
  LET worth == [l \in Legs |-> legs[l].gained + legs[l].qty * (mark - legs[l].entry)]
  IN  Deposit + MapThenSumSet(LAMBDA l : worth[l], Legs)

\* calc_qty: down to a step, none below the least and the most above it.
CalcQty(budget, stop) ==
  LET qty == (budget \div (stop * StepQty)) * StepQty IN
  IF qty < MinQty THEN 0 ELSE Min({qty, MaxQty})

\* all_positions drops a flat tag, and what it has gained with it.
TagRealized(s) == SumLegs(OpenOf(s), LAMBDA l : legs[l].gained)

\* _roll_day_locked: the day starts with the equity of its first decision.
DayRolled ==
  LET day == second \div DayLength IN
  IF day = dayStart.day THEN <<dayStart, realizedBase>>
  ELSE <<[day |-> day, equity |-> Equity],
         [s \in Strategies |-> IF realizedBase[s] = <<>> THEN <<>> ELSE <<TagRealized(s)>>]>>

\* A strategy without a position is not sampled.
Based(base)  == [s \in Strategies |->
                   IF OpenOf(s) # {} /\ base[s] = <<>> THEN <<TagRealized(s)>> ELSE base[s]]
Sampled(s)   ==
  LET cur == TagRealized(s) IN
  CASE OpenOf(s) = {}                          -> lossTrack[s]
    [] OpenOf(s) # {} /\ lossTrack[s] = <<>> -> <<cur, 0>>
    [] OTHER -> <<cur, IF cur < lossTrack[s][1] THEN lossTrack[s][2] + 1
                       ELSE IF cur > lossTrack[s][1] THEN 0 ELSE lossTrack[s][2]>>

RiskSnapshot(w, p, offset, qty) ==
  LET s    == StrategyOf[w]
      base == Based(DayRolled[2])
      start == DayRolled[1].equity
  IN [at |-> "asked", leg |-> <<w, p>>, offset |-> offset, qty |-> qty, price |-> mark,
      stamp |-> second, available |-> Equity,
      dayGain  |-> Equity - start,
      dayPct   |-> IF start = 0 THEN 0 ELSE ((Equity - start) * 100) \div start,
      \* the figures are kept by strategy, and looked up by the order's tag
      gain     |-> IF OpenOf(s) # {} /\ p = "none" THEN TagRealized(s) - base[s][1] ELSE 0,
      losses   |-> IF OpenOf(s) # {} /\ p = "none" THEN Sampled(s)[2] ELSE 0,
      notional |-> SumLegs(OpenLegs, LAMBDA l : legs[l].qty * legs[l].entry),
      held     |-> SumLegs({l \in OpenLegs : l[1] = w}, LAMBDA l : legs[l].qty),
      total    |-> Cardinality(OpenLegs), ofStrategy |-> Cardinality(OpenOf(s))]

Sample(w, p, offset, qty) ==
  /\ judging' = [judging EXCEPT ![w] = RiskSnapshot(w, p, offset, qty)]
  /\ dayStart' = DayRolled[1]
  /\ realizedBase' = Based(DayRolled[2])
  /\ lossTrack' = [s \in Strategies |-> Sampled(s)]

\* A worker opens a flat leg, or closes one, having asked first.
AskToOpen(w, p) ==
  /\ judging[w] = NoDecision /\ legs[<<w, p>>].qty = 0
  /\ Len(passed) < MaxDecisions
  /\ \E stop \in Stops : \E budget \in {Fixed, (Equity * Share) \div 100} :
       /\ budget > 0 /\ CalcQty(budget, stop) > 0
       /\ Sample(w, p, "OPEN", CalcQty(budget, stop))
       /\ legs' = [legs EXCEPT ![<<w, p>>].stop = stop, ![<<w, p>>].budget = budget]
  /\ UNCHANGED <<second, mark, orderTimes, passed>>

AskToClose(w, p) ==
  /\ judging[w] = NoDecision /\ legs[<<w, p>>].qty > 0
  /\ Len(passed) < MaxDecisions
  /\ Sample(w, p, "CLOSE", legs[<<w, p>>].qty)
  /\ UNCHANGED <<second, mark, legs, orderTimes, passed>>

-----------------------------------------------------------------------------
(* The rules, in the order the engine asks them.                           *)

\* The rules before the frequency rule; a market order has no price.
RefusedBefore(d) ==
  \E rule \in DOMAIN RiskLimits : LET limit == RiskLimits[rule] IN
    CASE rule = "max_order_amount"        -> d.qty * d.price > limit
      [] rule = "max_position_per_symbol" ->
           (IF d.offset = "OPEN" THEN d.held + d.qty ELSE d.held - d.qty) > limit
      [] rule = "max_total_position"      -> d.notional > limit
      [] rule = "max_daily_loss"          -> d.dayGain < 0 - limit
      [] rule = "max_strategy_loss"       -> d.gain < 0 - limit
      [] OTHER                            -> FALSE

\* The rules after it; the deviation of a price concerns limit orders alone.
RefusedAfter(d) ==
  \E rule \in DOMAIN RiskLimits : LET limit == RiskLimits[rule] IN
    CASE rule = "min_order_quantity" -> d.qty < limit
      [] rule = "available_balance"  -> d.qty * d.price > d.available
      [] rule = "consecutive_loss"   -> d.losses >= limit
      [] rule = "night_trading"      -> d.stamp % DayLength >= limit
      [] rule = "new_symbol"         -> d.leg[1] \notin Whitelisted
      [] OTHER                       -> FALSE

\* The rules of the SDK; a close passes those on positions.
RefusedBySdk(d) ==
  \E rule \in DOMAIN RiskLimits : LET limit == RiskLimits[rule] IN
    CASE rule = "daily_loss_pct"             -> d.dayPct < 0 - limit
      [] rule = "max_total_positions"        -> d.offset = "OPEN" /\ d.total >= limit
      [] rule = "max_positions_per_strategy" -> d.offset = "OPEN" /\ d.ofStrategy >= limit
      [] OTHER                               -> FALSE

\* Only from the left, until one is young enough.
RecentOrders(d) == LET old(t) == d.stamp - t > RiskLimits["frequency_window"] IN
  SubSeq(orderTimes, 1 + Cardinality({i \in DOMAIN orderTimes : \A j \in 1 .. i : old(orderTimes[j])}),
         Len(orderTimes))

\* check_order: the frequency rule counts what a later rule refuses.
Judge(w) ==
  LET d == judging[w] IN
  /\ d.at = "asked"
  /\ \/ /\ RefusedBefore(d)
        /\ judging' = [judging EXCEPT ![w] = NoDecision]
        /\ UNCHANGED <<orderTimes, passed>>
     \/ /\ ~RefusedBefore(d)
        /\ Len(RecentOrders(d)) >= RiskLimits["order_frequency"]
        /\ orderTimes' = RecentOrders(d)
        /\ judging' = [judging EXCEPT ![w] = NoDecision]
        /\ UNCHANGED passed
     \/ /\ ~RefusedBefore(d)
        /\ Len(RecentOrders(d)) < RiskLimits["order_frequency"]
        /\ orderTimes' = Append(RecentOrders(d), d.stamp)
        /\ IF RefusedAfter(d) \/ RefusedBySdk(d)
           THEN judging' = [judging EXCEPT ![w] = NoDecision] /\ UNCHANGED passed
           ELSE judging' = [judging EXCEPT ![w].at = "passed"] /\ passed' = Append(passed, d.stamp)
  /\ UNCHANGED <<second, mark, legs, dayStart, realizedBase, lossTrack>>

-----------------------------------------------------------------------------
\* send_order and its fill.
SendPassed(w) ==
  LET d == judging[w] leg == legs[d.leg] IN
  /\ d.at = "passed"
  /\ legs' = [legs EXCEPT ![d.leg] =
       IF d.offset = "OPEN" THEN [leg EXCEPT !.qty = d.qty, !.entry = mark]
       ELSE [leg EXCEPT !.qty = 0, !.entry = 0, !.gained = leg.gained + d.qty * (mark - leg.entry)]]
  /\ judging' = [judging EXCEPT ![w] = NoDecision]
  /\ UNCHANGED <<second, mark, dayStart, realizedBase, lossTrack, orderTimes, passed>>

SecondPasses ==
  /\ second < LastSecond /\ second' = second + 1
  /\ mark' \in Marks
  /\ UNCHANGED <<legs, dayStart, realizedBase, lossTrack, orderTimes, judging, passed>>

RiskNext ==
  \/ \E w \in Workers, p \in TagPeriods : AskToOpen(w, p) \/ AskToClose(w, p)
  \/ \E w \in Workers : Judge(w) \/ SendPassed(w)
  \/ SecondPasses

RiskSpec == RiskInit /\ [][RiskNext]_riskVars

-----------------------------------------------------------------------------
(* Properties.                                                             *)

Others == Cardinality(Workers) - 1

\* A snapshot is older than the judgement, and nothing is reserved for an
\* order that passed; still each other worker has one decision under way at
\* most, so the limits are passed by no more than the other workers: the
\* number of positions, the orders of a window of the frequency rule. And an
\* open position loses no more at its stop than it was sized for, and would
\* lose more were it a step larger (calc_qty).
LimitsHold ==
  /\ Cardinality(OpenLegs) <= RiskLimits["max_total_positions"] + Others
  /\ \A i \in DOMAIN passed :
       Cardinality({j \in DOMAIN passed :
                      passed[j] - passed[i] \in 0 .. RiskLimits["frequency_window"]})
         <= RiskLimits["order_frequency"] + Others
  /\ \A l \in OpenLegs :
       LET q == legs[l].qty stop == legs[l].stop IN
       /\ q * stop <= legs[l].budget
       /\ q < MaxQty => (q + StepQty) * stop > legs[l].budget
===============================================================================
