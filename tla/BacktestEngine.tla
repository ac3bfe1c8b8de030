---------------------------- MODULE BacktestEngine ----------------------------
(***************************************************************************)
(* The loop of the backtest engine (core/backtest_engine/engine.py): each  *)
(* bar fills the orders of the signal before, the account is marked at the *)
(* close, and the strategy's signal becomes orders for the next bar; at    *)
(* the end the position is closed and the report computed                  *)
(* (performance.py).                                                       *)
(*                                                                         *)
(* Abstracted: a bar is its open and close; a strategy is any sequence of  *)
(* signals; money is in whole units, quantities are rounded down.          *)
(***************************************************************************)
EXTENDS FillModel, FiniteSets, SequencesExt

CONSTANTS
  EnginePrices,   \* the prices
  EngineBars,     \* the length of the history
  EngineCapital,  \* initial_capital
  SizePercent,    \* position_size_pct
  EngineFee,      \* fee per trade
  SlipBy          \* ticks of slippage

ASSUME EngineAssumption ==
  /\ EnginePrices \subseteq Nat \ {0} /\ {EngineBars, EngineFee, SlipBy} \subseteq Nat
  /\ EngineCapital \in Nat \ {0} /\ SizePercent \in 1 .. 100

VARIABLES
  bar,       \* bars replayed
  sentOrders,\* the matcher's pending orders
  capital,
  held,      \* [side, qty, entry]: position_side, position_qty, entry_price
  curve,     \* equity_curve
  profits,   \* the pnl of the trades
  wanted,    \* the side the last signal that counted asks for
  emptyFill, \* ghost: the capital did not buy a unit once, and nothing was filled for it
  ended

engineVars == <<bar, sentOrders, capital, held, curve, profits, wanted, emptyFill, ended>>

NoHolding == [side |-> "none", qty |-> 0, entry |-> 0]

SlipModel == [kind |-> "fixed", by |-> SlipBy]
FeeModel  == [kind |-> "fixed", by |-> EngineFee]

EngineTypeOK ==
  /\ bar \in 0 .. EngineBars /\ Len(sentOrders) <= 2 /\ capital \in Int
  /\ held.side \in {"none", "LONG", "SHORT"} /\ wanted \in {"none", "LONG", "SHORT"}
  /\ Len(curve) = bar + 1

EngineInit ==
  /\ bar = 0 /\ sentOrders = <<>> /\ capital = EngineCapital /\ held = NoHolding
  /\ curve = <<EngineCapital>> /\ profits = <<>> /\ wanted = "none"
  /\ emptyFill = FALSE /\ ended = FALSE

-----------------------------------------------------------------------------
ProfitOf(h, price) ==
  IF h.qty > 0 THEN (IF h.side = "LONG" THEN price - h.entry ELSE h.entry - price) * h.qty ELSE 0

\* A fill closes the opposite position whatever the quantities; any other fill
\* replaces what is held.
AfterFill(acc, f) ==
  LET opposite == IF f.side = "BUY" THEN "SHORT" ELSE "LONG"
      gain     == ProfitOf(acc.held, f.price) - f.fee
  IN IF acc.held.side = opposite /\ acc.held.qty > 0
     THEN [held |-> NoHolding, capital |-> acc.capital + gain, profits |-> Append(acc.profits, gain)]
     ELSE [acc EXCEPT !.held = [side |-> IF f.side = "BUY" THEN "LONG" ELSE "SHORT",
                                qty |-> f.qty, entry |-> f.price],
                      !.capital = @ - f.fee]

Sized(close, money) == (money * SizePercent) \div (100 * close)

MarketOrder(side, qty) ==
  [id |-> 0, kind |-> "market", side |-> side, price |-> 0, qty |-> qty, created |-> bar + 1]

\* Mutant: a reversal closes and does not open.
OrdersOfClosing(signal, h, qty) ==
  LET entry == IF signal = "LONG" THEN "BUY" ELSE "SELL" IN
  CASE signal \in {"LONG", "SHORT"} /\ h.side # signal -> <<MarketOrder(entry, qty)>>
    [] signal = "CLOSE" /\ h.side # "none" ->
         <<MarketOrder(IF h.side = "LONG" THEN "SELL" ELSE "BUY", qty)>>
    [] OTHER -> <<>>

\* _process_signal: a reversal closes first, with an order of the same size.
OrdersOf(signal, h, qty) ==
  LET entry == IF signal = "LONG" THEN "BUY" ELSE "SELL" IN
  CASE signal \in {"LONG", "SHORT"} /\ h.side # signal ->
         (IF h.side # "none" THEN <<MarketOrder(entry, qty)>> ELSE <<>>) \o <<MarketOrder(entry, qty)>>
    [] signal = "CLOSE" /\ h.side # "none" ->
         <<MarketOrder(IF h.side = "LONG" THEN "SELL" ELSE "BUY", qty)>>
    [] OTHER -> <<>>

\* One bar of run, from the fills to the orders of its signal; the signal of
\* the last bar sends none.
ReplayBar(open, close, signal) ==
  /\ ~ended /\ bar < EngineBars /\ bar' = bar + 1
  /\ LET b     == [open |-> open, high |-> open, low |-> open, close |-> close, volume |-> 1]
         fillOf(o) == [side |-> o.side, qty |-> o.qty, price |-> ExecPrice(o, b, SlipModel),
                       fee |-> FillFee(o, b, SlipModel, FeeModel)]
         filled == FilledBy(sentOrders, b, bar')
         after == FoldLeft(AfterFill, [held |-> held, capital |-> capital, profits |-> profits],
                           [i \in DOMAIN filled |-> fillOf(filled[i])])
     IN /\ held' = after.held /\ capital' = after.capital /\ profits' = after.profits
        /\ emptyFill' = (emptyFill \/ \E i \in DOMAIN filled : filled[i].qty <= 0)
        /\ curve' = Append(curve, after.capital + ProfitOf(after.held, close))
        /\ sentOrders' = LeftBy(sentOrders, b, bar') \o
             (IF bar' < EngineBars THEN OrdersOf(signal, after.held, Sized(close, after.capital))
              ELSE <<>>)
  /\ wanted' = CASE signal \in {"LONG", "SHORT"} -> signal
                 [] signal = "CLOSE" -> "none"
                 [] OTHER -> wanted
  /\ UNCHANGED ended

\* After the last bar: what is held is closed at the last close, without a fee.
EndReplay ==
  /\ ~ended /\ bar = EngineBars /\ bar > 0 /\ ended' = TRUE
  /\ IF held.qty > 0
     THEN LET gain == Last(curve) - capital IN
          /\ capital' = capital + gain /\ profits' = Append(profits, gain)
     ELSE UNCHANGED <<capital, profits>>
  /\ UNCHANGED <<bar, sentOrders, held, curve, wanted, emptyFill>>

EngineNext ==
  \/ \E open, close \in EnginePrices, signal \in {"LONG", "SHORT", "CLOSE", "none"} :
       ReplayBar(open, close, signal)
  \/ EndReplay

EngineSpec == EngineInit /\ [][EngineNext]_engineVars

-----------------------------------------------------------------------------
(* The figures of the report that count rather than average; a ratio is    *)
(* <<numerator, denominator>>.  Sharpe and Sortino are left out.           *)

Below(r, q)  == r[1] * q[2] < q[1] * r[2]
Larger(r, q) == IF Below(r, q) THEN q ELSE r

\* One bar of _calc_max_drawdown.
DrawdownStep(acc, x) ==
  IF x.val >= acc.peak
  THEN [acc EXCEPT !.peak = x.val, !.down = FALSE,
                   !.length = IF acc.down /\ x.at - acc.since > @ THEN x.at - acc.since ELSE @]
  ELSE [acc EXCEPT !.down = TRUE, !.since = IF acc.down THEN @ ELSE x.at,
                   !.worst = IF acc.peak > 0 THEN Larger(@, <<acc.peak - x.val, acc.peak>>) ELSE @]

\* [worst, length]: the worst drawdown as a ratio, the longest one in bars; one
\* that lasts to the end counts the bars after its first.
MaxDrawdown(points) ==
  LET after[n \in 0 .. Len(points)] ==
        IF n = 0 THEN [peak |-> points[1], worst |-> <<0, 1>>, length |-> 0, down |-> FALSE, since |-> 0]
        ELSE DrawdownStep(after[n - 1], [at |-> n - 1, val |-> points[n]])
      end == after[Len(points)]
  IN [worst  |-> end.worst,
      length |-> IF end.down /\ Len(points) - 1 - end.since > end.length
                 THEN Len(points) - 1 - end.since ELSE end.length]

\* _max_consecutive.
MaxConsecutive(gains, win) ==
  LET current[n \in 0 .. Len(gains)] ==
        IF n > 0 /\ (gains[n] > 0) = win THEN current[n - 1] + 1 ELSE 0
      most[n \in 0 .. Len(gains)] ==
        IF n = 0 THEN 0 ELSE IF current[n] > most[n - 1] THEN current[n] ELSE most[n - 1]
  IN most[Len(gains)]

SumSeq(s) ==
  LET total[n \in 0 .. Len(s)] == IF n = 0 THEN 0 ELSE total[n - 1] + s[n]
  IN total[Len(s)]

\* What each trade adds to the wins, and to the losses.
Wins(gains)   == [i \in DOMAIN gains |-> IF gains[i] > 0 THEN gains[i] ELSE 0]
Losses(gains) == [i \in DOMAIN gains |-> IF gains[i] > 0 THEN 0 ELSE -gains[i]]

\* Infinite when nothing was lost.
ProfitFactor(gains) ==
  IF SumSeq(Losses(gains)) > 0 THEN <<SumSeq(Wins(gains)), SumSeq(Losses(gains))>> ELSE <<1, 0>>

-----------------------------------------------------------------------------
(* Properties.                                                             *)

SameRatio(r, q) == r[1] * q[2] = q[1] * r[2]

\* What falls from a bar to another, as a share of the first.
Fall(points, i, j) == <<points[i] - points[j], points[i]>>

\* r is the worst fall from any bar to a later one, and none if nothing falls.
IsWorstFall(r, points) ==
  /\ \A i \in DOMAIN points : \A j \in DOMAIN points : i < j => ~Below(r, Fall(points, i, j))
  /\ \/ SameRatio(r, <<0, 1>>)
     \/ \E i \in DOMAIN points : \E j \in DOMAIN points : i < j /\ SameRatio(r, Fall(points, i, j))

\* The trades from a to b all win, or all do not.
IsRun(gains, win, a, b) == a <= b /\ \A k \in a .. b : (gains[k] > 0) = win

\* n is the length of the longest run, and none if there is none.
IsLongestRun(n, gains, win) ==
  /\ \A a \in DOMAIN gains : \A b \in DOMAIN gains : IsRun(gains, win, a, b) => b - a + 1 <= n
  /\ n = 0 \/ \E a \in DOMAIN gains : \E b \in DOMAIN gains : IsRun(gains, win, a, b) /\ b - a + 1 = n

\* The bar after a signal leaves the account on the side the signal asks for,
\* through a reversal as well: long, short or flat (_process_signal and the
\* fills of run). A position of no unit, which is all a capital that is too
\* small or lost can buy, is not closed by its closing order: from then on this
\* is promised of the fills of whole positions by orders of a unit or more.
SignalObeyed ==
  [][LET whole == /\ sentOrders # <<>> /\ \A i \in DOMAIN sentOrders : sentOrders[i].qty > 0
                  /\ held.side = "none" \/ held.qty > 0
     IN bar' > bar /\ (whole \/ ~emptyFill') => held'.side = wanted]_engineVars

\* The drawdown of the report is the worst fall from any bar to any later one
\* while the account is worth something, its streaks are the longest runs, and
\* its profit factor exceeds one just when the trades made money
\* (PerformanceAnalyzer._calc_max_drawdown, _max_consecutive).
ReportIsRight ==
  ended => /\ (\A i \in DOMAIN curve : curve[i] > 0)
                => IsWorstFall(MaxDrawdown(curve).worst, curve)
           /\ \A win \in BOOLEAN : IsLongestRun(MaxConsecutive(profits, win), profits, win)
           /\ (\E i \in DOMAIN profits : profits[i] < 0)
                => (ProfitFactor(profits)[1] > ProfitFactor(profits)[2]) = (SumSeq(profits) > 0)
===============================================================================
