------------------------------- MODULE FillModel ------------------------------
(***************************************************************************)
(* When a bar fills an order and what the fill costs: the matcher of the   *)
(* backtest engine and its slippage and fee models                         *)
(* (core/backtest_engine/matcher.py, slippage.py, fee.py).                 *)
(*                                                                         *)
(* An order is [id, kind, side, price, qty, created], price the limit or   *)
(* the stop and created the bar it was sent in; a bar is [open, high, low, *)
(* close, volume].  Rates are in thousandths; results are rounded down.    *)
(***************************************************************************)
EXTENDS Integers, Sequences, FiniteSets

\* How far a price slips: [kind, by], by the ticks, the rate or the impact factor.
Slip(model, price, qty, volume) ==
  CASE model.kind = "fixed"      -> model.by
    [] model.kind = "percentage" -> (price * model.by) \div 1000
    [] model.kind = "volume"     -> IF volume > 0 THEN (price * model.by * qty) \div (volume * 1000)
                                    ELSE (price * model.by) \div 1000000

\* A buyer pays more, a seller gets less.
SlippedPrice(model, price, qty, side, volume) ==
  IF side = "BUY" THEN price + Slip(model, price, qty, volume)
  ELSE price - Slip(model, price, qty, volume)

\* [kind, by, maker]: an amount per trade, or a rate on the notional, the
\* maker's own when it is tiered.
FeeOf(model, price, qty, isMaker) ==
  CASE model.kind = "fixed"      -> model.by
    [] model.kind = "percentage" -> (price * qty * model.by) \div 1000
    [] model.kind = "tiered"     -> (price * qty * (IF isMaker THEN model.maker ELSE model.by)) \div 1000

\* Does the bar reach the price of the order?
Touched(o, b) ==
  CASE o.kind = "market" -> TRUE
    [] o.kind = "limit"  -> IF o.side = "BUY" THEN b.low <= o.price ELSE b.high >= o.price
    [] o.kind = "stop"   -> IF o.side = "BUY" THEN b.high >= o.price ELSE b.low <= o.price

\* The price before slippage: a limit gets the open when that is better, a
\* stop its own price wherever the bar opened.
BasePrice(o, b) ==
  CASE o.kind = "market" -> b.open
    [] o.kind = "limit"  -> IF (o.side = "BUY") = (b.open < o.price) THEN b.open ELSE o.price
    [] o.kind = "stop"   -> o.price

ExecPrice(o, b, slippage) == SlippedPrice(slippage, BasePrice(o, b), o.qty, o.side, b.volume)

FillFee(o, b, slippage, fee) == FeeOf(fee, ExecPrice(o, b, slippage), o.qty, o.kind = "limit")

\* on_bar with bar i: only orders of earlier bars are matched.
Matched(o, b, i) == o.created < i /\ Touched(o, b)

\* The orders at some places of the list, as they stand in it.
OrdersAt(pending, places) ==
  [n \in 1 .. Cardinality(places) |->
     pending[CHOOSE k \in places : Cardinality({j \in places : j <= k}) = n]]

FilledBy(pending, b, i) == OrdersAt(pending, {k \in DOMAIN pending : Matched(pending[k], b, i)})
LeftBy(pending, b, i)   == OrdersAt(pending, {k \in DOMAIN pending : ~Matched(pending[k], b, i)})
===============================================================================
