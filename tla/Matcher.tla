-------------------------------- MODULE Matcher -------------------------------
(***************************************************************************)
(* The matcher of the backtest engine on its own                           *)
(* (core/backtest_engine/matcher.py): orders are sent at any time, those   *)
(* that rest can be cancelled, and each bar fills what it touches.         *)
(*                                                                         *)
(* Abstracted: all orders have one quantity, bars one volume.              *)
(***************************************************************************)
EXTENDS FillModel, FiniteSets, SequencesExt

CONSTANTS
  BarPrices,        \* the prices of bars and orders
  MaxBars, MaxSent  \* bounds

ASSUME MatcherAssumption ==
  /\ BarPrices \subseteq Nat /\ BarPrices # {} /\ IsFiniteSet(BarPrices)
  /\ {MaxBars, MaxSent} \subseteq Nat

VARIABLES
  barNo,     \* _bar_index
  pendingOrders,   \* _pending_orders, each with the lowest and highest price since it was sent
  sentCount

matcherVars == <<barNo, pendingOrders, sentCount>>

MatcherTypeOK == barNo \in 0 .. MaxBars /\ Len(pendingOrders) <= MaxSent /\ sentCount \in 0 .. MaxSent

\* Nothing has been seen yet.
Highest == CHOOSE p \in BarPrices : \A q \in BarPrices : q <= p
Lowest  == CHOOSE p \in BarPrices : \A q \in BarPrices : p <= q

MatcherInit == barNo = 0 /\ pendingOrders = <<>> /\ sentCount = 0

SubmitOrder(kind, side, price) ==
  /\ sentCount < MaxSent /\ sentCount' = sentCount + 1
  /\ pendingOrders' = Append(pendingOrders, [id |-> sentCount', kind |-> kind, side |-> side, price |-> price,
                                 qty |-> 1, created |-> barNo,
                                 low |-> Highest + 1, high |-> Lowest - 1])
  /\ UNCHANGED barNo

CancelResting(i) ==
  /\ pendingOrders' = RemoveAt(pendingOrders, i)
  /\ UNCHANGED <<barNo, sentCount>>

\* on_bar; what a bar does to the orders it leaves is remembered with them.
OnBar(b) ==
  /\ barNo < MaxBars /\ barNo' = barNo + 1
  /\ LET left == LeftBy(pendingOrders, b, barNo') IN
     pendingOrders' = [i \in DOMAIN left |->
       [left[i] EXCEPT !.low  = IF b.low  < @ THEN b.low  ELSE @,
                       !.high = IF b.high > @ THEN b.high ELSE @]]
  /\ UNCHANGED sentCount

\* All bars over the prices.
AllBars ==
  {b \in [open : BarPrices, high : BarPrices, low : BarPrices, close : BarPrices, volume : {1}] :
     /\ b.low <= b.open /\ b.low <= b.close /\ b.open <= b.high /\ b.close <= b.high}

MatcherNext ==
  \/ \E kind \in {"limit", "stop"}, side \in {"BUY", "SELL"}, p \in BarPrices : SubmitOrder(kind, side, p)
  \/ \E side \in {"BUY", "SELL"} : SubmitOrder("market", side, 0)
  \/ \E i \in DOMAIN pendingOrders : CancelResting(i)
  \/ \E b \in AllBars : OnBar(b)

MatcherSpec == MatcherInit /\ [][MatcherNext]_matcherVars

-----------------------------------------------------------------------------
(* Properties.                                                             *)

\* An order rests only while no bar after its own has reached its price: no
\* fill is missed, and a market order is gone with the next bar (Matcher.on_bar).
RestsUntouched ==
  \A i \in DOMAIN pendingOrders :
    LET o == pendingOrders[i] IN
    o.created < barNo =>
      /\ o.kind # "market"
      /\ (o.kind = "limit") = (o.side = "BUY") => o.low > o.price
      /\ (o.kind = "limit") # (o.side = "BUY") => o.high < o.price
===============================================================================
