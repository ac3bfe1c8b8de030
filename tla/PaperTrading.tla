------------------------------ MODULE PaperTrading ------------------------------
(***************************************************************************)
(* The paper-trading service (scripts/run_paper.py): TradeEngine,          *)
(* OrderManager, PositionManager and RiskEngine over the Simulator         *)
(* (core/trade_engine/, core/risk_engine/). No method of the simulator     *)
(* suspends, so a handler is one step of the event loop.                   *)
(*                                                                         *)
(* The engine's position is the simulator's own object as long as that     *)
(* lives: the simulator drops a position that reaches zero and makes a     *)
(* new one later, which the engine sees when it syncs again.               *)
(*                                                                         *)
(* Abstracted: one symbol; no fees; of the rules, those on the position    *)
(* and the balance; an average price is cut to a whole number.             *)
(***************************************************************************)
EXTENDS Integers, FiniteSets, FiniteSetsExt

CONSTANTS
  Prices,      \* market and limit prices
  Lots,        \* order quantities
  MaxQuantity, \* the limit of MaxPositionPerSymbolRule
  Balance,     \* the simulator's initial balance
  MaxOrders    \* bound: orders created

ASSUME PaperAssumption ==
  /\ Prices \subseteq Nat \ {0} /\ Lots \subseteq Nat \ {0}
  /\ MaxQuantity \in Nat /\ Balance \in Nat /\ MaxOrders \in Nat

Sides    == {"BUY", "SELL"}
Terminal == {"FILLED", "CANCELED", "REJECTED"}
OrderIds == 1 .. MaxOrders
NoOrder  == [status |-> "none"]
Flat     == [side |-> "FLAT", qty |-> 0, avg |-> 0]

VARIABLES
  engineUp,    \* _running of the engine and of its risk engine
  market,      \* the simulator's last price, 0 before the first
  orders,      \* the order manager's orders
  resting,     \* the simulator's _pending_orders
  book,        \* the simulator's position, Flat when it has none
  known,       \* the engine's position: "none", "same" object as book, or an
               \*   object the simulator dropped, which closed "LONG" or "SHORT"
  cash,        \* the simulator's balance
  account,     \* the balance the engine read when it started
  realized,    \* realized profit of all positions there ever were
  remainders   \* history: what the averages have cut off, below zero for shorts

paperVars == <<engineUp, market, orders, resting, book, known, cash, account,
               realized, remainders>>

PaperTypeOK ==
  /\ engineUp \in BOOLEAN
  /\ market \in Prices \cup {0}
  /\ DOMAIN orders = OrderIds
  /\ resting \subseteq OrderIds
  /\ book.side \in {"FLAT", "LONG", "SHORT"} /\ book.qty \in Nat
  /\ known \in {"none", "same", "LONG", "SHORT"}
  /\ cash \in Int /\ account \in Int /\ realized \in Int /\ remainders \in Int

PaperInit ==
  /\ engineUp = FALSE
  /\ market = 0
  /\ orders = [i \in OrderIds |-> NoOrder]
  /\ resting = {}
  /\ book = Flat /\ known = "none"
  /\ cash = Balance /\ account = 0 /\ realized = 0 /\ remainders = 0

-----------------------------------------------------------------------------
(* The simulator's position.                                               *)

Signed(pos) == IF pos.side = "SHORT" THEN 0 - pos.qty ELSE pos.qty
Opposes(side, pos) ==
  <<side, pos.side>> \in {<<"BUY", "SHORT">>, <<"SELL", "LONG">>}
Held(side) == IF side = "BUY" THEN "LONG" ELSE "SHORT"

\* _update_position: an opposing fill of at least the quantity turns the side.
Filled(pos, side, price, q) ==
  CASE pos.qty = 0 -> [side |-> Held(side), qty |-> q, avg |-> price]
    [] pos.qty # 0 /\ ~Opposes(side, pos) ->
         [pos EXCEPT !.qty = @ + q,
                     !.avg = (pos.avg * pos.qty + price * q) \div (pos.qty + q)]
    [] Opposes(side, pos) /\ q < pos.qty -> [pos EXCEPT !.qty = @ - q]
    [] Opposes(side, pos) /\ q > pos.qty ->
         [side |-> Held(side), qty |-> q - pos.qty, avg |-> price]
    [] OTHER -> Flat

Gain(pos, side, price, q) ==
  IF Opposes(side, pos)
  THEN (IF side = "SELL" THEN price - pos.avg ELSE pos.avg - price)
         * (IF q < pos.qty THEN q ELSE pos.qty)
  ELSE 0

\* What the new average of a position that grows leaves of its cost.
CutOff(pos, side, price, q) ==
  LET rest == (pos.avg * pos.qty + price * q) % (pos.qty + q) IN
  IF pos.qty = 0 \/ Opposes(side, pos) THEN 0
  ELSE IF side = "BUY" THEN rest ELSE 0 - rest

Outlay(side, price, q) == IF side = "BUY" THEN price * q ELSE 0 - price * q

\* What the engine's object is after a fill: a position that reached zero is
\* dropped with its side already turned.
KnownAfter(k, before, after) ==
  IF k = "same" /\ after.qty = 0 THEN (IF before.side = "LONG" THEN "SHORT" ELSE "LONG")
  ELSE k

Synced(b) == IF b.qty = 0 THEN "none" ELSE "same"

-----------------------------------------------------------------------------
(* Orders.                                                                 *)

NewOrders == {i \in OrderIds : orders[i] = NoOrder /\ \A j \in OrderIds :
                                j < i => orders[j] # NoOrder}

\* The position as the engine sees it; a dropped one counts as zero.
SeenQty == IF known = "same" THEN book.qty ELSE 0

\* MaxPositionPerSymbolRule: the position's quantity has no sign.
WithinLimits(side, q) ==
  LET new == IF side = "BUY" THEN SeenQty + q ELSE SeenQty - q IN
  new <= MaxQuantity /\ 0 - new <= MaxQuantity

\* AvailableBalanceRule: the balance is the one of the start. A manual market
\* order has no price to check it with.
Affordable(q, price) == q * price <= account

RiskPasses(side, q, price) ==
  engineUp /\ WithinLimits(side, q) /\ Affordable(q, price)

Order(side, q, limit, status) ==
  [side |-> side, qty |-> q, limit |-> limit, status |-> status]

Reject(i, side, q, limit) ==
  /\ orders' = [orders EXCEPT ![i] = Order(side, q, limit, "REJECTED")]
  /\ UNCHANGED <<resting, book, known, cash, realized, remainders>>

\* A fill inside of submit; the engine syncs its positions after it.
FillNow(i, side, q, limit, price) ==
  /\ orders' = [orders EXCEPT ![i] = Order(side, q, limit, "FILLED")]
  /\ book' = Filled(book, side, price, q)
  /\ known' = Synced(book')
  /\ cash' = cash - Outlay(side, price, q)
  /\ realized' = realized + Gain(book, side, price, q)
  /\ remainders' = remainders + CutOff(book, side, price, q)
  /\ UNCHANGED resting

\* Simulator.submit_order for a market order.
SubmitMarket(i, side, q) ==
  IF market = 0 THEN Reject(i, side, q, 0) ELSE FillNow(i, side, q, 0, market)

Fillable(side, limit, price) ==
  price # 0 /\ (IF side = "BUY" THEN price <= limit ELSE price >= limit)

SubmitLimit(i, side, q, limit) ==
  IF Fillable(side, limit, market)
  THEN FillNow(i, side, q, limit, limit)
  ELSE /\ orders' = [orders EXCEPT ![i] = Order(side, q, limit, "SUBMITTED")]
       /\ resting' = resting \cup {i}
       /\ UNCHANGED <<book, known, cash, realized, remainders>>

\* The side of a CLOSE is against the position the engine sees.
SideOf(direction) ==
  CASE direction = "LONG"  -> {"BUY"}
    [] direction = "SHORT" -> {"SELL"}
    [] OTHER -> LET side == IF known = "same" THEN book.side ELSE known IN
                CASE side = "LONG"  -> {"SELL"}
                  [] side = "SHORT" -> {"BUY"}
                  [] OTHER          -> {}

-----------------------------------------------------------------------------
(* Handlers.                                                               *)

\* process_signal: market orders; p is the price the signal carries.
ProcessSignal ==
  /\ engineUp
  /\ \E i \in NewOrders, direction \in {"LONG", "SHORT", "CLOSE"}, q \in Lots :
       \E side \in SideOf(direction) :
         IF RiskPasses(side, q, market)
         THEN SubmitMarket(i, side, q) ELSE Reject(i, side, q, 0)
  /\ UNCHANGED <<engineUp, market, account>>

\* submit_manual_order works on a stopped engine too: the risk engine refuses.
ManualOrder ==
  /\ \E i \in NewOrders, side \in Sides, q \in Lots, limit \in Prices \cup {0} :
       CASE ~RiskPasses(side, q, limit) -> Reject(i, side, q, limit)
         [] RiskPasses(side, q, limit) /\ limit = 0 -> SubmitMarket(i, side, q)
         [] OTHER -> SubmitLimit(i, side, q, limit)
  /\ UNCHANGED <<engineUp, market, account>>

\* Simulator.update_price: resting orders fill at their limit, in the order they
\* came, and nobody is told.
FillOne(s, i) ==
  LET o == orders[i] IN
  [ book     |-> Filled(s.book, o.side, o.limit, o.qty),
    known    |-> KnownAfter(s.known, s.book, Filled(s.book, o.side, o.limit, o.qty)),
    cash     |-> s.cash - Outlay(o.side, o.limit, o.qty),
    realized |-> s.realized + Gain(s.book, o.side, o.limit, o.qty),
    remainders |-> s.remainders + CutOff(s.book, o.side, o.limit, o.qty) ]

\* The books after those of the orders 1 .. k that are hit.
BooksAfter(hit) ==
  LET after[k \in 0 .. MaxOrders] ==
        IF k = 0
        THEN [book |-> book, known |-> known, cash |-> cash, realized |-> realized,
              remainders |-> remainders]
        ELSE IF k \in hit THEN FillOne(after[k - 1], k) ELSE after[k - 1]
  IN after

UpdatePrice ==
  \E p \in Prices \ {market} :
    LET hit == {i \in resting : Fillable(orders[i].side, orders[i].limit, p)}
        end == BooksAfter(hit)[MaxOrders]
    IN /\ market' = p
       /\ resting' = resting \ hit
       /\ orders' = [i \in OrderIds |->
                       IF i \in hit THEN [orders[i] EXCEPT !.status = "FILLED"]
                                    ELSE orders[i]]
       /\ book' = end.book /\ known' = end.known
       /\ cash' = end.cash /\ realized' = end.realized /\ remainders' = end.remainders
       /\ UNCHANGED <<engineUp, account>>

\* cancel_order: an order that does not rest becomes CANCELED, unless filled.
CancelOrder(i) ==
  /\ orders[i] # NoOrder
  /\ resting' = resting \ {i}
  /\ orders' = [orders EXCEPT ![i].status = IF @ = "FILLED" THEN @ ELSE "CANCELED"]
  /\ UNCHANGED <<engineUp, market, book, known, cash, account, realized, remainders>>

StartEngine ==
  /\ ~engineUp /\ engineUp' = TRUE
  /\ account' = cash
  /\ known' = Synced(book)
  /\ UNCHANGED <<market, orders, resting, book, cash, realized, remainders>>

\* The resting orders stay with the simulator.
StopEngine ==
  /\ engineUp /\ engineUp' = FALSE
  /\ UNCHANGED <<market, orders, resting, book, known, cash, account, realized, remainders>>

PaperNext ==
  \/ ProcessSignal \/ ManualOrder \/ UpdatePrice \/ StartEngine \/ StopEngine
  \/ \E i \in OrderIds : CancelOrder(i)

PaperSpec == PaperInit /\ [][PaperNext]_paperVars

-----------------------------------------------------------------------------
(* Properties.                                                             *)

FilledQty(i) ==
  IF orders[i] = NoOrder \/ orders[i].status # "FILLED" THEN 0
  ELSE IF orders[i].side = "BUY" THEN orders[i].qty ELSE 0 - orders[i].qty

\* The three books of the service agree after any sequence of fills, turns of
\* the position and cancels: what the order manager has as filled is the
\* position, what it has as active is what may still fill, and every unit of
\* money is in the balance, in the position at its average price or in the
\* realized profit, but for what the averages cut off (_fill_order,
\* _update_position, cancel_order).
BooksAgree ==
  /\ Signed(book) = MapThenSumSet(FilledQty, OrderIds)
  /\ resting = {i \in OrderIds : orders[i].status \notin Terminal \cup {"none"}}
  /\ cash - Balance = realized - Signed(book) * book.avg - remainders

\* RISK-002: the position of one symbol has a maximum. No run checks it, since the
\* code does not keep it (README, section 5).
PositionWithinLimit == book.qty <= MaxQuantity
==============================================================================
