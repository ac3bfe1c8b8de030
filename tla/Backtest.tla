------------------------------- MODULE Backtest -------------------------------
(***************************************************************************)
(* The backtest of the SDK: several strategies replayed against one        *)
(* simulated account (kqsdk/backtest_runner.py run_portfolio).  The main   *)
(* thread pumps the bars of one timeline (backtest_feed.py) to a gate per  *)
(* strategy and waits until all have come back to their gates              *)
(* (backtest_pump.py); the strategies run in threads of their own and send *)
(* orders to the executor, which fills them at once and keeps the net      *)
(* position and the cash (backtest_executor.py).                           *)
(*                                                                         *)
(* Abstracted: a strategy is one that sends any order or none in a step,   *)
(* and leaves its loop when it likes; resolver, ledger and risk check let  *)
(* the order through; the account currency is the quote currency and the   *)
(* contract multiplier 1; a price is that of the moment, and a bar of      *)
(* period p that begins at t opens at the price of t and closes at that of *)
(* t + p.  A fill reads the position and changes it later without a lock.  *)
(***************************************************************************)
EXTENDS Integers, Sequences, FiniteSets, SequencesExt, FiniteSetsExt

CONSTANTS
  Workers,     \* the threads: strategy and symbol
  Books,       \* the symbols
  Periods,     \* lengths of the bars
  LastTime,    \* the end of the history
  PathPrices,  \* what prices there can be
  Fee,         \* fee per trade
  Capital,     \* initial capital
  MaxLot       \* bound on the quantity of an order

ASSUME BacktestAssumption ==
  /\ Periods \subseteq Nat \ {0} /\ {LastTime, Fee, Capital} \subseteq Nat /\ MaxLot \in Nat \ {0}
  /\ IsFiniteSet(Books) /\ PathPrices \subseteq Nat

VARIABLES
  walk,       \* the price of a symbol at a time
  bookOf,     \* the symbol of a worker
  pump,       \* the main thread: "idle", "acks", "join", "done"
  step,       \* _step of the feed, 0 before the first event
  current,    \* _cur: the event last revealed of a symbol, 0 for none
  gates,      \* per worker: [events, acks, started]
  thread,     \* per worker: "new", "gate", "works", "fills", "over"
  draining,   \* the workers whose strategy has ended
  seenStep,   \* the step a worker was woken for
  filling,    \* the fill a worker is in: what it has read
  cash, position, tickets,  \* the executor
  pnl,        \* of the trades it has recorded, in all
  lastFill    \* the last order of a worker: [step, seen], filled at step, sent for seen

backtestVars == <<walk, bookOf, pump, step, current, gates, thread, draining, seenStep, filling,
                  cash, position, tickets, pnl, lastFill>>

Terminate == 0  \* the sentinel

NoPosition == [side |-> 0, qty |-> 0, cost |-> 0, fee |-> 0, ticket |-> 0]
NoFill == [side |-> "none", qty |-> 0, price |-> 0, of |-> NoPosition]

Events ==
  {e \in [at : 0 .. LastTime, period : Periods, symbol : Books] :
     e.at % e.period = 0 /\ e.at + e.period <= LastTime}

\* By time, and at one time the longer period first; symbols of one time and
\* period come in some fixed order.
Before(d, e) ==
  LET order == SetToSeq(Books)
      rank(s) == CHOOSE i \in DOMAIN order : order[i] = s
  IN \/ d.at < e.at
     \/ d.at = e.at /\ d.period > e.period
     \/ d.at = e.at /\ d.period = e.period /\ rank(d.symbol) < rank(e.symbol)

\* The events in order: the n-th has n - 1 before it.
Timeline ==
  [n \in 1 .. Cardinality(Events) |->
     CHOOSE e \in Events : Cardinality({d \in Events : Before(d, e)}) = n - 1]

BacktestTypeOK ==
  /\ pump \in {"idle", "acks", "join", "done"} /\ step \in 0 .. Len(Timeline)
  /\ thread \in [Workers -> {"new", "gate", "works", "fills", "over"}]
  /\ draining \subseteq Workers /\ seenStep \in [Workers -> 0 .. Len(Timeline)]
  /\ cash \in Int /\ \A s \in Books : position[s].qty \in Nat

BacktestInit ==
  /\ walk \in [Books -> [0 .. LastTime -> PathPrices]]
  /\ bookOf \in [Workers -> Books]
  /\ pump = "idle" /\ step = 0 /\ current = [s \in Books |-> 0]
  /\ gates = [w \in Workers |-> [events |-> <<>>, acks |-> 0, started |-> FALSE]]
  /\ thread = [w \in Workers |-> "new"] /\ draining = {}
  /\ seenStep = [w \in Workers |-> 0] /\ filling = [w \in Workers |-> NoFill]
  /\ cash = Capital /\ position = [s \in Books |-> NoPosition]
  /\ tickets = 0 /\ pnl = 0 /\ lastFill = [w \in Workers |-> [step |-> 0, seen |-> 0]]

executorVars == <<cash, position, tickets, pnl, lastFill>>
threadVars == <<thread, draining, seenStep, filling>>

-----------------------------------------------------------------------------
(* The pump: run_lockstep.                                                 *)

\* The next event is revealed and published to all gates; the acknowledgements
\* of the event before have all been taken.  Each queue has one reader, so the
\* order in which the gates are served makes no difference.
Reveal ==
  /\ step' = step + 1
  /\ current' = [current EXCEPT ![Timeline[step'].symbol] = step']

StartPump ==
  /\ pump = "idle" /\ Timeline # <<>>
  /\ pump' = "acks" /\ Reveal
  /\ gates' = [w \in Workers |-> [gates[w] EXCEPT !.events = Append(@, step')]]
  /\ UNCHANGED <<walk, bookOf, threadVars, executorVars>>

Advance ==
  /\ pump = "acks" /\ \A w \in Workers : gates[w].acks > 0
  /\ IF step < Len(Timeline)
     THEN /\ Reveal /\ UNCHANGED pump
          /\ gates' = [w \in Workers |-> [gates[w] EXCEPT !.acks = @ - 1, !.events = Append(@, step')]]
     ELSE /\ pump' = "join" /\ UNCHANGED <<step, current>>
          /\ gates' = [w \in Workers |-> [gates[w] EXCEPT !.acks = @ - 1, !.events = Append(@, Terminate)]]
  /\ UNCHANGED <<walk, bookOf, threadVars, executorVars>>

-----------------------------------------------------------------------------
(* A worker at its gate: next_step.                                        *)

\* Mutant: the event is acknowledged when it is taken.
ToGateEager(w) ==
  /\ gates' = [gates EXCEPT ![w].started = TRUE,
                            ![w].acks = IF gates[w].started THEN @ ELSE @ + 1]
  /\ thread' = [thread EXCEPT ![w] = "gate"]

\* To the gate: the step before is acknowledged, if there was one.
ToGate(w) ==
  /\ gates' = [gates EXCEPT ![w].started = TRUE,
                            ![w].acks = IF gates[w].started THEN @ + 1 ELSE @]
  /\ thread' = [thread EXCEPT ![w] = "gate"]

\* The strategy begins, or calls wait_update again; after it has ended the
\* drain does, with every event.
NextStep(w) ==
  /\ thread[w] \in {"new", "works"}
  /\ ToGate(w)
  /\ UNCHANGED <<walk, bookOf, pump, step, current, draining, seenStep, filling, executorVars>>

\* Mutant: a strategy that ends early ends its thread.
LeaveEndsThread(w) ==
  /\ thread[w] \in {"new", "works"} /\ w \notin draining
  /\ draining' = draining \cup {w} /\ thread' = [thread EXCEPT ![w] = "over"]
  /\ UNCHANGED <<walk, bookOf, pump, step, current, gates, seenStep, filling, executorVars>>

\* The strategy breaks out of its loop or raises: drain goes to the gate.
Leave(w) ==
  /\ thread[w] \in {"new", "works"} /\ w \notin draining
  /\ draining' = draining \cup {w} /\ ToGate(w)
  /\ UNCHANGED <<walk, bookOf, pump, step, current, seenStep, filling, executorVars>>

TakeEvent(w) ==
  /\ thread[w] = "gate" /\ gates[w].events # <<>>
  /\ gates' = [gates EXCEPT ![w].events = Tail(@)]
  /\ IF Head(gates[w].events) = Terminate
     THEN thread' = [thread EXCEPT ![w] = "over"] /\ UNCHANGED seenStep
     ELSE /\ thread' = [thread EXCEPT ![w] = "works"]
          /\ seenStep' = [seenStep EXCEPT ![w] = Head(gates[w].events)]
  /\ UNCHANGED <<walk, bookOf, pump, step, current, draining, filling, executorVars>>

-----------------------------------------------------------------------------
(* The executor.                                                           *)

OpenPrice(s) == walk[s][Timeline[current[s]].at]

Sign(side) == IF side = "BUY" THEN 1 ELSE -1

\* The books after a fill of qty by side at price that has read the position
\* of: [cash, position, pnl, tickets], pnl that of the trade that it closes.
\* The object read may have left the books meanwhile, closed by another.
Booked(s, side, qty, price, of) ==
  LET signed  == Sign(side) * qty
      net     == of.side * of.qty
      isHeld  == of.ticket # 0 /\ position[s].ticket = of.ticket
      held    == IF isHeld THEN position[s] ELSE [of EXCEPT !.qty = 0, !.fee = 0]
      closed  == IF net * signed < 0
                 THEN (IF of.qty < qty THEN of.qty ELSE qty) ELSE 0
      entry   == IF of.qty = 0 THEN 0 ELSE of.cost \div of.qty
      gross   == held.side * (price - entry) * closed
      portion == IF held.qty > 0 THEN (held.fee * closed) \div held.qty ELSE 0
      opened(n) == [side |-> IF net + signed > 0 THEN 1 ELSE -1, qty |-> n, cost |-> price * n,
                    fee |-> Fee, ticket |-> tickets + 1]
      rest    == IF net + signed > 0 THEN net + signed ELSE -(net + signed)
  IN IF closed > 0
     THEN [cash |-> gross, tickets |-> tickets + 1,
           pnl |-> gross - (portion + Fee),
           position |-> IF held.qty > closed
                        THEN [held EXCEPT !.qty = @ - closed, !.fee = @ - portion,
                                          !.cost = entry * (held.qty - closed)]
                        ELSE IF rest > 0 THEN opened(rest) ELSE NoPosition]
     ELSE [cash |-> 0, tickets |-> tickets + 1, pnl |-> 0,
           position |-> IF of.side * signed > 0
                        THEN IF isHeld
                             THEN [held EXCEPT !.qty = @ + qty, !.cost = @ + price * qty,
                                               !.fee = @ + Fee]
                             ELSE position[s]
                        ELSE opened(qty)]

\* submit, up to the read of the position: the fee is paid, the price is that
\* of the bar in hand.  A symbol without a bar yet refuses the order.
Submit(w, side, qty) ==
  LET s == bookOf[w] IN
  /\ thread[w] = "works" /\ w \notin draining /\ current[s] # 0
  /\ lastFill[w].seen # seenStep[w]
  /\ thread' = [thread EXCEPT ![w] = "fills"]
  /\ filling' = [filling EXCEPT ![w] =
       [side |-> side, qty |-> qty, price |-> OpenPrice(s), of |-> position[s]]]
  /\ cash' = cash - Fee
  /\ lastFill' = [lastFill EXCEPT ![w] = [step |-> step, seen |-> seenStep[w]]]
  /\ UNCHANGED <<walk, bookOf, pump, step, current, gates, draining, seenStep,
                 position, tickets, pnl>>

\* _apply_fill, the rest.
ApplyFill(w) ==
  LET f == filling[w]
      b == Booked(bookOf[w], f.side, f.qty, f.price, f.of) IN
  /\ thread[w] = "fills" /\ thread' = [thread EXCEPT ![w] = "works"]
  /\ filling' = [filling EXCEPT ![w] = NoFill]
  /\ cash' = cash + b.cash /\ pnl' = pnl + b.pnl /\ tickets' = b.tickets
  /\ position' = [position EXCEPT ![bookOf[w]] = b.position]
  /\ UNCHANGED <<walk, bookOf, pump, step, current, gates, draining, seenStep, lastFill>>

\* run_portfolio, after the threads have ended: what is still held of a symbol
\* a strategy trades is closed.
FlattenBook(s) ==
  LET p == position[s]
      side == IF p.side = 1 THEN "SELL" ELSE "BUY"
      b == Booked(s, side, p.qty, OpenPrice(s), p) IN
  /\ pump = "join" /\ \A w \in Workers : thread[w] = "over"
  /\ p.qty > 0
  /\ cash' = cash - Fee + b.cash /\ pnl' = pnl + b.pnl /\ tickets' = b.tickets
  /\ position' = [position EXCEPT ![s] = b.position]
  /\ UNCHANGED <<walk, bookOf, pump, step, current, gates, threadVars, lastFill>>

Finished ==
  /\ pump = "join" /\ \A w \in Workers : thread[w] = "over"
  /\ \A s \in Books : position[s].qty = 0
  /\ pump' = "done"
  /\ UNCHANGED <<walk, bookOf, step, current, gates, threadVars, executorVars>>

-----------------------------------------------------------------------------
PumpStep == StartPump \/ Advance \/ Finished \/ \E s \in Books : FlattenBook(s)

WorkerStep(w) == NextStep(w) \/ TakeEvent(w) \/ ApplyFill(w)

BacktestNext ==
  \/ PumpStep
  \/ \E w \in Workers :
       \/ WorkerStep(w) \/ Leave(w)
       \/ \E side \in {"BUY", "SELL"}, qty \in 1 .. MaxLot : Submit(w, side, qty)

BacktestSpec == BacktestInit /\ [][BacktestNext]_backtestVars

-----------------------------------------------------------------------------
(* Properties.                                                             *)

\* An order is filled at the bar its strategy was woken for: the pump moves on
\* only when every strategy is back at its gate (run_lockstep, Gate.next_step).
FilledAtSeenBar == \A w \in Workers : lastFill[w].step = lastFill[w].seen

\* The replay ends, even when strategies break out of their loops or raise: the
\* pump never waits for a gate nobody comes to (Gate.drain, _portfolio_worker).
ReplayEnds == pump = "acks" ~> pump = "done"

\* Fees are taken from the cash fill by fill and belong to the trade that
\* closes, says the executor's docstring: when nothing is held, the trades
\* account for the cash (BacktestExecutor). No run checks it, since the code does
\* not keep it (README, section 5).
TradesExplainCash ==
  (\A s \in Books : position[s].qty = 0) /\ (\A w \in Workers : thread[w] # "fills")
    => cash = Capital + pnl
==============================================================================
