----------------------------- MODULE MarketEngine -----------------------------
(***************************************************************************)
(* The market engine of the services (core/market_engine/engine.py,        *)
(* timeframe_engine.py, normalizer.py): bars of a minute and of a larger   *)
(* timeframe are pushed by the exchange; the minutes are also resampled to *)
(* the larger timeframe, and closed bars are stored. A gap is filled at    *)
(* the start alone.                                                        *)
(*                                                                         *)
(* Abstracted: one symbol and one larger timeframe; a bar is its prices;   *)
(* volumes, of which the resampling adds up every version of a minute, are *)
(* left out, and with them that the callback is registered once per        *)
(* timeframe and start; so are rows that fail the validation, the          *)
(* broadcast of a bar and the cache of the last one.                       *)
(***************************************************************************)
EXTENDS Integers, Sequences, FiniteSets, FiniteSetsExt

CONSTANTS
  Bucket,       \* minutes of a larger bar
  Quotes,       \* prices
  LastMinute, MaxTrades, MaxLosses, MaxStarts \* bounds

ASSUME MarketAssumption ==
  /\ Bucket \in Nat \ {0} /\ Quotes \subseteq Nat \ {0}
  /\ {LastMinute, MaxTrades, MaxLosses, MaxStarts} \subseteq Nat

VARIABLES
  minutes,      \* the exchange's bars: a sequence, the last one is forming
  emitted,      \* pushes under way: of the closed minute, of the closed larger bar
  engineOn,     \* _running, with the subscriptions live
  merging,      \* _current_bar with its _bar_start, or NoBar
  stored,       \* the repository: <<timeframe, start>> -> bar
  trades, losses, starts,
  unheard       \* history: the larger bars of which a push was lost

marketVars == <<minutes, emitted, engineOn, merging, stored,
                trades, losses, starts, unheard>>

NoBar == [start |-> -1]

\* Minutes count from 1; a larger bar starts with the first of its minutes.
StartOf(m) == m - ((m - 1) % Bucket)
NowAt      == Cardinality(DOMAIN minutes)
MinutesOf(start) == {m \in DOMAIN minutes : StartOf(m) = start}

\* What the larger bar is, from the exchange's minutes.
TrueBar(start) ==
  LET of == MinutesOf(start) IN
  [start |-> start, open |-> minutes[Min(of)].open, close |-> minutes[Max(of)].close,
   high |-> Max({minutes[m].high : m \in of}), low |-> Min({minutes[m].low : m \in of})]

MarketTypeOK ==
  /\ DOMAIN minutes = 1 .. NowAt /\ NowAt <= LastMinute
  /\ emitted \subseteq {"minute", "larger"}
  /\ engineOn \in BOOLEAN
  /\ DOMAIN stored \subseteq {"minute", "larger"} \X (1 .. LastMinute)

FirstTrade(m, price) == [start |-> m, open |-> price, high |-> price, low |-> price, close |-> price]

MarketInit ==
  /\ \E price \in Quotes : minutes = <<FirstTrade(1, price)>>
  /\ emitted = {} /\ engineOn = FALSE
  /\ merging = NoBar /\ stored = <<>>
  /\ trades = 0 /\ losses = 0 /\ starts = 0 /\ unheard = {}

-----------------------------------------------------------------------------
(* A bar in the engine.                                                    *)

\* Mutant: a larger bar is begun again by every closed minute.
MergedByMinute(m, bar, closed) ==
  IF merging.start # StartOf(m) \/ closed
  THEN [bar EXCEPT !.start = StartOf(m)]
  ELSE [merging EXCEPT !.high = Max({@, bar.high}), !.low = Min({@, bar.low}),
                       !.close = bar.close]

\* _AggregationState.update: every version of a minute is merged.
Merged(m, bar, closed) ==
  IF merging.start # StartOf(m)
  THEN [bar EXCEPT !.start = StartOf(m)]
  ELSE [merging EXCEPT !.high = Max({@, bar.high}), !.low = Min({@, bar.low}),
                       !.close = bar.close]

\* The repository inserts rows or replaces them.
StoredOver(new, rows) ==
  [key \in DOMAIN new \cup DOMAIN rows |-> IF key \in DOMAIN new THEN new[key] ELSE rows[key]]

\* _process_kline: a closed bar is stored.
StoredWith(rows, closed, key, bar) ==
  IF closed THEN StoredOver([k \in {key} |-> bar], rows) ELSE rows

\* _on_kline_received for a minute: the resampled bar first, closed as soon as
\* its last minute begins.
TakeMinute(m, closed) ==
  LET new  == Merged(m, minutes[m], closed)
      last == m % Bucket = 0
  IN /\ merging' = new
     /\ stored' = StoredWith(StoredWith(stored, last, <<"larger", StartOf(m)>>, new),
                             closed, <<"minute", m>>, minutes[m])

\* _on_kline_received for a larger bar.
TakeLarger(start, closed) ==
  /\ stored' = StoredWith(stored, closed, <<"larger", start>>, TrueBar(start))
  /\ UNCHANGED merging

\* A push is lost with the connection, or while nobody listens.
Push(take, start) ==
  \/ /\ engineOn /\ take
     /\ UNCHANGED <<losses, unheard>>
  \/ /\ ~engineOn \/ losses < MaxLosses
     /\ losses' = IF engineOn THEN losses + 1 ELSE losses
     /\ unheard' = unheard \cup {start}
     /\ UNCHANGED <<merging, stored>>

-----------------------------------------------------------------------------
(* The exchange.                                                           *)

\* A trade changes the forming minute. Its push and that of the larger bar
\* come later than it or not at all.
MinuteTrades(price) ==
  /\ emitted = {} /\ trades < MaxTrades
  /\ LET bar == minutes[NowAt] IN
     minutes' = [minutes EXCEPT ![NowAt] =
       [bar EXCEPT !.high = Max({@, price}), !.low = Min({@, price}), !.close = price]]
  /\ trades' = trades + 1
  /\ UNCHANGED <<emitted, engineOn, merging, stored, losses, starts, unheard>>

PushForming ==
  /\ emitted = {} /\ engineOn
  /\ TakeMinute(NowAt, FALSE) \/ TakeLarger(StartOf(NowAt), FALSE)
  /\ UNCHANGED <<minutes, emitted, engineOn, trades, losses, starts, unheard>>

\* The minute is over; both closed bars are pushed, in any order.
MinuteCloses ==
  /\ emitted = {} /\ NowAt < LastMinute
  /\ emitted' = {"minute"} \cup (IF NowAt % Bucket = 0 THEN {"larger"} ELSE {})
  /\ UNCHANGED <<minutes, engineOn, merging, stored, trades, losses, starts, unheard>>

PushClosed(kind) ==
  /\ kind \in emitted
  /\ IF kind = "minute" THEN Push(TakeMinute(NowAt, TRUE), StartOf(NowAt))
                        ELSE Push(TakeLarger(StartOf(NowAt), TRUE), StartOf(NowAt))
  /\ emitted' = emitted \ {kind}
  /\ IF emitted' = {} THEN \E price \in Quotes : minutes' = Append(minutes, FirstTrade(NowAt + 1, price))
                      ELSE UNCHANGED minutes
  /\ UNCHANGED <<engineOn, trades, starts>>

-----------------------------------------------------------------------------
(* Start and stop.                                                         *)

\* _initial_gap_fill: from behind the latest row up to now, the forming bar
\* included; all there is when there is no row.
GapRows(kind) ==
  LET have   == {key[2] : key \in {k \in DOMAIN stored : k[1] = kind}}
      latest == IF have = {} THEN 0 ELSE Max(have)
      there  == IF kind = "minute" THEN DOMAIN minutes ELSE {StartOf(m) : m \in DOMAIN minutes}
  IN [key \in {kind} \X {m \in there : m > latest} |->
        IF kind = "minute" THEN minutes[key[2]] ELSE TrueBar(key[2])]

\* start subscribes each timeframe, and the callbacks of the last time stay.
StartMarket ==
  /\ ~engineOn /\ starts < MaxStarts /\ emitted = {}
  /\ engineOn' = TRUE /\ starts' = starts + 1
  /\ \E fails \in SUBSET {"minute", "larger"} :
       stored' = StoredOver(IF "minute" \in fails THEN <<>> ELSE GapRows("minute"),
                  StoredOver(IF "larger" \in fails THEN <<>> ELSE GapRows("larger"), stored))
  /\ UNCHANGED <<minutes, emitted, merging, trades, losses, unheard>>

StopMarket ==
  /\ engineOn /\ engineOn' = FALSE
  /\ unheard' = unheard \cup {StartOf(NowAt)}
  /\ UNCHANGED <<minutes, emitted, merging, stored, trades, losses, starts>>

MarketNext ==
  \/ \E price \in Quotes : MinuteTrades(price)
  \/ PushForming
  \/ MinuteCloses
  \/ \E kind \in {"minute", "larger"} : PushClosed(kind)
  \/ StartMarket
  \/ StopMarket

MarketSpec == MarketInit /\ [][MarketNext]_marketVars

-----------------------------------------------------------------------------
(* Properties.                                                             *)

Prices4(bar) == <<bar.open, bar.high, bar.low, bar.close>>
Ended(start) == start + Bucket <= NowAt

\* Of a larger bar that ended and of which the engine lost no push, the
\* repository holds the prices the exchange has (its own row and the
\* resampled one are stored over each other, in either order).
StoredIsTrue ==
  \A m \in DOMAIN minutes :
    m = StartOf(m) /\ Ended(m) /\ m \notin unheard =>
      <<"larger", m>> \in DOMAIN stored /\ Prices4(stored[<<"larger", m>>]) = Prices4(TrueBar(m))
===============================================================================
