--------------------------------- MODULE Indic ---------------------------------
(***************************************************************************)
(* The declared indicators of a strategy (kqsdk/indic.py, api.INDIC()): a  *)
(* strategy thread declares indicators on the feed's bars, and each time   *)
(* wait_update returns, advance brings the shared engine up to the feed's  *)
(* newest bar.  A live feed runs on a thread of its own; in a backtest the  *)
(* pump moves it on only when the strategy waits again.                    *)
(*                                                                         *)
(* A row is <<bar, price, volume>>, both counted up.  Left out: the views, *)
(* which read the engine's series each time, and full calculations.        *)
(***************************************************************************)
EXTENDS SeriesSteps

CONSTANTS
  Declarable,     \* indicators a strategy may declare, all incremental
  Lockstep,       \* the pump of a backtest moves the feed
  WarmupBars,     \* warmup_bars
  FeedLastBar,    \* bound: bars of the feed
  MaxPriceMoves,  \* bound: price changes within a bar
  MaxVolumeMoves  \* bound: trades at the same price within a bar

ASSUME IndicAssumption == WarmupBars \in Nat \ {0} /\ Lockstep \in BOOLEAN

VARIABLES
  feedRows,     \* the feed's bars, each in its last version
  changed,      \* the symbol's event: something came since the last wait
  strategyAt,   \* "waiting" in wait_update, "running" its loop body
  declared,     \* _declared
  warmedUp,     \* _warmed
  engineRows,   \* the engine's row cache
  engineInst,   \* the engine's instances
  engineSeries  \* the engine's series

indicVars == <<feedRows, changed, strategyAt, declared, warmedUp, engineRows,
               engineInst, engineSeries>>

IndicInit ==
  /\ feedRows = <<>> /\ changed = FALSE /\ strategyAt = "running"
  /\ declared = {} /\ warmedUp = {} /\ engineRows = <<>>
  /\ engineInst = [i \in Declarable |-> NotCreated]
  /\ engineSeries = [i \in Declarable |-> <<>>]

\* The feed takes a trade or opens a bar, whatever the strategy is doing.
FeedMoves ==
  /\ LET row == Last(feedRows)
         moved(price, volume) == Append(Front(feedRows), <<row[1], price, volume>>)
     IN \/ Len(feedRows) < FeedLastBar /\ feedRows' = Append(feedRows, <<Len(feedRows) + 1, 0, 0>>)
        \/ feedRows # <<>> /\ row[2] < MaxPriceMoves /\ feedRows' = moved(row[2] + 1, row[3])
        \/ feedRows # <<>> /\ row[3] < MaxVolumeMoves /\ feedRows' = moved(row[2], row[3] + 1)
  /\ Lockstep => strategyAt = "waiting" /\ ~changed
  /\ changed' = TRUE
  /\ UNCHANGED <<strategyAt, declared, warmedUp, engineRows, engineInst, engineSeries>>

Engine == [rows |-> engineRows, inst |-> engineInst, series |-> engineSeries]
SetEngine(e) == /\ engineRows' = e.rows /\ engineInst' = e.inst /\ engineSeries' = e.series

\* _warmup_locked: the instance is reset and replayed over the feed's bars;
\* the engine keeps the longer row cache for all of them.
Warmed(e, i) ==
  LET rows == LastRows(WarmupBars, feedRows) n == Len(rows) IN
  [ rows   |-> IF n >= Len(e.rows) THEN rows ELSE e.rows,
    inst   |-> [e.inst EXCEPT ![i] = [created |-> TRUE, rows |-> ToSet(rows),
                 snap |-> ToSet(Front(rows)), last |-> Last(rows)[1], warmed |-> n >= MinPeriods]],
    series |-> [e.series EXCEPT ![i] = Replayed(rows, MinPeriods, n)] ]

\* _declare: an indicator declared before is given again as it is; before the
\* feed has bars the warm-up waits for advance.
Declare(i) ==
  /\ strategyAt = "running" /\ i \notin declared
  /\ declared' = declared \cup {i}
  /\ IF feedRows = <<>> THEN /\ SetEngine([Engine EXCEPT !.inst[i].created = TRUE])
                             /\ UNCHANGED warmedUp
                        ELSE /\ SetEngine(Warmed(Engine, i))
                             /\ warmedUp' = warmedUp \cup {i}
  /\ UNCHANGED <<feedRows, changed, strategyAt>>

Wait == /\ strategyAt = "running" /\ strategyAt' = "waiting"
        /\ UNCHANGED <<feedRows, changed, declared, warmedUp, engineRows, engineInst, engineSeries>>

\* _same_last compares the time, high, low and close of the last rows.
SameLast(rows, row) == rows # <<>> /\ Last(rows)[1] = row[1] /\ Last(rows)[2] = row[2]

\* update_kline, for the instances the bar is not too old for.
Updated(e, row) ==
  LET stepped == [i \in Declarable |-> UpdateBar(e.inst[i], row)]
      takes   == {i \in Declarable : e.inst[i].created /\ row[1] >= e.inst[i].last}
  IN [ rows   |-> Upserted(e.rows, row),
       inst   |-> [i \in Declarable |-> IF i \in takes THEN stepped[i] ELSE e.inst[i]],
       series |-> [i \in Declarable |-> IF i \in takes /\ stepped[i].warmed
                                        THEN Upsert(e.series[i], row[1], stepped[i].rows)
                                        ELSE e.series[i]] ]

\* wait_update returns: advance warms up what is pending, then applies the
\* feed's last bar if the engine's last row does not show it yet.
Advance ==
  LET pending == declared \ warmedUp
      caught  == FoldSet(LAMBDA i, e : Warmed(e, i), Engine, pending)
  IN
  /\ strategyAt = "waiting" /\ changed
  /\ changed' = FALSE /\ strategyAt' = "running"
  /\ IF declared = {} THEN UNCHANGED <<warmedUp, engineRows, engineInst, engineSeries>>
     ELSE /\ warmedUp' = declared
          /\ SetEngine(IF SameLast(caught.rows, Last(feedRows)) THEN caught
                       ELSE Updated(caught, Last(feedRows)))
  /\ UNCHANGED <<feedRows, declared>>

IndicNext == FeedMoves \/ Wait \/ Advance \/ \E i \in Declarable : Declare(i)

IndicSpec == IndicInit /\ [][IndicNext]_indicVars

\* The bars behind the newest one stand in every warmed instance with their
\* last price, none left out: the strategy reads what a calculation over the
\* feed's bars gives (indic.py:3-6, one result at all four ends; api.py:355,
\* live and backtest are built alike).
ClosedBarsApplied ==
  \A i \in warmedUp :
    LET closed == engineInst[i].snap IN
    /\ \A row \in closed : row[2] = feedRows[row[1]][2]
    /\ \A row \in closed : row[1] + 1 < engineInst[i].last
                            => \E after \in closed : after[1] = row[1] + 1
===============================================================================
