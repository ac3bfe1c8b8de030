----------------------------- MODULE IndicatorSeries -----------------------------
(***************************************************************************)
(* The indicator series of one symbol and timeframe                        *)
(* (core/indicator_engine/engine.py, fed by gateway/indicator_service.py): *)
(* a request registers an instance and replays history into it, after an   *)
(* await; every bar the market manager publishes is then applied to each   *)
(* instance, step by step or by a full calculation over the engine's rows. *)
(*                                                                         *)
(* A row is a bar and the version of it that was read.  The value of a     *)
(* point is the set of rows it was computed from.  Left out: the cache's   *)
(* size limit, the repainting of past points, callbacks (INDIC has its     *)
(* own), and the gateway's page fetching, which KlineCache models.         *)
(***************************************************************************)
EXTENDS SeriesSteps, FiniteSets, FiniteSetsExt

CONSTANTS
  Incremental,      \* instances with update_bar and a snapshot, like MACD
  Windowed,         \* instances calculated in full, like BOLL
  PartialOutput,    \* the incremental ones that can show an incomplete window
  HistoryRequests,  \* requests that may be served at once
  Needs,            \* depths a chart asks for
  MaxWarmupTotal,
  LastBar,          \* bound: bars of the market
  MaxBarVersion,    \* bound: versions of a bar
  MaxPublishing     \* bound: rows being published at once

ASSUME IndicatorAssumption ==
  /\ PartialOutput \subseteq Incremental /\ Incremental \cap Windowed = {}
  /\ MaxWarmupTotal \in Nat /\ Needs \subseteq Nat \ {0}

Instances   == Incremental \cup Windowed
NoWarmup    == [step |-> "none", inst |-> {}, target |-> 0, frame |-> <<>>]

VARIABLES
  barVersion,   \* the market: the version of every bar there is
  publishing,   \* rows publish_bar awaits the hub for
  lastRow,      \* _last_bar
  gatewayBars,  \* the bars the gateway's K-line cache holds
  klineCache,   \* _kline_cache
  instance,     \* _indicators: rows applied, the snapshot, the last bar
  series,       \* _series
  warmup,       \* per request: ensure_warmed
  fed           \* ghost: per instance: every bar given since its reset, as last given

seriesVars == <<barVersion, publishing, lastRow, gatewayBars, klineCache, instance,
                series, warmup, fed>>

SeriesInit ==
  /\ barVersion = <<1>> /\ publishing = {} /\ lastRow = <<0, 0>>
  /\ gatewayBars = {} /\ klineCache = <<>>
  /\ instance = [i \in Instances |-> NotCreated]
  /\ series = [i \in Instances |-> <<>>]
  /\ warmup = [r \in HistoryRequests |-> NoWarmup]
  /\ fed = [i \in Instances |-> {}]

engine == <<klineCache, instance, series, fed>>
Row(b) == <<b, barVersion[b]>>

\* A row is published before the bar after next opens.
MarketMoves ==
  /\ \/ /\ Last(barVersion) < MaxBarVersion
        /\ barVersion' = [barVersion EXCEPT ![Len(barVersion)] = @ + 1]
     \/ /\ Len(barVersion) < LastBar /\ \A row \in publishing : row[1] = Len(barVersion)
        /\ barVersion' = Append(barVersion, 1)
  /\ UNCHANGED <<publishing, lastRow, gatewayBars, engine, warmup>>

\* publish_bar: a row equal to the last one is dropped; a stream and a poll
\* may both be in it.  What the stream misses while it is down is not sent.
PublishRow ==
  LET row == Row(Len(barVersion)) IN
  /\ row # lastRow /\ Cardinality(publishing) < MaxPublishing
  /\ lastRow' = row /\ publishing' = publishing \cup {row}
  /\ UNCHANGED <<barVersion, gatewayBars, engine, warmup>>

\* Another request of bars has the gateway's cache filled.
RefillGateway ==
  /\ gatewayBars' = DOMAIN barVersion
  /\ UNCHANGED <<barVersion, publishing, lastRow, engine, warmup>>

-----------------------------------------------------------------------------
\* on_bar, update_kline: bars older than an incremental instance's last are
\* not applied to it; the cache takes them at its end.
ApplyRow(row) ==
  LET rows     == Upserted(klineCache, row)
      created  == {i \in Instances : instance[i].created}
      applied  == {i \in created \cap Incremental : row[1] >= instance[i].last}
      stepped(i) == UpdateBar(instance[i], row)
      full     == Len(rows) >= MinPeriods
  IN
  /\ row \in publishing /\ publishing' = publishing \ {row}
  /\ IF created = {} THEN UNCHANGED engine ELSE
     /\ klineCache' = rows
     /\ instance' = [i \in Instances |->
          IF i \in applied THEN stepped(i)
          ELSE IF i \in created \cap Windowed THEN [instance[i] EXCEPT !.warmed = full]
          ELSE instance[i]]
     /\ series' = [i \in Instances |->
          IF i \in applied /\ stepped(i).warmed THEN Upsert(series[i], row[1], stepped(i).rows)
          ELSE IF i \in created \cap Windowed /\ full
               THEN Upsert(series[i], row[1], ToSet(LastRows(MinPeriods, rows)))
          ELSE series[i]]
     /\ fed' = [i \in Instances |->
          IF i \in applied THEN {r \in fed[i] : r[1] # row[1]} \cup {row} ELSE fed[i]]
  /\ UNCHANGED <<barVersion, lastRow, gatewayBars, warmup>>

-----------------------------------------------------------------------------
Target(need)     == Min({MaxWarmupTotal, need + MinPeriods})
Achievable(need) == Max({0, Target(need) - MinPeriods + 1})
Enough(i, need)  == Len(series[i]) >= Min({need, Achievable(need)})

\* _missed_bars: the gateway has a bar the engine's cache jumped over.
MissedBars ==
  /\ klineCache # <<>>
  /\ \E b \in gatewayBars : /\ Head(klineCache)[1] <= b /\ b < Last(klineCache)[1]
                            /\ \A k \in DOMAIN klineCache : klineCache[k][1] # b

\* get_history, ensure_warmed up to the fetch; one that has enough and sees no
\* missed bar answers from the series.  refresh forces the replay.
EnsureWarmed(r, i, need, refresh) ==
  /\ warmup[r].step = "none"
  /\ refresh \/ ~Enough(i, need) \/ MissedBars
  /\ instance' = [instance EXCEPT ![i].created = TRUE]
  /\ warmup' = [warmup EXCEPT ![r] = [step |-> "fetch", inst |-> {i}, target |-> Target(need), frame |-> <<>>]]
  /\ UNCHANGED <<barVersion, publishing, lastRow, gatewayBars, klineCache, series, fed>>

\* cached_klines: the source answers, or fails and the request goes without.
ReadHistory(r) ==
  /\ warmup[r].step = "fetch"
  /\ LET w     == warmup[r]
         frame == LastRows(w.target, [b \in DOMAIN barVersion |-> Row(b)])
     IN \/ /\ warmup' = [warmup EXCEPT ![r].step = "read", ![r].frame = frame]
           /\ gatewayBars' = gatewayBars \cup {frame[k][1] : k \in DOMAIN frame}
        \/ /\ warmup' = [warmup EXCEPT ![r] = NoWarmup]
           /\ UNCHANGED gatewayBars
  /\ UNCHANGED <<barVersion, publishing, lastRow, engine>>

\* warmup: the one instance asked for is reset and replayed; of the two
\* histories the engine keeps the longer, this one when they are as long.
Warm(r) ==
  /\ warmup[r].step = "read"
  /\ LET frame == warmup[r].frame
         n     == Len(frame)
         i     == CHOOSE x \in warmup[r].inst : TRUE
         from  == IF i \in PartialOutput /\ (n < MinPeriods \/ n < warmup[r].target)
                  THEN 1 ELSE MinPeriods
     IN
     /\ klineCache' = IF n >= Len(klineCache) THEN frame ELSE klineCache
     /\ IF i \in Incremental
        THEN /\ instance' = [instance EXCEPT ![i] = [created |-> TRUE,
                   rows |-> ToSet(frame), snap |-> ToSet(Front(frame)),
                   last |-> Last(frame)[1], warmed |-> n >= MinPeriods]]
             /\ series' = [series EXCEPT ![i] = Replayed(frame, from, n)]
             /\ fed' = [fed EXCEPT ![i] = ToSet(frame)]
        ELSE /\ instance' = [instance EXCEPT ![i].warmed = n >= MinPeriods]
             /\ series' = IF n < MinPeriods THEN series
                          ELSE [series EXCEPT ![i] = Replayed(frame, MinPeriods, MinPeriods)]
             /\ UNCHANGED fed
  /\ warmup' = [warmup EXCEPT ![r] = NoWarmup]
  /\ UNCHANGED <<barVersion, publishing, lastRow, gatewayBars>>

SeriesNext ==
  \/ MarketMoves \/ PublishRow \/ RefillGateway
  \/ \E row \in publishing : ApplyRow(row)
  \/ \E r \in HistoryRequests :
       \/ \E i \in Instances, need \in Needs, refresh \in BOOLEAN : EnsureWarmed(r, i, need, refresh)
       \/ ReadHistory(r) \/ Warm(r)

SeriesSpec == SeriesInit /\ [][SeriesNext]_seriesVars

\* Every point of an incremental series is what a full calculation over the
\* bars given so far has there: in time order, one point per bar, each bar
\* counted once and in its last version, whichever versions were pushed and
\* however pushes and replays interleave (the snapshot rule of update_bar).
SeriesIsFull ==
  \A i \in Incremental : \A k \in DOMAIN series[i] :
    /\ k > 1 => series[i][k - 1][1] < series[i][k][1]
    /\ series[i][k][2] = {row \in fed[i] : row[1] <= series[i][k][1]}

\* A series answered without a replay has no missed bar: the instance was
\* given every bar between its first and its last that the gateway knows
\* (indicator_service.py:50-58, the rebuild of what an interruption left out).
\* No run checks it, since the code does not keep it (README, section 5).
MissedBarsRebuilt ==
  \A i \in Incremental, need \in Needs :
    Enough(i, need) /\ ~MissedBars =>
      \A b \in gatewayBars :
        (\E row \in fed[i] : row[1] < b) /\ (\E row \in fed[i] : row[1] > b)
          => \E row \in fed[i] : row[1] = b
==============================================================================
