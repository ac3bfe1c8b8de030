-------------------------------- MODULE ZigZag --------------------------------
(***************************************************************************)
(* The repainting indicator (core/indicator_engine/zigzag.py, ZigZagCore,  *)
(* and custom_indicators/zigzag.py, ZigZagIndicator) under live updates:   *)
(* a bar is given many times while it forms, each time from the snapshot   *)
(* taken before it, and changes points of the past, which reach the        *)
(* engine's series as patches (core/indicator_engine/engine.py).           *)
(*                                                                         *)
(* What the condition trees say of a bar is an input (bull, bear, and the  *)
(* cross that happened on it); Conditions has their evaluation.  The bars  *)
(* come warmed up, and the update that closes a bar is not lost.           *)
(***************************************************************************)
EXTENDS Integers, FiniteSets, FiniteSetsExt, SequencesExt

CONSTANTS
  ZigZagModes,   \* [window, near, search]: time_window, near-close ticks, search_mode
  BarShapes,     \* <<high, low>> of a bar
  Crosses,       \* crosses of a bar, of "none", "cross_up", "cross_down"
  History,       \* the closed bars the indicator is warmed up with
  MaxZigZagBars, \* bound: bars
  MaxTicks       \* bound: updates of a bar before the closing one

ASSUME ZigZagAssumption ==
  /\ \A s \in BarShapes : s[1] >= s[2] /\ s[2] > 0
  /\ MaxZigZagBars \in Nat /\ MaxTicks \in Nat

VARIABLES
  mode,
  live,    \* the indicator: core, _vals, _snap, _tail_floor, and the engine's series
  barInHand,    \* the bar in hand: its shape so far, updates, whether it is closed
  replayed    \* ghost: the indicator after the closing update of every bar alone

zigzagVars == <<mode, live, barInHand, replayed>>

NoValue    == 0
FreshCore  == [pivots |-> <<>>, bullish |-> "none", events |-> <<>>, used |-> {},
               count |-> 0, win |-> <<>>]
FreshZigZag == [core |-> FreshCore, vals |-> <<>>, floor |-> 0, series |-> <<>>,
                snap |-> [core |-> FreshCore, from |-> 1, tail |-> <<>>]]
NoTick     == [shape |-> <<0, 0>>, updates |-> 0, open |-> FALSE]

\* _decide: the strict conditions, bull first, then the last cross of the time
\* window that no confirmation has used.
WindowEvents(c) == {k \in DOMAIN c.events : c.count - c.events[k].bar < mode.window
                                            /\ c.events[k].bar \notin c.used}
Decided(c, bar) ==
  CASE ~bar.judged           -> "none"
    [] bar.bull              -> "up"
    [] bar.bear              -> "down"
    [] WindowEvents(c) = {}  -> "none"
    [] OTHER -> IF c.events[Max(WindowEvents(c))].type = "cross_up" THEN "up" ELSE "down"

\* The pending pivot follows the extreme of its leg.
Extended(p, bar, i) ==
  IF p.dir = "H" /\ bar.shape[1] > p.price THEN [p EXCEPT !.price = bar.shape[1], !.bar = i]
  ELSE IF p.dir = "L" /\ bar.shape[2] < p.price THEN [p EXCEPT !.price = bar.shape[2], !.bar = i]
  ELSE p

\* A pivot that begins a leg of state s, with the prices of one bar.
Seed(s, shape, i) ==
  IF s = "up" THEN [bar |-> i, price |-> shape[1], dir |-> "H", confirmed |-> FALSE]
  ELSE [bar |-> i, price |-> shape[2], dir |-> "L", confirmed |-> FALSE]

\* _attach_event: the cross in front of a confirmed pivot that it uses up.
Attached(c, p) ==
  LET want == IF p.dir = "H" THEN "cross_down" ELSE "cross_up"
      free == {k \in DOMAIN c.events : p.bar - c.events[k].bar < mode.window
                 /\ c.events[k].bar \notin c.used /\ c.events[k].type = want}
  IN IF mode.window = 0 \/ free = {} THEN c.used ELSE c.used \cup {c.events[Max(free)].bar}

\* _range_extremum: the first extreme of the window from bar `from` on.
RangeSeed(win, from, s) ==
  LET seeds  == {Seed(s, <<win[k].high, win[k].low>>, win[k].bar) :
                   k \in {j \in DOMAIN win : win[j].bar >= from}}
      best   == {p \in seeds : \A q \in seeds : IF s = "up" THEN p.price >= q.price
                                                            ELSE p.price <= q.price}
  IN {p \in best : \A q \in best : p.bar <= q.bar}

\* _flip: the pending pivot is confirmed, and a leg of the other direction
\* begins, in range mode at the extreme since that pivot.
Flipped(c, s, bar) ==
  LET conf    == [Extended(Last(c.pivots), bar, c.count) EXCEPT !.confirmed = TRUE]
      before  == Front(c.pivots)
      upright == before # <<>> /\ Last(before).bar = conf.bar
      found   == IF mode.search = "range"
                 THEN RangeSeed(c.win, IF upright THEN conf.bar + 1 ELSE conf.bar, s) ELSE {}
      seed    == IF found # {} THEN CHOOSE p \in found : TRUE ELSE Seed(s, bar.shape, c.count)
  IN [c EXCEPT !.pivots = before \o <<conf, seed>>, !.bullish = s,
               !.used = Attached(c, conf),
               !.win = IF found = {} THEN @ ELSE SelectSeq(@, LAMBDA w : w.bar >= conf.bar)]

\* ZigZagCore.update_bar after the snapshot: the crosses and the window take
\* the bar, then it is judged if it is closed or nearly so; an undecided bar
\* goes on in the direction there is.
UpdateCore(c0, bar) ==
  LET i == c0.count + 1
      c == [c0 EXCEPT
             !.count = i,
             !.win = IF mode.search = "range"
                     THEN Append(@, [bar |-> i, high |-> bar.shape[1], low |-> bar.shape[2]]) ELSE @,
             !.events = IF bar.cross = "none" THEN @ ELSE Append(@, [bar |-> i, type |-> bar.cross]),
             !.used = @ \ {i}]
      s == IF Decided(c, bar) = "none" THEN c.bullish ELSE Decided(c, bar)
  IN CASE s = "none"         -> c
       [] c.bullish = "none" -> [c EXCEPT !.bullish = s, !.pivots = <<Seed(s, bar.shape, i)>>]
       [] s # c.bullish      -> Flipped(c, s, bar)
       [] OTHER -> [c EXCEPT !.pivots[Len(c.pivots)] = Extended(@, bar, i)]

-----------------------------------------------------------------------------
Nth(p, k) == p[Len(p) + 1 - k]    \* pivots[-k]

\* Interpolation on a leg, in sixtieths of a price.
OnLeg(i, p0, p1) ==
  IF p1.bar = p0.bar THEN 60 * p0.price
  ELSE 60 * p0.price + (60 * (p1.price - p0.price) * (i - p0.bar)) \div (p1.bar - p0.bar)

\* _line_value_at: only the last leg has values; a vertical leg before it keeps
\* its entry.
LineAt(i, p) ==
  CASE Len(p) < 2 -> NoValue
    [] Len(p) >= 3 /\ Nth(p, 3).bar = i /\ Nth(p, 2).bar = i -> 60 * Nth(p, 3).price
    [] i < Nth(p, 2).bar \/ i > Nth(p, 1).bar -> NoValue
    [] OTHER -> OnLeg(i, Nth(p, 2), Nth(p, 1))

\* _tail_value_at: bars in front of the last leg are of the one confirmed last.
TailAt(i, p) ==
  CASE i >= Nth(p, 2).bar -> LineAt(i, p)
    [] Len(p) < 3 \/ i < Nth(p, 3).bar -> NoValue
    [] OTHER -> OnLeg(i, Nth(p, 3), Nth(p, 2))

Mark(i, p, dir) ==
  LET prices == {p[k].price : k \in {j \in DOMAIN p : p[j].bar = i /\ p[j].dir = dir}}
  IN IF prices = {} THEN NoValue ELSE IF dir = "H" THEN Max(prices) ELSE Min(prices)

Outputs(i, p) == [high |-> Mark(i, p, "H"), low |-> Mark(i, p, "L"), line |-> LineAt(i, p)]
Redrawn(i, p) == [Outputs(i, p) EXCEPT !.line = TailAt(i, p)]

\* _recompute_tail: the points from `start` on that differ, or all of them,
\* are changed in _vals; they are the patches the engine gets.
Patches(vals, p, start, all) ==
  {i \in start .. Len(vals) - 1 : all \/ vals[i] # Redrawn(i, p)}

\* patch_series, _apply_patches on the series of the engine or on _vals.
Patched(points, ps, p) ==
  [i \in DOMAIN points |-> IF i \in ps THEN Redrawn(i, p) ELSE points[i]]

\* _snapshot: the core and the values from the leg in hand on.
Snapshot(z) ==
  LET p    == z.core.pivots
      from == IF Len(p) >= 2 THEN Nth(p, 2).bar ELSE 1
  IN [core |-> z.core, from |-> from, tail |-> SubSeq(z.vals, from, Len(z.vals))]

\* _restore: the used crosses are flags of the events, which the copies share.
Restored(z) ==
  [z EXCEPT !.core = [z.snap.core EXCEPT !.used = z.core.used],
            !.vals = SubSeq(@, 1, z.snap.from - 1) \o z.snap.tail]

\* The indicator with the snapshot of this bar.
Prepared(z, new) ==
  IF new THEN [z EXCEPT !.snap = Snapshot(z), !.floor = 0] ELSE Restored(z)

\* Where the repainting begins: the last leg, or the old end of the one that
\* was confirmed by this bar.
Start(p, pre, flipped) ==
  IF flipped /\ Len(p) >= 3 THEN Min({Nth(p, 2).bar, pre}) ELSE Nth(p, 2).bar

\* ZigZagIndicator.update_bar and the engine's part of it; a closing update
\* repaints all that the updates of the bar have touched.
UpdateZigZag(z0, bar, new, final) ==
  LET z       == Prepared(z0, new)
      old     == z.core.pivots
      core    == UpdateCore(z.core, bar)
      p       == core.pivots
      i       == core.count
      vals    == Append(z.vals, Outputs(i, p))
      start   == Start(p, IF old = <<>> THEN 0 ELSE Last(old).bar,
                       old # <<>> /\ Len(p) > Len(old))
      low     == IF z.floor = 0 THEN start ELSE Min({z.floor, start})
      ps      == IF Len(p) < 2 THEN {}
                 ELSE Patches(vals, p, start, FALSE) \cup
                      (IF final THEN Patches(vals, p, low, TRUE) ELSE {})
      kept    == IF Len(z.series) = i THEN Front(z.series) ELSE z.series
  IN [core |-> core, snap |-> z.snap, vals |-> Patched(vals, ps, p),
      floor |-> IF final THEN 0 ELSE IF Len(p) < 2 THEN z.floor ELSE low,
      series |-> Append(Patched(kept, ps, p), Outputs(i, p))]

-----------------------------------------------------------------------------
\* _calculate, warmup: closed bars one after the other.
Replay(z, bars) == FoldLeft(LAMBDA st, bar : UpdateZigZag(st, bar, TRUE, TRUE), z, bars)

ZigZagInit ==
  /\ mode \in ZigZagModes /\ barInHand = NoTick
  /\ replayed = Replay(FreshZigZag, History) /\ live = replayed

\* An update of a bar, the high of which only rises and the low falls.
Update(shape, bull, bear, cross, near, final) ==
  LET new == ~barInHand.open
      bar == [shape |-> shape, bull |-> bull, bear |-> bear, cross |-> cross,
              judged |-> final \/ near]
  IN
  /\ new => replayed.core.count < MaxZigZagBars
  /\ ~new => shape[1] >= barInHand.shape[1] /\ shape[2] <= barInHand.shape[2]
  /\ ~final => barInHand.updates < MaxTicks
  /\ near => mode.near /\ ~final
  /\ cross # "none" => mode.window > 0
  /\ live' = UpdateZigZag(live, bar, new, final)
  /\ barInHand' = IF final THEN NoTick ELSE [shape |-> shape, updates |-> barInHand.updates + 1, open |-> TRUE]
  /\ replayed' = IF final THEN Replay(replayed, <<bar>>) ELSE replayed
  /\ UNCHANGED mode

ZigZagNext ==
  \E shape \in BarShapes, bull \in BOOLEAN, bear \in BOOLEAN, cross \in Crosses,
     near \in BOOLEAN, final \in BOOLEAN : Update(shape, bull, bear, cross, near, final)

ZigZagSpec == ZigZagInit /\ [][ZigZagNext]_zigzagVars

Upright(i) == \E j, k \in DOMAIN live.core.pivots :
  j # k /\ live.core.pivots[j].bar = i /\ live.core.pivots[k].bar = i

\* Between two bars the pivots and the marks of the live series, every
\* repainted point of it, are those of a backtest over the closed bars,
\* whatever the updates of forming bars drew in between, and the line goes
\* through every pivot (zigzag.py, "one implementation for the batch path and
\* the incremental path").
LiveIsReplay ==
  ~barInHand.open =>
    /\ live.core.pivots = replayed.core.pivots
    /\ \A i \in DOMAIN replayed.series : /\ live.series[i].high = replayed.series[i].high
                                     /\ live.series[i].low = replayed.series[i].low
    /\ \A k \in DOMAIN live.core.pivots :
         LET p == live.core.pivots[k] IN
         ~Upright(p.bar) => live.series[p.bar].line = 60 * p.price
==============================================================================
