------------------------------ MODULE Conditions ------------------------------
(***************************************************************************)
(* The conditions of the zigzag (core/indicator_engine/zigzag.py): what    *)
(* compile_cond accepts, the series a condition is made of                 *)
(* (SeriesManager, which keeps a calculator and a short history for each), *)
(* its three-valued evaluation and the crosses of its series.  A bar that  *)
(* forms is applied again and again from the snapshot taken before it.     *)
(*                                                                         *)
(* An expression is a sequence of nodes, the last one its root.  Numbers   *)
(* are sixteenths; the reference of indic() is a running sum that knows    *)
(* its own snapshot, or a span that is computed anew from all bars.        *)
(***************************************************************************)
EXTENDS Integers, FiniteSets, FiniteSetsExt, SequencesExt

CONSTANTS
  ConditionPairs, \* [bull, bear, cross]: bear <<>> for none, cross_type or "none"
  Tolerance,      \* tolerance, in sixteenths
  MinHistory,     \* least history of a series (16)
  CondBars,       \* bars: [high, low, close]
  MaxCondBars, MaxCondTicks \* bounds: bars, updates of a bar before it closes

ASSUME ConditionsAssumption ==
  /\ {Tolerance, MinHistory, MaxCondBars, MaxCondTicks} \subseteq Nat
  /\ \A b \in CondBars : b.low <= b.close /\ b.close <= b.high

VARIABLES
  condition,  \* the condition pair of the indicator
  atoms,      \* SeriesManager._atoms: series -> [comp, hist]
  crossed,    \* the crosses of the bar in hand: <<pair, type>>
  beforeBar,     \* _snap: the series when the bar in hand began
  condTicks,      \* updates of the bar in hand, 0 between two bars
  closedBars, \* ghost: the closed bars
  verdict     \* bull and bear at the last closed bar

condVars == <<condition, atoms, crossed, beforeBar, condTicks, closedBars, verdict>>

-----------------------------------------------------------------------------
(* What is accepted, and the series of an expression.                      *)

RawFields  == {"high", "low", "close"}
Sourced    == {"ma", "ema"}
Unsourced  == {"macd_dif", "macd_dea", "boll_upper", "rsi", "atr"}
Registered == {"sum", "span"}
Crossing   == {"cross_up", "cross_down", "cross"}
Leaning == {"rising", "falling"}
Comparing  == {"gt", "ge", "lt", "le"}
Arithmetic == {"add", "sub", "mul", "div"}

IsSeries(x, k) == x[k].op \in RawFields \cup Sourced \cup Unsourced \cup Registered

\* _lower, _lower_call: a series function takes one series, a positive period;
\* predicates take series alone, ref a positive shift.
Accepted(x) == \A k \in DOMAIN x :
  LET n == x[k] IN
  /\ n.op \in Sourced \cup Unsourced \cup {"ref"} => n.n >= 1
  /\ n.op \in Sourced \cup {"ref"} \cup Leaning \cup Crossing => \A i \in ToSet(n.in) : IsSeries(x, i)

\* A series function reads the field of the bar that has the name of its
\* source: a source that is no field has no values.
Series(x, k) ==
  LET n == x[k] IN
  [fn  |-> n.op, n |-> n.n,
   src |-> IF n.op \in Sourced THEN (IF x[n.in[1]].op \in RawFields THEN x[n.in[1]].op ELSE "none")
           ELSE "close"]

\* The series of an expression with the shifts they are read at.
Reads(x) ==
  UNION {LET n == x[k] IN
         CASE IsSeries(x, k) -> {<<Series(x, k), 0>>}
           [] n.op = "ref"   -> {<<Series(x, n.in[1]), n.n>>}
           [] n.op \in Leaning \cup Crossing -> {<<Series(x, i), s>> : i \in ToSet(n.in), s \in {0, 1}}
           [] OTHER -> {} : k \in DOMAIN x}

\* ZigZagCore.__init__: the depth of a series is the largest of both conditions.
AllReads(c) == Reads(c.bull) \cup Reads(c.bear)
SeriesOf(c) == {r[1] : r \in AllReads(c)}
Depth(c, s) == Max({MinHistory} \cup {r[2] + 2 : r \in {q \in AllReads(c) : q[1] = s}})

PairsOf(x) ==
  LET at == {k \in DOMAIN x : x[k].op \in Crossing}
      pair(k) == <<Series(x, x[k].in[1]), Series(x, x[k].in[2])>>
  IN [p \in {pair(k) : k \in at} |-> {x[k].op : k \in {j \in at : pair(j) = p}}]

\* _collect_inferred_pairs: the series that are compared, not both of them
\* fields, the first of two that differ in their order.
Compared(x) ==
  LET at == {k \in DOMAIN x : x[k].op \in Comparing /\ \A i \in ToSet(x[k].in) : IsSeries(x, i)}
      pair(k) == <<Series(x, x[k].in[1]), Series(x, x[k].in[2])>>
      turned(p) == <<p[2], p[1]>>
  IN {pair(k) : k \in {j \in at :
        /\ pair(j)[1] # pair(j)[2]
        /\ ~ {pair(j)[1].fn, pair(j)[2].fn} \subseteq RawFields
        /\ \A i \in at : i < j => pair(i) # turned(pair(j))}}

\* The pairs whose crosses are looked for: a pair of both conditions has the
\* types of the bull condition alone; cross_type counts when there is no pair.
Scanned(c) ==
  LET bull == PairsOf(c.bull)
      bear == PairsOf(c.bear)
  IN IF DOMAIN bull \cup DOMAIN bear = {} /\ c.cross # "none"
     THEN [p \in Compared(c.bull) \cup {q \in Compared(c.bear) : <<q[2], q[1]>> \notin Compared(c.bull)}
             |-> {c.cross}]
     ELSE [p \in DOMAIN bull \cup DOMAIN bear |-> IF p \in DOMAIN bull THEN bull[p] ELSE bear[p]]

-----------------------------------------------------------------------------
(* The calculators.                                                        *)

Unit == 16
Unknown    == [kind |-> "none", v |-> 0]
Num(v)  == [kind |-> "num", v |-> v]
Truth(b) == [kind |-> "truth", v |-> IF b THEN 1 ELSE 0]

FreshComp(s) ==
  CASE s.fn = "ema" -> <<0, 0>>  \* average, count
    [] s.fn \in {"macd_dif", "macd_dea"} -> <<0, 0, 0, 0>>  \* fast, slow, dea, count
    [] s.fn = "rsi" -> <<0, 0, 0, 0>>  \* gains, losses, last close, count
    [] s.fn = "atr" -> <<0, 0, 0>>     \* range, last close, count
    [] s.fn = "sum" -> [now |-> 0, snap |-> 0, bar |-> 0]
    [] OTHER -> <<>>

\* A step of a mean with weight 2 of n + 1, or 1 of n.
Ema(old, x, n)    == (2 * x + (n - 1) * old) \div (n + 1)
Wilder(old, x, n) == (x + (n - 1) * old) \div n

Magnitude(v) == IF v < 0 THEN -v ELSE v
Pushed(win, v, n) == IF Len(win) < n THEN Append(win, v) ELSE Append(Tail(win), v)

\* Field of a bar, in sixteenths.
Field(bar, f) == Unit * bar[f]

MacdStep(s, c) ==
  IF s[4] = 0 THEN <<c, c, 0, 1>>
  ELSE <<c, Ema(s[2], c, 3), Ema(s[3], c - Ema(s[2], c, 3), 1), s[4] + 1>>

RsiStep(s, c, n) ==
  LET gain == Max({c - s[3], 0})  loss == Max({s[3] - c, 0}) IN
  CASE s[4] = 0 -> <<0, 0, c, 1>>
    [] s[4] = 1 -> <<gain, loss, c, 2>>
    [] OTHER    -> <<Wilder(s[1], gain, n), Wilder(s[2], loss, n), c, s[4] + 1>>

AtrStep(s, hi, lo, c, n) ==
  LET tr == Max({hi - lo, Magnitude(hi - s[2]), Magnitude(lo - s[2])}) IN
  CASE s[3] = 0 -> <<0, c, 1>>
    [] s[3] = 1 -> <<tr, c, 2>>
    [] OTHER    -> <<Wilder(s[1], tr, n), c, s[3] + 1>>

\* _RegistryComp: an incremental instance takes back its own update of a bar
\* that it sees again; another one keeps the bars.
SumStep(s, c, bar) ==
  LET from == IF s.bar = bar THEN s.snap ELSE s.now IN [now |-> from + c, snap |-> from, bar |-> bar]

Applied(s, comp, bar, i) ==
  CASE s.fn \in RawFields -> <<Field(bar, s.fn)>>
    [] s.fn \in Sourced /\ s.src = "none" -> comp
    [] s.fn = "ma"         -> Pushed(comp, Field(bar, s.src), s.n)
    [] s.fn = "boll_upper" -> Pushed(comp, Field(bar, "close"), s.n)
    [] s.fn = "ema" /\ s.src # "none" ->
         <<IF comp[2] = 0 THEN Field(bar, s.src) ELSE Ema(comp[1], Field(bar, s.src), s.n), comp[2] + 1>>
    [] s.fn \in {"macd_dif", "macd_dea"} -> MacdStep(comp, Field(bar, "close"))
    [] s.fn = "rsi"  -> RsiStep(comp, Field(bar, "close"), s.n)
    [] s.fn = "atr"  -> AtrStep(comp, Field(bar, "high"), Field(bar, "low"), Field(bar, "close"), s.n)
    [] s.fn = "sum"  -> SumStep(comp, Field(bar, "close"), i)
    [] s.fn = "span" -> Append(comp, bar)

Summed(win) == LET t[k \in 0 .. Len(win)] == IF k = 0 THEN 0 ELSE t[k - 1] + win[k] IN t[Len(win)]
Squares(win, mid) == Summed([k \in DOMAIN win |-> (win[k] - mid) * (win[k] - mid)])
Root(v) == Max({r \in 0 .. v : r * r <= v /\ r <= 64})

\* A value there is once the series is warm.
CompValue(s, comp) ==
  CASE s.fn \in RawFields -> Num(comp[1])
    [] s.fn = "ma"   -> IF Len(comp) < s.n THEN Unknown ELSE Num(Summed(comp) \div s.n)
    [] s.fn = "boll_upper" ->
         LET mid == Summed(comp) \div s.n IN
         IF Len(comp) < s.n THEN Unknown
         ELSE Num(mid + IF s.n = 1 THEN 0 ELSE Root(Squares(comp, mid) \div (s.n - 1)))
    [] s.fn = "ema"  -> IF comp[2] < s.n THEN Unknown ELSE Num(comp[1])
    [] s.fn = "macd_dif" -> IF comp[4] < s.n THEN Unknown ELSE Num(comp[1] - comp[2])
    [] s.fn = "macd_dea" -> IF comp[4] < s.n THEN Unknown ELSE Num(comp[3])
    [] s.fn = "rsi"  -> IF comp[4] <= s.n THEN Unknown
                        ELSE Num(IF comp[2] = 0 THEN 100 * Unit
                                 ELSE (100 * Unit * comp[1]) \div (comp[1] + comp[2]))
    [] s.fn = "atr"  -> IF comp[3] <= s.n THEN Unknown ELSE Num(comp[1])
    [] s.fn = "sum"  -> Num(comp.now)
    [] s.fn = "span" -> IF Len(comp) < 2 THEN Unknown
                        ELSE Num(Unit * (Max({comp[k].high : k \in DOMAIN comp}) - Min({comp[k].low : k \in DOMAIN comp})))

-----------------------------------------------------------------------------
(* Evaluation, with the value of a series n bars ago as a parameter.       *)

Compare(op, a, b) ==
  IF a.kind # "num" \/ b.kind # "num" THEN Unknown
  ELSE Truth(CASE op = "gt" -> a.v > b.v [] op = "ge" -> a.v >= b.v
               [] op = "lt" -> a.v < b.v [] op = "le" -> a.v <= b.v)

Calculate(op, a, b) ==
  IF a.kind # "num" \/ b.kind # "num" \/ (op = "div" /\ b.v = 0) THEN Unknown
  ELSE Num(CASE op = "add" -> a.v + b.v [] op = "sub" -> a.v - b.v
             [] op = "mul" -> (a.v * b.v) \div Unit [] op = "div" /\ b.v # 0 -> (a.v * Unit) \div b.v)

Holds(v)  == v # Unknown /\ v.v # 0
Both(vs)  == IF \E v \in vs : v # Unknown /\ ~Holds(v) THEN Truth(FALSE) ELSE IF Unknown \in vs THEN Unknown ELSE Truth(TRUE)
Either(vs) == IF \E v \in vs : Holds(v) THEN Truth(TRUE) ELSE IF Unknown \in vs THEN Unknown ELSE Truth(FALSE)
Negated(v) == IF v = Unknown THEN Unknown ELSE Truth(~Holds(v))

Up(a1, b1, a0, b0) == Both({Compare("le", a1, Calculate("add", b1, Num(Tolerance))),
                            Compare("gt", a0, Calculate("add", b0, Num(Tolerance)))})
Down(a1, b1, a0, b0) == Both({Compare("ge", a1, Calculate("sub", b1, Num(Tolerance))),
                              Compare("lt", a0, Calculate("sub", b0, Num(Tolerance)))})

\* The value of an expression, given those of its series: at[s][shift].
Evaluate(x, at) ==
  LET val[k \in DOMAIN x] ==
        LET n == x[k]
            arg(i)     == val[n.in[i]]
            ago(i, s)  == at[Series(x, n.in[i])][s]
            up   == Up(ago(1, 1), ago(2, 1), ago(1, 0), ago(2, 0))
            down == Down(ago(1, 1), ago(2, 1), ago(1, 0), ago(2, 0))
            rise == Calculate("sub", ago(1, 0), ago(1, 1))
        IN CASE IsSeries(x, k)       -> at[Series(x, k)][0]
             [] n.op = "const"       -> Num(Unit * n.n)
             [] n.op = "ref"         -> ago(1, n.n)
             [] n.op = "rising"      -> Compare("gt", rise, Num(Tolerance))
             [] n.op = "falling"     -> Compare("lt", rise, Num(-Tolerance))
             [] n.op = "cross_up"    -> up
             [] n.op = "cross_down"  -> down
             [] n.op = "cross"       -> Either({up, down})
             [] n.op \in Comparing   -> Compare(n.op, arg(1), arg(2))
             [] n.op \in Arithmetic  -> Calculate(n.op, arg(1), arg(2))
             [] n.op = "and"         -> Both({arg(1), arg(2)})
             [] n.op = "or"          -> Either({arg(1), arg(2)})
             [] n.op = "not"         -> Negated(arg(1))
  IN val[Len(x)]

\* Bull, and bear or the opposite of bull.
JudgeBoth(c, at) ==
  LET bull == Evaluate(c.bull, at) IN
  <<bull, IF c.bear = <<>> THEN Negated(bull) ELSE Evaluate(c.bear, at)>>

\* detect_crosses.
Detect(c, at) ==
  LET pairs == Scanned(c)
      up(p)   == Up(at[p[1]][1], at[p[2]][1], at[p[1]][0], at[p[2]][0])
      down(p) == Down(at[p[1]][1], at[p[2]][1], at[p[1]][0], at[p[2]][0])
  IN {<<p, "cross_up">> : p \in {q \in DOMAIN pairs : Holds(up(q)) /\ pairs[q] \cap {"cross_up", "cross"} # {}}}
     \cup {<<p, "cross_down">> : p \in {q \in DOMAIN pairs : Holds(down(q)) /\ pairs[q] \cap {"cross_down", "cross"} # {}}}

-----------------------------------------------------------------------------
(* The series of an indicator.                                             *)

\* SeriesManager.value_at.
ValueAt(state, s, shift) ==
  LET h == state[s].hist IN IF shift < Len(h) THEN h[Len(h) - shift] ELSE Unknown

\* SeriesManager.advance.
AdvanceSeries(c, state, bar, i) ==
  [s \in DOMAIN state |->
     LET comp == Applied(s, state[s].comp, bar, i) IN
     [comp |-> comp, hist |-> Pushed(state[s].hist, CompValue(s, comp), Depth(c, s))]]

\* Mutant: the snapshot an indicator had of itself when the bar began, one bar
\* older than the one it has now, is put back too.
RestoreWritesBack(state, saved) ==
  [s \in DOMAIN state |->
     [saved[s] EXCEPT !.comp = IF s.fn = "sum" THEN [state[s].comp EXCEPT !.snap = saved[s].comp.snap] ELSE @]]

\* SeriesManager.restore: an incremental indicator takes its own update back.
RestoreSeries(state, saved) ==
  [s \in DOMAIN state |-> [saved[s] EXCEPT !.comp = IF s.fn = "sum" THEN state[s].comp ELSE @]]

FreshSeries(c) == [s \in SeriesOf(c) |-> [comp |-> FreshComp(s), hist |-> <<>>]]

CondInit ==
  /\ condition \in {c \in ConditionPairs : Accepted(c.bull) /\ Accepted(c.bear)}
  /\ atoms = FreshSeries(condition) /\ beforeBar = atoms
  /\ crossed = {} /\ condTicks = 0 /\ closedBars = <<>>
  /\ verdict = <<Unknown, Unknown>>

\* ZigZagCore.update_bar up to the decision.
UpdateSeries(bar, final) ==
  LET base == IF condTicks = 0 THEN atoms ELSE RestoreSeries(atoms, beforeBar)
      now  == AdvanceSeries(condition, base, bar, Len(closedBars) + 1)
      at   == [s \in SeriesOf(condition) |->
                 [shift \in 0 .. Depth(condition, s) |-> ValueAt(now, s, shift)]]
  IN
  /\ condTicks = 0 => Len(closedBars) < MaxCondBars
  /\ ~final => condTicks < MaxCondTicks
  /\ beforeBar' = IF condTicks = 0 THEN atoms ELSE beforeBar
  /\ atoms' = now
  /\ crossed' = Detect(condition, at)
  /\ condTicks' = IF final THEN 0 ELSE condTicks + 1
  /\ verdict' = IF final THEN JudgeBoth(condition, at) ELSE verdict
  /\ closedBars' = IF final THEN Append(closedBars, bar) ELSE closedBars
  /\ UNCHANGED condition

CondNext == \E bar \in CondBars, final \in BOOLEAN : UpdateSeries(bar, final)

CondSpec == CondInit /\ [][CondNext]_condVars

-----------------------------------------------------------------------------
(* Properties.                                                             *)

\* The series as so many bars ago, from the closed bars alone and without a history.
OfClosedBars ==
  LET comp(s, n) ==
        LET c[k \in 0 .. n] == IF k = 0 THEN FreshComp(s) ELSE Applied(s, c[k - 1], closedBars[k], k)
        IN c[n]
  IN [s \in SeriesOf(condition) |-> [shift \in 0 .. Depth(condition, s) |->
        IF shift < Len(closedBars) THEN CompValue(s, comp(s, Len(closedBars) - shift)) ELSE Unknown]]

\* At the close of a bar both conditions and the crosses are those that the
\* closed bars alone give, however often the bars were seen while they formed
\* and however far back a condition of the two looks (zigzag.py:24, "one
\* implementation for the batch path and the incremental path").
JudgedOnClosedBars ==
  condTicks = 0 /\ closedBars # <<>> =>
    /\ verdict = JudgeBoth(condition, OfClosedBars)
    /\ crossed = Detect(condition, OfClosedBars)
===============================================================================
