---------------------------- MODULE IndicatorGraph ----------------------------
(***************************************************************************)
(* Indicators written as Python functions                                  *)
(* (core/indicator_engine/graph/nodes.py, dsl.py): the function is traced  *)
(* once into nodes in topological order, and every node has two meanings,  *)
(* a polars expression over whole columns and a step that keeps a state of *)
(* its own per bar, with a snapshot for the versions of a forming bar.     *)
(*                                                                         *)
(* A float is an integer, division rounds down, and a standard deviation   *)
(* is replaced by n times the sum of squares minus the square of the sum,  *)
(* which tells the same windows apart.  Left out: tracing, display styles. *)
(***************************************************************************)
EXTENDS Integers, FiniteSets, FiniteSetsExt, SequencesExt

CONSTANTS
  GraphNodes,      \* the nodes: [op, in, n], inputs before the nodes that read them
  GraphOutputs,    \* the nodes the function returns
  GraphSparse,     \* outputs that may be null field by field
  GraphMinPeriods, \* override of the warm-up, 0 for none
  NullValue,
  ClosePrices,     \* what a bar may bring, NullValue too
  MaxGraphBars     \* bound

ASSUME GraphAssumption ==
  /\ \A k \in DOMAIN GraphNodes : ToSet(GraphNodes[k].in) \subseteq 1 .. k - 1
  /\ GraphOutputs # {} /\ GraphOutputs \subseteq DOMAIN GraphNodes

VARIABLES
  nodeState,    \* per node: its window, monotone queue, position, accumulator, value
  snapshot,     \* _snap: the nodes and the count before the bar in hand
  barCount,     \* _count
  graphWarm,    \* _warmed_up
  lastValues,   \* _last_values
  graphBars     \* ghost: the bars so far, each as last pushed

graphVars == <<nodeState, snapshot, barCount, graphWarm, lastValues, graphBars>>

Fresh(node) == [win |-> <<>>, mono |-> <<>>, pos |-> 0, value |-> NullValue,
                acc |-> IF node.op = "ema" THEN NullValue ELSE 0]
FreshNodes  == [k \in DOMAIN GraphNodes |-> Fresh(GraphNodes[k])]

GraphInit ==
  /\ nodeState = FreshNodes /\ snapshot = <<FreshNodes, 0>>
  /\ barCount = 0 /\ graphWarm = FALSE /\ graphBars = <<>>
  /\ lastValues = [k \in GraphOutputs |-> NullValue]

-----------------------------------------------------------------------------
Total(values) == FoldLeft(LAMBDA sum, v : sum + v, 0, values)
Spread(values) == Len(values) * Total([k \in DOMAIN values |-> values[k] * values[k]])
                    - Total(values) * Total(values)
\* ewm_mean's recurrence, alpha = 2 / (n + 1).
Smooth(n, ema, v) == IF ema = NullValue THEN v ELSE (2 * v + (n - 1) * ema) \div (n + 1)

\* The nodes without a state: a null argument makes the result null, except
\* that a null condition chooses the other branch.
ValueOf(node, a) ==
  IF node.op = "where" THEN IF a[1] = TRUE THEN a[2] ELSE a[3]
  ELSE IF node.op = "null" \/ NullValue \in ToSet(a) THEN NullValue
  ELSE CASE node.op = "const" -> node.n
         [] node.op = "add"   -> a[1] + a[2]
         [] node.op = "sub"   -> a[1] - a[2]
         [] node.op = "mul"   -> a[1] * a[2]
         [] node.op = "div"   -> IF a[2] = 0 THEN NullValue
                                 ELSE IF a[2] < 0 THEN (0 - a[1]) \div (0 - a[2])
                                 ELSE a[1] \div a[2]
         [] node.op = "gt"    -> a[1] > a[2]
         [] node.op = "ge"    -> a[1] >= a[2]
         [] node.op = "max"   -> Max({a[1], a[2]})
         [] node.op = "min"   -> Min({a[1], a[2]})
         [] node.op = "neg"   -> 0 - a[1]
         [] node.op = "abs"   -> Max({a[1], 0 - a[1]})

Slide(win, n, v)  == Append(IF Len(win) = n THEN Tail(win) ELSE win, v)
Full(win, n)      == Len(win) = n /\ NullValue \notin ToSet(win)

EmaStep(node, st, v) ==
  IF v = NullValue THEN [st EXCEPT !.value = NullValue]
  ELSE LET ema == Smooth(node.n, st.acc, v) IN [st EXCEPT !.acc = ema, !.value = ema]

CumStep(st, v) ==
  LET total == st.acc + (IF v = NullValue THEN 0 ELSE v)
  IN [st EXCEPT !.acc = total, !.value = total]

\* Mutant: the running sum is moved on from a window with a null as well.
SmaStepUnclean(node, st, v) ==
  LET win  == Slide(st.win, node.n, v)
      gone == IF st.win[1] = NullValue THEN 0 ELSE st.win[1]
      sum  == IF Len(st.win) = node.n THEN st.acc + v - gone ELSE Total(win)
  IN IF ~Full(win, node.n) THEN [st EXCEPT !.win = win, !.value = NullValue]
     ELSE [st EXCEPT !.win = win, !.acc = sum, !.value = sum \div node.n]

\* The sum is moved on only from a window without a null, else added up anew.
SmaStep(node, st, v) ==
  LET win == Slide(st.win, node.n, v)
      sum == IF Full(st.win, node.n) THEN st.acc + v - st.win[1] ELSE Total(win)
  IN IF ~Full(win, node.n) THEN [st EXCEPT !.win = win, !.value = NullValue]
     ELSE [st EXCEPT !.win = win, !.acc = sum, !.value = sum \div node.n]

StdStep(node, st, v) ==
  LET win == Slide(st.win, node.n, v)
  IN [st EXCEPT !.win = win, !.value = IF Full(win, node.n) THEN Spread(win) ELSE NullValue]

\* The queue keeps positions with values that fall (rise) from its head: what
\* the new value beats leaves at the tail, what slid out leaves at the head.
ExtremumStep(node, st, v) ==
  LET win     == Slide(st.win, node.n, v)
      beaten(w) == IF node.op = "hhv" THEN w <= v ELSE w >= v
      stands  == {k \in DOMAIN st.mono : ~beaten(st.mono[k][2])}
      pushed  == IF v = NullValue THEN st.mono
                 ELSE Append(SubSeq(st.mono, 1, Max(stands \cup {0})), <<st.pos, v>>)
      inside  == {k \in DOMAIN pushed : pushed[k][1] > st.pos - node.n}
      queue   == SubSeq(pushed, Min(inside \cup {Len(pushed) + 1}), Len(pushed))
  IN [st EXCEPT !.win = win, !.mono = queue, !.pos = @ + 1,
                !.value = IF Full(win, node.n) THEN queue[1][2] ELSE NullValue]

ShiftStep(node, st, v) ==
  LET buf == Slide(st.win, node.n + 1, v)
  IN [st EXCEPT !.win = buf, !.value = IF Len(buf) = node.n + 1 THEN Head(buf) ELSE NullValue]

Incr(node, st, args, close) ==
  CASE node.op = "close" -> [st EXCEPT !.value = close]
    [] node.op = "ema"   -> EmaStep(node, st, args[1])
    [] node.op = "cum"   -> CumStep(st, args[1])
    [] node.op = "sma"   -> SmaStep(node, st, args[1])
    [] node.op = "std"   -> StdStep(node, st, args[1])
    [] node.op \in {"hhv", "llv"} -> ExtremumStep(node, st, args[1])
    [] node.op = "shift" -> ShiftStep(node, st, args[1])
    [] OTHER             -> [st EXCEPT !.value = ValueOf(node, args)]

\* Graph.propagate: the nodes in their order, each over the values of this bar.
Propagate(nodes, close) ==
  LET run[k \in 0 .. Len(GraphNodes)] ==
        IF k = 0 THEN <<>>
        ELSE LET done == run[k - 1]
                 node == GraphNodes[k]
             IN Append(done, Incr(node, nodes[k], [j \in DOMAIN node.in |-> done[node.in[j]].value], close))
  IN run[Len(GraphNodes)]

\* The bars a node needs before its first value, of all of them the most.
NodePeriods[k \in DOMAIN GraphNodes] ==
  LET node == GraphNodes[k]
      deepest == Max({NodePeriods[node.in[j]] : j \in DOMAIN node.in} \cup {0})
  IN CASE node.op = "close" -> 1
       [] node.op \in {"const", "null"} -> 0
       [] node.op \in {"sma", "std", "hhv", "llv"} -> deepest + node.n - 1
       [] node.op = "shift" -> deepest + node.n
       [] OTHER -> deepest
GraphPeriods == IF GraphMinPeriods # 0 THEN GraphMinPeriods
                ELSE Max({NodePeriods[k] : k \in GraphOutputs} \cup {1})

\* update_bar: a further version of the bar in hand starts from the snapshot;
\* an older bar is not applied at all.  partial shows an unfinished window.
PushBar(next, close, partial) ==
  LET from   == IF next THEN <<nodeState, barCount>> ELSE snapshot
      nodes  == Propagate(from[1], close)
      warm   == graphWarm \/ from[2] + 1 >= GraphPeriods
      values == [k \in GraphOutputs |-> nodes[k].value]
      holed  == \E k \in GraphOutputs : values[k] = NullValue
  IN
  /\ IF next THEN Len(graphBars) < MaxGraphBars ELSE graphBars # <<>>
  /\ snapshot' = from /\ nodeState' = nodes /\ barCount' = from[2] + 1 /\ graphWarm' = warm
  /\ graphBars' = Append(IF next THEN graphBars ELSE Front(graphBars), close)
  /\ lastValues' = IF ~partial /\ (~warm \/ (~GraphSparse /\ holed)) THEN lastValues
                   ELSE IF ~holed THEN values
                   ELSE IF GraphSparse
                   THEN [k \in GraphOutputs |-> IF values[k] = NullValue THEN lastValues[k] ELSE values[k]]
                   ELSE lastValues

\* The engine's warm-up resets the instance before it replays.
ResetGraph ==
  /\ graphBars # <<>>
  /\ nodeState' = FreshNodes /\ snapshot' = <<FreshNodes, 0>>
  /\ barCount' = 0 /\ graphWarm' = FALSE /\ graphBars' = <<>>
  /\ lastValues' = [k \in GraphOutputs |-> NullValue]

GraphNext ==
  \/ \E next, partial \in BOOLEAN, close \in ClosePrices : PushBar(next, close, partial)
  \/ ResetGraph

GraphSpec == GraphInit /\ [][GraphNext]_graphVars

-----------------------------------------------------------------------------
\* The meaning of a column of values at bar t, as the polars expressions have it.
Window(column, t, n) == IF t < n THEN <<>> ELSE SubSeq(column, t - n + 1, t)
BatchAt(node, column, t) ==
  LET win   == Window(column, t, node.n)
      known == SelectSeq(SubSeq(column, 1, t), LAMBDA v : v # NullValue)
  IN CASE node.op = "ema"   -> IF column[t] = NullValue THEN NullValue
                               ELSE FoldLeft(LAMBDA ema, v : Smooth(node.n, ema, v), NullValue, known)
       [] node.op = "cum"   -> Total(known)
       [] node.op = "shift" -> IF t > node.n THEN column[t - node.n] ELSE NullValue
       [] OTHER -> IF ~Full(win, node.n) THEN NullValue
                   ELSE CASE node.op = "sma" -> Total(win) \div node.n
                          [] node.op = "std" -> Spread(win)
                          [] node.op = "hhv" -> Max(ToSet(win))
                          [] node.op = "llv" -> Min(ToSet(win))
Stateful == {"ema", "cum", "shift", "sma", "std", "hhv", "llv"}

\* batch: every node's column over the bars so far.
Columns ==
  LET cols[k \in 0 .. Len(GraphNodes)] ==
        IF k = 0 THEN <<>>
        ELSE LET known == cols[k - 1]
                 node  == GraphNodes[k]
             IN Append(known, [t \in DOMAIN graphBars |->
                  IF node.op = "close" THEN graphBars[t]
                  ELSE IF node.op \in Stateful THEN BatchAt(node, known[node.in[1]], t)
                  ELSE ValueOf(node, [j \in DOMAIN node.in |-> known[node.in[j]][t]])])
  IN cols[Len(GraphNodes)]

\* However often the forming bar is pushed again and whatever its values were
\* in between, every node stands where the column expressions over the bars'
\* last versions put it: the two meanings of a graph agree (nodes.py:1-15).
GraphIsBatch ==
  graphBars # <<>> =>
    LET cols == Columns
    IN \A k \in DOMAIN GraphNodes : nodeState[k].value = cols[k][Len(graphBars)]
==============================================================================
