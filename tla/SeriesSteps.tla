------------------------------ MODULE SeriesSteps ------------------------------
(***************************************************************************)
(* What the indicator engine does to one instance, its series and its rows *)
(* (core/indicator_engine/engine.py).  A row is a tuple that begins with   *)
(* its bar; the value of a point is the set of rows it was computed from.  *)
(***************************************************************************)
EXTENDS Integers, FiniteSets, SequencesExt

CONSTANT MinPeriods   \* rows an instance needs before it has a value

ASSUME MinPeriodsAssumption == MinPeriods \in Nat \ {0}

NotCreated == [rows |-> {}, snap |-> {}, last |-> 0 - 1, created |-> FALSE, warmed |-> FALSE]

LastRows(k, s) == SubSeq(s, IF Len(s) > k THEN Len(s) - k + 1 ELSE 1, Len(s))

\* update_bar of an incremental instance: the snapshot is the state before the
\* bar in hand, and a further version of it starts from there.
UpdateBar(st, row) ==
  LET before == IF row[1] = st.last THEN st.snap ELSE st.rows IN
  [st EXCEPT !.rows = before \cup {row}, !.snap = before, !.last = row[1],
             !.warmed = @ \/ Cardinality(before) + 1 >= MinPeriods]

\* _upsert_series: a point of the last bar is overwritten.
Upsert(points, ts, value) ==
  LET kept == IF points # <<>> /\ Last(points)[1] = ts THEN Front(points) ELSE points
  IN Append(kept, <<ts, value>>)

\* The rows of the engine's cache after a bar.
Upserted(rows, row) ==
  IF rows # <<>> /\ Last(rows)[1] = row[1] THEN Append(Front(rows), row) ELSE Append(rows, row)

\* The points of a frame from row `from` on, each of the rows up to it or of
\* the window that ends there.
Replayed(frame, from, span) ==
  [k \in 1 .. Len(frame) - from + 1 |->
     LET n == k + from - 1 IN <<frame[n][1], ToSet(LastRows(span, SubSeq(frame, 1, n)))>>]
================================================================================
