------------------------------- MODULE Optimizer ------------------------------
(***************************************************************************)
(* The parameter search over backtests                                     *)
(* (core/backtest_engine/optimizer.py): combinations are enumerated or     *)
(* drawn, each is backtested, in order or by a pool of threads that finish *)
(* in any order, and the report holds the best.                            *)
(*                                                                         *)
(* Abstracted: a backtest returns its score or raises; the figures besides *)
(* the one sorted by are left out.  The result of the split-off test data  *)
(* is a flag, whose errors the code swallows.                              *)
(***************************************************************************)
EXTENDS Integers, Sequences, FiniteSets, SequencesExt, FiniteSetsExt

CONSTANTS
  ParamValues,  \* per parameter, the sequence of its values
  SampleSize,   \* n_samples
  PoolSize,     \* max_workers
  TopN,         \* top_n
  Scores        \* the scores a backtest can have

SpaceValues == UNION {Range(ParamValues[p]) : p \in DOMAIN ParamValues}

\* The values of a parameter are listed once, as range_int does; in choices the
\* caller has to see to it.
ASSUME OptimizerAssumption ==
  /\ ParamValues \in Seq(Seq(SpaceValues))
  /\ \A p \in DOMAIN ParamValues : ParamValues[p] # <<>> /\ IsInjective(ParamValues[p])
  /\ {SampleSize, PoolSize, TopN} \subseteq Nat \ {0} /\ Scores \subseteq Int

VARIABLES
  search,     \* [method, ascending, forward]: the configuration
  phase,      \* "draw", "run", "done"
  attempts,   \* draws made
  combos,     \* combinations, in order
  inPool,     \* backtests under way
  started,    \* combinations handed to a thread
  results,    \* [combo, score, oos], in the order they were collected
  failedRuns,
  top         \* results of the report

optimizerVars == <<search, phase, attempts, combos, inPool, started, results, failedRuns, top>>

\* Each of rows with each of values behind it, the values varying fastest.
CrossedWith(rows, values) ==
  LET n == Len(values)
  IN [i \in 1 .. Len(rows) * n |-> Append(rows[((i - 1) \div n) + 1], values[((i - 1) % n) + 1])]

\* itertools.product: the last parameter varies fastest.
Grid ==
  LET upTo[p \in 0 .. Len(ParamValues)] ==
        IF p = 0 THEN <<<<>>>> ELSE CrossedWith(upTo[p - 1], ParamValues[p])
  IN upTo[Len(ParamValues)]

Samples == Min({SampleSize, Len(Grid)})

OptimizerTypeOK ==
  /\ phase \in {"draw", "run", "done"} /\ attempts \in 0 .. 10 * Samples
  /\ inPool \subseteq 1 .. Len(combos) /\ started \in 0 .. Len(combos) /\ failedRuns \in Nat

OptimizerInit ==
  /\ search \in [method : {"grid", "random"}, ascending : BOOLEAN, forward : BOOLEAN]
  /\ IF search.method = "random" /\ Samples < Len(Grid)
     THEN phase = "draw" /\ combos = <<>>
     ELSE phase = "run" /\ combos = Grid
  /\ attempts = 0 /\ inPool = {} /\ started = 0 /\ results = <<>> /\ failedRuns = 0 /\ top = <<>>

\* One turn of _random_search; a combination drawn again counts as an attempt.
Draw(c) ==
  /\ phase = "draw" /\ attempts < 10 * Samples /\ Len(combos) < Samples
  /\ attempts' = attempts + 1
  /\ combos' = IF Contains(combos, c) THEN combos ELSE Append(combos, c)
  /\ UNCHANGED <<search, phase, inPool, started, results, failedRuns, top>>

Drawn ==
  /\ phase = "draw" /\ (attempts = 10 * Samples \/ Len(combos) = Samples)
  /\ phase' = "run"
  /\ UNCHANGED <<search, attempts, combos, inPool, started, results, failedRuns, top>>

Parallel == PoolSize > 1 /\ Len(combos) > 1

\* The next combination goes to a thread that is free; without a pool there is one.
StartRun ==
  /\ phase = "run" /\ started < Len(combos)
  /\ Cardinality(inPool) < (IF Parallel THEN PoolSize ELSE 1)
  /\ started' = started + 1 /\ inPool' = inPool \cup {started'}
  /\ UNCHANGED <<search, phase, attempts, combos, results, failedRuns, top>>

\* A backtest ends; that of the test data may fail, its result is then absent.
EndRun(i, score, oos) ==
  /\ i \in inPool /\ inPool' = inPool \ {i}
  /\ oos => search.forward
  /\ results' = Append(results, [combo |-> combos[i], score |-> score, oos |-> oos])
  /\ UNCHANGED <<search, phase, attempts, combos, started, failedRuns, top>>

RunFails(i) ==
  /\ i \in inPool /\ inPool' = inPool \ {i}
  /\ failedRuns' = failedRuns + 1
  /\ UNCHANGED <<search, phase, attempts, combos, started, results, top>>

\* Does r come before q whatever their order?
Better(r, q) == IF search.ascending THEN r.score < q.score ELSE r.score > q.score

\* Does rs[j] stand before rs[i]? Results of one score stay in their order.
Precedes(rs, j, i) == Better(rs[j], rs[i]) \/ (j <= i /\ ~Better(rs[i], rs[j]))

\* The stable sort of the results.
ByScore(rs) ==
  [n \in DOMAIN rs |->
     rs[CHOOSE i \in DOMAIN rs : Cardinality({j \in DOMAIN rs : Precedes(rs, j, i)}) = n]]

\* Mutant: the best are taken before they are sorted.
RankedTruncated(rs) == ByScore(SubSeq(rs, 1, Min({TopN, Len(rs)})))

\* The best of the sorted results.
Ranked(rs) == SubSeq(ByScore(rs), 1, Min({TopN, Len(rs)}))

Report ==
  /\ phase = "run" /\ started = Len(combos) /\ inPool = {}
  /\ phase' = "done" /\ top' = Ranked(results)
  /\ UNCHANGED <<search, attempts, combos, inPool, started, results, failedRuns>>

OptimizerNext ==
  \/ \E c \in Range(Grid) : Draw(c)
  \/ Drawn \/ StartRun \/ Report
  \/ \E i \in inPool : RunFails(i) \/ \E s \in Scores, oos \in BOOLEAN : EndRun(i, s, oos)

OptimizerSpec == OptimizerInit /\ [][OptimizerNext]_optimizerVars

-----------------------------------------------------------------------------
(* Properties.                                                             *)

\* However the pool's backtests end, each distinct combination counts once, as
\* completed or failed, and no result outside the report is better than one in
\* it, which is in order (ParameterOptimizer.optimize).
TopAreBest ==
  phase = "done" =>
    /\ IsInjective(combos) /\ Len(results) + failedRuns = Len(combos)
    /\ \A i, j \in DOMAIN results : i # j => results[i].combo # results[j].combo
    /\ Len(top) = Min({TopN, Len(results)})
    /\ \A i, j \in DOMAIN top : i < j => ~Better(top[j], top[i])
    /\ \A i \in DOMAIN top, j \in DOMAIN results :
         results[j] \in Range(top) \/ ~Better(results[j], top[i])
===============================================================================
