------------------------------ MODULE BarFeed_proofs ------------------------------
(***************************************************************************)
(* What is proved of the feeds, for every market, fault set and bound: the *)
(* history in the cache is complete, and a strategy that waits on a feed   *)
(* is never left asleep. First what the operators on lists of bars do,     *)
(* then the invariant of the bars on their way to the cache, last that of  *)
(* the wake-up.                                                            *)
(***************************************************************************)
EXTENDS BarFeed, FiniteSetTheorems, SequenceTheorems, TLAPS

\* The bars of s are in order of time, and no time is there twice.
Ordered(s) == \A i, j \in 1 .. Len(s) : i < j => s[i].ts < s[j].ts

\* s has the latest of a set of bars, in order of time.
LatestOf(s, rows) ==
  /\ s \in Seq(Bar) /\ s # <<>> /\ Ordered(s)
  /\ rows \subseteq Bar /\ Range(s) \subseteq rows
  /\ \A b \in rows : b.ts <= Last(s).ts /\ (s[1].ts <= b.ts => b \in Range(s))

\* Every bar has a time of its own.
OnePerTime(rows) == \A a, b \in rows : a.ts = b.ts => a = b

\* A bar's time is a number.
LEMMA BarTimes ==
  \A b \in Bar : b.ts \in Nat
BY DEF Bar

\* The places of a list and the bars in it.
LEMMA InRange ==
  ASSUME NEW s \in Seq(Bar)
  PROVE  /\ \A i \in 1 .. Len(s) : s[i] \in Range(s) /\ s[i] \in Bar /\ s[i].ts \in Nat
         /\ \A b \in Range(s) : b \in Bar /\ \E i \in 1 .. Len(s) : b = s[i]
         /\ s # <<>> => /\ Len(s) \in Nat \ {0} /\ 1 \in 1 .. Len(s) /\ Len(s) \in 1 .. Len(s)
                        /\ Last(s) = s[Len(s)] /\ Last(s) \in Range(s) /\ s[1] \in Range(s)
<1>1. DOMAIN s = 1 .. Len(s) /\ \A i \in 1 .. Len(s) : s[i] \in Bar
  OBVIOUS
<1>2. \A i \in 1 .. Len(s) : s[i] \in Range(s) /\ s[i] \in Bar /\ s[i].ts \in Nat
  BY <1>1, BarTimes DEF Range
<1>3. \A b \in Range(s) : b \in Bar /\ \E i \in 1 .. Len(s) : b = s[i]
  BY <1>1 DEF Range
<1>4. s # <<>> => Len(s) \in Nat \ {0} /\ 1 \in 1 .. Len(s) /\ Len(s) \in 1 .. Len(s)
  OBVIOUS
<1> QED BY <1>2, <1>3, <1>4 DEF Last

\* In a list in order each time is there once, between the first and the last.
LEMMA OrderedOnce ==
  ASSUME NEW s \in Seq(Bar), Ordered(s)
  PROVE  /\ OnePerTime(Range(s))
         /\ s # <<>> => \A b \in Range(s) : s[1].ts <= b.ts /\ b.ts <= Last(s).ts
<1>1. \A i \in 1 .. Len(s) : s[i].ts \in Nat
  BY InRange
<1>2. \A i, j \in 1 .. Len(s) : s[i].ts = s[j].ts => i = j
  BY <1>1 DEF Ordered
<1>3. OnePerTime(Range(s))
  BY <1>2, InRange DEF OnePerTime
<1>4. ASSUME s # <<>>, NEW b \in Range(s) PROVE s[1].ts <= b.ts /\ b.ts <= Last(s).ts
  <2>1. PICK i \in 1 .. Len(s) : b = s[i]
    BY InRange
  <2>2. Len(s) \in Nat /\ 1 \in 1 .. Len(s) /\ Len(s) \in 1 .. Len(s)
    BY <1>4
  <2> QED BY <1>1, <2>1, <2>2 DEF Ordered, Last
<1> QED BY <1>3, <1>4

\* A bar's place among those of a set.
Before(b, rows) == {a \in rows : a.ts < b.ts}
Rank(b, rows)   == Cardinality(Before(b, rows))

\* The ranks of finitely many bars are the places 1 .. n of a list of them.
LEMMA RankIsPlace ==
  ASSUME NEW rows \in SUBSET Bar, IsFiniteSet(rows), OnePerTime(rows)
  PROVE  /\ Cardinality(rows) \in Nat
         /\ \A b \in rows : Rank(b, rows) \in 0 .. Cardinality(rows) - 1
         /\ \A a, b \in rows : a.ts < b.ts => Rank(a, rows) < Rank(b, rows)
         /\ \A i \in 1 .. Cardinality(rows) : \E b \in rows : Rank(b, rows) = i - 1
<1> DEFINE n == Cardinality(rows)
           r == [b \in rows |-> Rank(b, rows)]
<1>0. \A b \in rows : b.ts \in Nat
  BY BarTimes
<1>1. n \in Nat
  BY FS_CardinalityType
<1>2. ASSUME NEW b \in rows PROVE IsFiniteSet(Before(b, rows)) /\ Rank(b, rows) \in Nat /\ Rank(b, rows) < n
  <2>1. Before(b, rows) \in SUBSET rows /\ b \notin Before(b, rows)
    BY <1>0 DEF Before
  <2>2. IsFiniteSet(Before(b, rows)) /\ Cardinality(Before(b, rows)) <= n /\ Cardinality(Before(b, rows)) # n
    BY <2>1, FS_Subset
  <2>3. Cardinality(Before(b, rows)) \in Nat
    BY <2>2, FS_CardinalityType
  <2> QED BY <1>1, <2>2, <2>3 DEF Rank
<1>3. ASSUME NEW a \in rows, NEW b \in rows, a.ts < b.ts PROVE Rank(a, rows) < Rank(b, rows)
  <2>1. Before(a, rows) \in SUBSET Before(b, rows) /\ a \in Before(b, rows) /\ a \notin Before(a, rows)
    BY <1>0, <1>3 DEF Before
  <2>2. Cardinality(Before(a, rows)) <= Cardinality(Before(b, rows)) /\ Cardinality(Before(a, rows)) # Cardinality(Before(b, rows))
    BY <1>2, <2>1, FS_Subset
  <2> QED BY <1>2, <2>2 DEF Rank
<1>4. r \in Injection(rows, 0 .. n - 1)
  <2>1. r \in [rows -> 0 .. n - 1]
    BY <1>1, <1>2
  <2>2. ASSUME NEW a \in rows, NEW b \in rows, r[a] = r[b] PROVE a = b
    <3>1. ~(Rank(a, rows) < Rank(b, rows)) /\ ~(Rank(b, rows) < Rank(a, rows))
      BY <1>2, <2>2
    <3>2. a.ts = b.ts
      BY <1>0, <1>3, <3>1
    <3> QED BY <3>2 DEF OnePerTime
  <2> QED BY <2>1, <2>2 DEF Injection, IsInjective
<1>5. IsFiniteSet(0 .. n - 1) /\ Cardinality(0 .. n - 1) = n
  <2>1. n = 0 \/ n > 0
    BY <1>1
  <2>2. 0 \in Int /\ n - 1 \in Int
    BY <1>1
  <2>3. Cardinality(0 .. n - 1) = IF 0 > n - 1 THEN 0 ELSE n - 1 - 0 + 1
    BY <2>2, FS_Interval
  <2>4. IsFiniteSet(0 .. n - 1)
    BY <2>2, FS_Interval
  <2> HIDE DEF n
  <2> QED BY <1>1, <2>1, <2>3, <2>4
<1>6. r \in Surjection(rows, 0 .. n - 1)
  <2> HIDE DEF r
  <2> QED BY <1>4, <1>5, FS_Injection
<1>7. ASSUME NEW i \in 1 .. n PROVE \E b \in rows : Rank(b, rows) = i - 1
  <2>1. i - 1 \in 0 .. n - 1
    BY <1>1
  <2>2. \E b \in rows : r[b] = i - 1
    BY <1>6, <2>1 DEF Surjection
  <2> QED BY <2>2
<1>8. \A b \in rows : Rank(b, rows) \in 0 .. n - 1
  BY <1>1, <1>2
<1> QED BY <1>1, <1>3, <1>7, <1>8

\* Sorting by time orders the bars, and neither loses nor invents one.
LEMMA ByTimeOrders ==
  ASSUME NEW rows \in SUBSET Bar, IsFiniteSet(rows), OnePerTime(rows)
  PROVE  /\ ByTime(rows) \in Seq(Bar) /\ Ordered(ByTime(rows))
         /\ Range(ByTime(rows)) = rows
         /\ rows # {} => ByTime(rows) # <<>>
<1> DEFINE n == Cardinality(rows)
           s == ByTime(rows)
<1>1. n \in Nat /\ (rows # {} => n # 0)
  BY FS_CardinalityType, FS_EmptySet
<1>2. \A i \in 1 .. n : s[i] \in rows /\ Rank(s[i], rows) = i - 1
  <2> SUFFICES ASSUME NEW i \in 1 .. n PROVE s[i] \in rows /\ Rank(s[i], rows) = i - 1
    OBVIOUS
  <2>1. s[i] = CHOOSE b \in rows : Rank(b, rows) = i - 1
    BY DEF ByTime, Rank, Before
  <2>2. \E b \in rows : Rank(b, rows) = i - 1
    BY RankIsPlace
  <2> QED BY <2>1, <2>2
<1>3. DOMAIN s = 1 .. n
  BY DEF ByTime
<1>4. s \in [1 .. n -> Bar]
  <2>1. \A i \in 1 .. n : s[i] \in Bar
    BY <1>2
  <2>2. s = [i \in 1 .. n |-> CHOOSE b \in rows : Rank(b, rows) = i - 1]
    BY DEF ByTime, Rank, Before
  <2> HIDE DEF s, n
  <2> QED BY <2>1, <2>2
<1> HIDE DEF s, n
<1>5. s \in Seq(Bar) /\ Len(s) = n
  BY <1>1, <1>4
<1>6. Ordered(s)
  <2> SUFFICES ASSUME NEW i \in 1 .. n, NEW j \in 1 .. n, i < j PROVE s[i].ts < s[j].ts
    BY <1>5 DEF Ordered
  <2>1. Rank(s[i], rows) = i - 1 /\ Rank(s[j], rows) = j - 1 /\ s[i] \in rows /\ s[j] \in rows
    BY <1>2
  <2>2. s[i].ts \in Nat /\ s[j].ts \in Nat
    BY <2>1, BarTimes
  <2>3. CASE s[j].ts < s[i].ts
    <3>1. Rank(s[j], rows) < Rank(s[i], rows)
      BY <2>1, <2>3, RankIsPlace
    <3> QED BY <1>1, <2>1, <3>1
  <2>4. CASE s[j].ts = s[i].ts
    <3>1. s[i] = s[j]
      BY <2>1, <2>4 DEF OnePerTime
    <3> QED BY <1>1, <2>1, <3>1
  <2> QED BY <2>2, <2>3, <2>4
<1>7. Range(s) = rows
  <2>1. Range(s) \subseteq rows
    BY <1>2, <1>3 DEF Range
  <2>2. ASSUME NEW b \in rows PROVE b \in Range(s)
    <3>1. Rank(b, rows) \in 0 .. n - 1
      BY RankIsPlace DEF n
    <3>2. PICK i \in 1 .. n : Rank(b, rows) = i - 1
      <4>1. Rank(b, rows) + 1 \in 1 .. n /\ Rank(b, rows) = (Rank(b, rows) + 1) - 1
        BY <1>1, <3>1
      <4> QED BY <4>1
    <3>3. Rank(s[i], rows) = Rank(b, rows) /\ s[i] \in rows
      BY <1>2, <3>2
    <3>4. s[i].ts = b.ts
      <4>1. s[i].ts \in Nat /\ b.ts \in Nat
        BY <3>3, BarTimes
      <4>2. ~(s[i].ts < b.ts) /\ ~(b.ts < s[i].ts)
        <5>1. s[i].ts < b.ts => Rank(s[i], rows) < Rank(b, rows)
          BY <3>3, RankIsPlace
        <5>2. b.ts < s[i].ts => Rank(b, rows) < Rank(s[i], rows)
          BY <3>3, RankIsPlace
        <5> QED BY <3>1, <3>3, <5>1, <5>2, <1>1
      <4> QED BY <4>1, <4>2
    <3>5. s[i] = b
      BY <3>3, <3>4 DEF OnePerTime
    <3> QED BY <1>3, <3>5 DEF Range
  <2> QED BY <2>1, <2>2
<1>8. rows # {} => s # <<>>
  BY <1>1, <1>5
<1> QED BY <1>5, <1>6, <1>7, <1>8 DEF s

\* A list cut to its newest elements.
LEMMA CutToLatest ==
  ASSUME NEW s \in Seq(Bar), s # <<>>, NEW n \in Nat \ {0}
  PROVE  \E k \in 0 .. Len(s) - 1 :
           /\ LastN(s, n) \in Seq(Bar) /\ LastN(s, n) # <<>>
           /\ Len(LastN(s, n)) = Len(s) - k
           /\ \A i \in 1 .. Len(s) - k : LastN(s, n)[i] = s[k + i]
           /\ k = IF n < Len(s) THEN Len(s) - n ELSE 0
<1>1. Len(s) \in Nat \ {0} /\ \A i \in 1 .. Len(s) : s[i] \in Bar
  OBVIOUS
<1> DEFINE k == IF n < Len(s) THEN Len(s) - n ELSE 0
<1>2. k \in 0 .. Len(s) - 1
  BY <1>1
<1>3. LastN(s, n) = SubSeq(s, k + 1, Len(s))
  <2>1. CASE n < Len(s)
    BY <1>1, <2>1 DEF LastN
  <2>2. CASE ~(n < Len(s))
    <3>1. LastN(s, n) = SubSeq(s, Len(s) - Len(s) + 1, Len(s))
      BY <2>2 DEF LastN
    <3>2. Len(s) - Len(s) + 1 = k + 1
      BY <1>1, <2>2
    <3> QED BY <3>1, <3>2
  <2> QED BY <2>1, <2>2
<1> HIDE DEF k
<1>4. SubSeq(s, k + 1, Len(s)) \in Seq(Bar) /\ Len(SubSeq(s, k + 1, Len(s))) = Len(s) - k
  BY <1>1, <1>2
<1>5. \A i \in 1 .. Len(s) - k : SubSeq(s, k + 1, Len(s))[i] = s[k + i]
  <2> SUFFICES ASSUME NEW i \in 1 .. Len(s) - k PROVE SubSeq(s, k + 1, Len(s))[i] = s[k + i]
    OBVIOUS
  <2>1. \A j \in k + 1 .. Len(s) : s[j] \in Bar
    BY <1>1, <1>2
  <2>2. k + 1 \in Int /\ Len(s) \in Int /\ i \in 1 .. Len(s) - (k + 1) + 1
    BY <1>1, <1>2
  <2>3. SubSeq(s, k + 1, Len(s))[i] = s[(k + 1) + i - 1]
    BY <2>1, <2>2, SubSeqProperties
  <2>4. (k + 1) + i - 1 = k + i
    BY <1>2
  <2> QED BY <2>3, <2>4
<1>6. SubSeq(s, k + 1, Len(s)) # <<>>
  <2>1. Len(s) - k # 0
    BY <1>1, <1>2
  <2>2. Len(SubSeq(s, k + 1, Len(s))) # 0
    BY <1>4, <2>1
  <2> QED BY <2>2, EmptySeq
<1> QED BY <1>2, <1>3, <1>4, <1>5, <1>6 DEF k

\* Cutting to the newest n bars keeps a list the latest of its bars.
LEMMA CutIsLatest ==
  ASSUME NEW s, NEW rows, LatestOf(s, rows), NEW n \in Nat \ {0}
  PROVE  LatestOf(LastN(s, n), rows) /\ Last(LastN(s, n)) = Last(s)
<1>0. s \in Seq(Bar) /\ s # <<>> /\ Ordered(s) /\ Range(s) \subseteq rows /\ rows \subseteq Bar
  BY DEF LatestOf
<1>1. PICK k \in 0 .. Len(s) - 1 :
        /\ LastN(s, n) \in Seq(Bar) /\ LastN(s, n) # <<>>
        /\ Len(LastN(s, n)) = Len(s) - k
        /\ \A i \in 1 .. Len(s) - k : LastN(s, n)[i] = s[k + i]
  BY <1>0, CutToLatest
<1> DEFINE t == LastN(s, n)
<1>2. /\ t \in Seq(Bar) /\ t # <<>> /\ Len(t) = Len(s) - k
      /\ \A i \in 1 .. Len(s) - k : t[i] = s[k + i]
  BY <1>1
<1> HIDE DEF t
<1>3. Len(s) \in Nat \ {0} /\ k \in Nat /\ k < Len(s)
  BY <1>0, <1>1
<1>4. \A i \in 1 .. Len(s) - k : k + i \in 1 .. Len(s)
  BY <1>3
<1>5. Ordered(t)
  <2> SUFFICES ASSUME NEW i \in 1 .. Len(t), NEW j \in 1 .. Len(t), i < j PROVE t[i].ts < t[j].ts
    BY DEF Ordered
  <2>1. t[i] = s[k + i] /\ k + i \in 1 .. Len(s)
    BY <1>2, <1>4
  <2>2. t[j] = s[k + j] /\ k + j \in 1 .. Len(s)
    BY <1>2, <1>4
  <2>3. k + i < k + j
    BY <1>2, <1>3
  <2>4. s[k + i].ts < s[k + j].ts
    BY <1>0, <2>1, <2>2, <2>3 DEF Ordered
  <2> QED BY <2>1, <2>2, <2>4
<1>6. ASSUME NEW b \in Range(t) PROVE b \in Range(s)
  <2>1. PICK i \in 1 .. Len(s) - k : b = s[k + i]
    <3>1. PICK i \in 1 .. Len(t) : b = t[i]
      BY <1>2, InRange
    <3> QED BY <1>2, <3>1
  <2> QED BY <1>0, <1>4, <2>1, InRange
<1>7. Last(t) = Last(s)
  BY <1>2, <1>3 DEF Last
<1>8. ASSUME NEW b \in rows, t[1].ts <= b.ts PROVE b \in Range(t)
  <2>1. t[1] = s[k + 1] /\ k + 1 \in 1 .. Len(s) /\ 1 \in 1 .. Len(s)
    BY <1>2, <1>3
  <2>2. /\ \A i \in 1 .. Len(s) : s[i].ts \in Nat
        /\ b.ts \in Nat
    BY <1>0, InRange, BarTimes
  <2>3. s[1].ts <= s[k + 1].ts
    BY <1>0, <1>3, <2>1, <2>2 DEF Ordered
  <2>4. b \in Range(s)
    BY <1>8, <2>1, <2>2, <2>3 DEF LatestOf
  <2>5. PICK i \in 1 .. Len(s) : b = s[i]
    BY <1>0, <2>4, InRange
  <2>6. ~(i < k + 1)
    BY <1>0, <1>8, <2>1, <2>2, <2>5 DEF Ordered
  <2>7. i - k \in 1 .. Len(s) - k /\ k + (i - k) = i
    BY <1>3, <2>6
  <2>8. t[i - k] = b
    BY <1>2, <2>5, <2>7
  <2> QED BY <1>2, <2>7, <2>8, InRange
<1>9. \A b \in rows : b.ts <= Last(t).ts
  BY <1>7 DEF LatestOf
<1> QED BY <1>0, <1>2, <1>5, <1>6, <1>7, <1>8, <1>9 DEF LatestOf, t

\* An ordered list has the latest of its own bars.
LEMMA AllIsLatest ==
  ASSUME NEW s \in Seq(Bar), s # <<>>, Ordered(s)
  PROVE  LatestOf(s, Range(s))
<1>1. Range(s) \subseteq Bar
  BY InRange
<1> QED BY <1>1, OrderedOnce DEF LatestOf

\* The rows of a list are finitely many.
LEMMA RangeFinite ==
  ASSUME NEW s \in Seq(Bar)
  PROVE  IsFiniteSet(Range(s))
<1>1. s \in [1 .. Len(s) -> Bar] /\ Len(s) \in Nat
  OBVIOUS
<1>2. s \in Surjection(1 .. Len(s), Range(s))
  BY <1>1 DEF Surjection, Range
<1>3. IsFiniteSet(1 .. Len(s))
  BY <1>1, FS_Interval
<1> QED BY <1>2, <1>3, FS_Surjection

\* Bars read from a source in order are rows of it, one for each time.
LEMMA BetweenRows ==
  ASSUME NEW s \in Seq(Bar), Ordered(s), NEW h \in Hole
  PROVE  /\ Between(s, h) \subseteq Range(s) /\ Between(s, h) \in SUBSET Bar
         /\ IsFiniteSet(Between(s, h)) /\ OnePerTime(Between(s, h))
<1>1. Between(s, h) \subseteq Range(s)
  BY DEF Between
<1>2. Range(s) \subseteq Bar
  BY InRange
<1>3. OnePerTime(Range(s))
  BY OrderedOnce
<1>4. IsFiniteSet(Between(s, h))
  BY <1>1, RangeFinite, FS_Subset
<1> QED BY <1>1, <1>2, <1>3, <1>4 DEF OnePerTime

\* Merged bars are in order, and all there.
LEMMA MergeIsLatest ==
  ASSUME NEW s \in Seq(Bar), s # <<>>, Ordered(s),
         NEW missing \in SUBSET Bar, IsFiniteSet(missing), OnePerTime(missing)
  PROVE  LatestOf(Merge(s, missing),
                  Range(s) \cup {b \in missing : b.ts \notin Times(Range(s))})
<1> DEFINE add == {b \in missing : b.ts \notin Times(Range(s))}
           rows == Range(s) \cup add
<1>1. rows \in SUBSET Bar
  BY InRange
<1>2. IsFiniteSet(rows)
  <2>1. IsFiniteSet(add)
    BY FS_Subset
  <2> QED BY <2>1, RangeFinite, FS_Union
<1>3. OnePerTime(rows)
  <2>1. \A a \in Range(s) : a.ts \in Times(Range(s))
    BY DEF Times
  <2> QED BY <2>1, OrderedOnce DEF OnePerTime
<1>4. rows # {}
  BY InRange
<1>5. Merge(s, missing) = ByTime(rows)
  BY DEF Merge
<1> HIDE DEF rows
<1>6. /\ ByTime(rows) \in Seq(Bar) /\ Ordered(ByTime(rows))
      /\ Range(ByTime(rows)) = rows /\ ByTime(rows) # <<>>
  BY <1>1, <1>2, <1>3, <1>4, ByTimeOrders
<1>7. LatestOf(ByTime(rows), rows)
  BY <1>6, AllIsLatest
<1> QED BY <1>5, <1>7 DEF rows

\* So does appending a bar that is newer than the last one.
LEMMA AppendIsLatest ==
  ASSUME NEW s, NEW rows, LatestOf(s, rows), NEW b \in Bar, Last(s).ts < b.ts
  PROVE  /\ LatestOf(Append(s, b), rows \cup {b}) /\ Last(Append(s, b)) = b
         /\ Range(Append(s, b)) = Range(s) \cup {b}
<1>0. s \in Seq(Bar) /\ s # <<>> /\ Ordered(s) /\ Range(s) \subseteq rows /\ rows \subseteq Bar
  BY DEF LatestOf
<1> DEFINE t == Append(s, b)
<1>1. /\ t \in Seq(Bar) /\ Len(t) = Len(s) + 1 /\ t # <<>>
      /\ \A i \in 1 .. Len(s) : t[i] = s[i]
      /\ t[Len(s) + 1] = b
  BY <1>0, AppendProperties
<1> HIDE DEF t
<1>2. Len(s) \in Nat \ {0} /\ b.ts \in Nat
  BY <1>0, InRange, BarTimes
<1>3. Last(t) = b
  BY <1>1, <1>2 DEF Last
<1>4. \A i \in 1 .. Len(s) : s[i].ts \in Nat /\ s[i].ts < b.ts
  <2>1. \A i \in 1 .. Len(s) : s[i].ts <= Last(s).ts /\ s[i].ts \in Nat /\ Last(s).ts \in Nat
    BY <1>0, InRange, OrderedOnce, BarTimes
  <2> QED BY <1>2, <2>1
<1>5. Ordered(t)
  <2> SUFFICES ASSUME NEW i \in 1 .. Len(t), NEW j \in 1 .. Len(t), i < j PROVE t[i].ts < t[j].ts
    BY DEF Ordered
  <2>1. CASE j = Len(s) + 1
    <3>1. i \in 1 .. Len(s)
      BY <1>1, <1>2, <2>1
    <3> QED BY <1>1, <1>4, <2>1, <3>1
  <2>2. CASE j # Len(s) + 1
    <3>1. i \in 1 .. Len(s) /\ j \in 1 .. Len(s)
      BY <1>1, <1>2, <2>2
    <3> QED BY <1>0, <1>1, <3>1 DEF Ordered
  <2> QED BY <2>1, <2>2
<1>6. ASSUME NEW a \in Range(t) PROVE a \in Range(s) \/ a = b
  <2>1. PICK i \in 1 .. Len(t) : a = t[i]
    BY <1>1, InRange
  <2>2. i \in 1 .. Len(s) \/ i = Len(s) + 1
    BY <1>1, <1>2
  <2> QED BY <1>0, <1>1, <2>1, <2>2, InRange
<1>7. ASSUME NEW a, a \in Range(s) \/ a = b PROVE a \in Range(t)
  <2>1. CASE a = b
    BY <1>1, <1>3, <2>1, InRange
  <2>2. CASE a \in Range(s)
    <3>1. PICK i \in 1 .. Len(s) : a = s[i]
      BY <1>0, <2>2, InRange
    <3>2. i \in 1 .. Len(t) /\ t[i] = a
      BY <1>1, <1>2, <3>1
    <3> QED BY <1>1, <3>2, InRange
  <2> QED BY <1>7, <2>1, <2>2
<1>8. t[1] = s[1]
  BY <1>1, <1>2
<1>9. \A a \in rows \cup {b} : a.ts <= b.ts /\ (t[1].ts <= a.ts => a \in Range(t))
  <2>1. \A a \in rows : a.ts \in Nat /\ a.ts <= Last(s).ts /\ (s[1].ts <= a.ts => a \in Range(s))
    BY <1>0, BarTimes DEF LatestOf
  <2>2. Last(s).ts \in Nat
    BY <1>0, InRange, BarTimes
  <2> QED BY <1>2, <1>7, <1>8, <2>1, <2>2
<1>10. Range(t) = Range(s) \cup {b}
  BY <1>6, <1>7
<1> QED BY <1>0, <1>1, <1>3, <1>5, <1>9, <1>10 DEF LatestOf, t

\* The newest bar is replaced by another version of it.
LEMMA ReplacedLast ==
  ASSUME NEW s \in Seq(Bar), s # <<>>, Ordered(s), NEW b \in Bar, b.ts = Last(s).ts
  PROVE  LET t == [s EXCEPT ![Len(s)] = b] IN
         /\ t \in Seq(Bar) /\ t # <<>> /\ Ordered(t) /\ Last(t) = b /\ t[1].ts = s[1].ts
         /\ \A a \in Range(t) : a = b \/ (a \in Range(s) /\ a.ts < b.ts)
         /\ b \in Range(t) /\ \A a \in Range(s) : a.ts < b.ts => a \in Range(t)
         /\ Times(Range(t)) = Times(Range(s))
<1> DEFINE t == [s EXCEPT ![Len(s)] = b]
<1>1. Len(s) \in 1 .. Len(s) /\ Len(s) \in Nat \ {0}
  BY InRange
<1>2. /\ t \in Seq(Bar) /\ Len(t) = Len(s)
      /\ \A i \in 1 .. Len(s) : t[i] = IF i = Len(s) THEN b ELSE s[i]
  BY <1>1, ExceptSeq
<1> HIDE DEF t
<1>3. \A i \in 1 .. Len(s) : t[i].ts = s[i].ts
  BY <1>2 DEF Last
<1>4. t # <<>>
  BY <1>1, <1>2
<1>5. Ordered(t) /\ Last(t) = b /\ t[1].ts = s[1].ts
  BY <1>1, <1>2, <1>3 DEF Ordered, Last
<1>6. ASSUME NEW a \in Range(t) PROVE a = b \/ (a \in Range(s) /\ a.ts < b.ts)
  <2>1. PICK i \in 1 .. Len(s) : a = t[i]
    BY <1>2, InRange
  <2>2. CASE i = Len(s)
    BY <1>2, <2>1, <2>2
  <2>3. CASE i # Len(s)
    <3>1. a = s[i] /\ i < Len(s)
      BY <1>1, <1>2, <2>1, <2>3
    <3> QED BY <1>1, <3>1, InRange DEF Ordered, Last
  <2> QED BY <2>2, <2>3
<1>7. Times(Range(t)) = Times(Range(s))
  <2>1. ASSUME NEW a \in Range(t) PROVE \E c \in Range(s) : c.ts = a.ts
    <3>1. PICK i \in 1 .. Len(s) : a = t[i]
      BY <1>2, <2>1, InRange
    <3>2. s[i] \in Range(s) /\ s[i].ts = a.ts
      BY <1>3, <3>1, InRange
    <3> QED BY <3>2
  <2>2. ASSUME NEW a \in Range(s) PROVE \E c \in Range(t) : c.ts = a.ts
    <3>1. PICK i \in 1 .. Len(s) : a = s[i]
      BY <2>2, InRange
    <3>2. t[i] \in Range(t) /\ t[i].ts = a.ts
      BY <1>2, <1>3, <3>1, InRange
    <3> QED BY <3>2
  <2> QED BY <2>1, <2>2 DEF Times
<1>8. ASSUME NEW a \in Range(s), a.ts < b.ts PROVE a \in Range(t)
  <2>1. PICK i \in 1 .. Len(s) : a = s[i]
    BY InRange
  <2>2. i # Len(s)
    BY <1>8, <2>1, BarTimes DEF Last
  <2> QED BY <1>2, <2>1, <2>2, InRange
<1>9. b \in Range(t)
  BY <1>2, <1>4, <1>5, InRange
<1> QED BY <1>2, <1>4, <1>5, <1>6, <1>7, <1>8, <1>9 DEF t

\* Between two rows of a list in order lie as many periods as rows at least.
LEMMA RowsApart ==
  ASSUME NEW s \in Seq(Bar), Ordered(s), NEW i \in 1 .. Len(s), NEW j \in 1 .. Len(s), i <= j
  PROVE  j - i <= s[j].ts - s[i].ts
<1> DEFINE f == [k \in i .. j |-> s[k].ts]
<1>1. \A k \in 1 .. Len(s) : s[k].ts \in Nat
  BY InRange
<1>2. \A k \in i .. j : k \in 1 .. Len(s) /\ s[i].ts <= s[k].ts /\ s[k].ts <= s[j].ts
  <2> SUFFICES ASSUME NEW k \in i .. j
               PROVE  k \in 1 .. Len(s) /\ s[i].ts <= s[k].ts /\ s[k].ts <= s[j].ts
    OBVIOUS
  <2>1. k \in 1 .. Len(s) /\ (k = i \/ i < k) /\ (k = j \/ k < j)
    OBVIOUS
  <2> QED BY <1>1, <2>1 DEF Ordered
<1>3. f \in [i .. j -> s[i].ts .. s[j].ts]
  BY <1>1, <1>2
<1>4. \A a, b \in i .. j : f[a] = f[b] => a = b
  BY <1>1, <1>2 DEF Ordered
<1>5. f \in Injection(i .. j, s[i].ts .. s[j].ts)
  <2> HIDE DEF f
  <2> QED BY <1>3, <1>4 DEF Injection, IsInjective
<1> HIDE DEF f
<1>6. s[i].ts \in Int /\ s[j].ts \in Int /\ s[i].ts <= s[j].ts
  BY <1>1, <1>2
<1>7. IsFiniteSet(s[i].ts .. s[j].ts) /\ Cardinality(s[i].ts .. s[j].ts) = s[j].ts - s[i].ts + 1
  <2>1. \A a, c \in Int : a <= c => IsFiniteSet(a .. c) /\ Cardinality(a .. c) = c - a + 1
    BY FS_Interval
  <2> QED BY <1>6, <2>1
<1>8. Cardinality(i .. j) = j - i + 1
  BY FS_Interval
<1>9. Cardinality(i .. j) <= Cardinality(s[i].ts .. s[j].ts)
  BY <1>5, <1>7, FS_Injection
<1> QED BY <1>6, <1>7, <1>8, <1>9

-----------------------------------------------------------------------------
\* The rows of the source and of the cache, and their times.
Rows     == Range(market)
RowTimes == Times(Rows)
Held     == Range(bars)
HeldTimes == Times(Held)

\* The newest bar the feed has in hand.
InHand == feed = "binance" /\ fpc \in {"gap", "append"}
Reached == IF InHand THEN job.new ELSE Last(bars)

\* The values of what the bars depend on.
TypedInv ==
  /\ feed \in {"mt5", "binance"}
  /\ market \in Seq(Bar) /\ market # <<>>
  /\ bars \in Seq(Bar) /\ ws \in Seq(Bar)
  /\ fpc \in {"idle", "gap", "append", "signal"}
  /\ job \in [new : Bar, closed : Bar, hole : Hole]
  /\ tried \in Hole /\ pending \in Hole
  /\ kept \in BOOLEAN /\ missed \in BOOLEAN

\* The source's rows are in order, and nothing moves before the cache is filled.
SourceInv ==
  /\ Ordered(market) /\ \A b \in Rows : b.ts > 0
  /\ bars = <<>> => /\ ~ready /\ ~linked /\ ws = <<>> /\ fpc = "idle"
                    /\ pending = NoHole /\ tried = NoHole
  /\ feed = "mt5" => /\ fpc # "append" /\ ~linked /\ ws = <<>>
                     /\ pending = NoHole /\ (bars # <<>> => ready)
  /\ fpc \in {"idle", "signal"} => job = NoJob

\* The cache is a part of the source, in order.
CacheInv == bars # <<>> => Ordered(bars) /\ HeldTimes \subseteq RowTimes

\* Messages arrive in order and behind what the feed has.
WsInv ==
  bars # <<>> =>
    /\ \A i \in 1 .. Len(ws) : ws[i].ts \in RowTimes /\ Reached.ts <= ws[i].ts
    /\ \A i, j \in 1 .. Len(ws) : i < j => ws[i].ts <= ws[j].ts

\* The bar in hand is not older than the cache, the holes are behind it.
HandInv ==
  bars # <<>> =>
    /\ fpc \in {"gap", "append"} => job.new.ts \in RowTimes /\ Last(bars).ts <= job.new.ts
    /\ fpc = "gap" =>
         /\ job.hole.lo < job.hole.hi /\ job.hole.hi <= job.new.ts
         /\ feed = "mt5" \/ ~missed => job.hole.lo = Last(bars).ts /\ job.hole.hi = job.new.ts
    /\ fpc = "gap" /\ feed = "mt5" =>
         /\ job.closed = NoBar \/ job.closed.ts = Last(bars).ts
         /\ \/ job.new.ts = Newest.ts
            \/ Len(market) > 1 /\ job.new.ts = market[Len(market) - 1].ts
    /\ tried.lo < Reached.ts
    /\ pending # NoHole => missed /\ pending.lo < pending.hi /\ pending.hi <= Reached.ts

\* What the cache reaches over it has, unless a read failed.
GapInv ==
  bars # <<>> /\ ~missed =>
    /\ \A t \in RowTimes : bars[1].ts <= t /\ t <= Last(bars).ts => t \in HeldTimes
    /\ fpc = "append" => \A t \in RowTimes : ~(Last(bars).ts < t /\ t < job.new.ts)

\* What is followed by a newer bar, in the cache or on its way, has its last
\* change, as long as the feed kept up.
FinalInv ==
  bars # <<>> /\ kept =>
    /\ \A b \in Held : b.ts < Last(bars).ts => b \in Rows
    /\ feed = "mt5" =>
         /\ fpc # "gap" => \/ Last(bars).ts = Newest.ts
                           \/ Len(market) > 1 /\ Last(bars).ts = market[Len(market) - 1].ts
         /\ fpc = "gap" => job.closed \in Rows
    /\ feed = "binance" =>
         /\ Last(bars).ts < Reached.ts => Last(bars) \in Rows
         /\ ws = <<>> => Reached = Newest
         /\ ws # <<>> => ws[Len(ws)] = Newest /\ (Reached.ts < ws[1].ts => Reached \in Rows)
         /\ \A i \in 1 .. Len(ws) : i + 1 \in 1 .. Len(ws) /\ ws[i].ts < ws[i + 1].ts => ws[i] \in Rows

\* The inductive invariant of the two feeds.
FeedInv == TypedInv /\ SourceInv /\ CacheInv /\ WsInv /\ HandInv /\ GapInv /\ FinalInv

\* It holds when the source has its first bar and nothing is cached.
LEMMA FeedInvInit ==
  Init => FeedInv
<1> SUFFICES ASSUME Init PROVE FeedInv
  OBVIOUS
<1>1. market = <<[ts |-> 1, val |-> 0]>> /\ [ts |-> 1, val |-> 0] \in Bar
  BY DEF Init, Bar
<1>2. market \in Seq(Bar) /\ Len(market) = 1 /\ market[1].ts = 1 /\ market # <<>>
  BY <1>1
<1>3. Ordered(market) /\ \A b \in Rows : b.ts > 0
  BY <1>2, InRange DEF Ordered, Rows
<1>4. bars = <<>> /\ bars \in Seq(Bar)
  BY DEF Init
<1>5. NoJob \in [new : Bar, closed : Bar, hole : Hole] /\ NoHole \in Hole
  BY DEF NoJob, NoBar, NoHole, Bar, Hole
<1>6. TypedInv
  BY <1>2, <1>4, <1>5, FeedAssumption DEF Init, TypedInv
<1>7. SourceInv
  BY <1>3, <1>4 DEF Init, SourceInv
<1> QED BY <1>4, <1>6, <1>7 DEF FeedInv, CacheInv, WsInv, HandInv, GapInv, FinalInv

\* What the invariant says of the newest row, the cache and its last bar.
LEMMA SourceFacts ==
  ASSUME TypedInv, SourceInv
  PROVE  /\ Newest = Last(market) /\ Newest \in Bar /\ Newest \in Rows /\ Newest.ts \in Nat /\ Newest.ts > 0
         /\ \A b \in Rows : b \in Bar /\ b.ts \in Nat /\ b.ts > 0 /\ b.ts <= Newest.ts
         /\ \A t \in RowTimes : t \in Nat /\ t > 0 /\ t <= Newest.ts
         /\ OnePerTime(Rows)
         /\ Newest.ts \in RowTimes
         /\ \A b \in Rows : b.ts \in RowTimes
<1>1. market \in Seq(Bar) /\ market # <<>> /\ Ordered(market)
  BY DEF TypedInv, SourceInv
<1>2. Newest = Last(market) /\ Newest \in Rows
  BY <1>1, InRange DEF Newest, Rows
<1>3. \A b \in Rows : b \in Bar /\ b.ts \in Nat /\ b.ts > 0 /\ b.ts <= Newest.ts
  BY <1>1, <1>2, InRange, OrderedOnce, BarTimes DEF Rows, SourceInv
<1>4. OnePerTime(Rows)
  BY <1>1, OrderedOnce DEF Rows
<1> QED BY <1>2, <1>3, <1>4 DEF RowTimes, Times

\* The bars of a filled cache are between its first and its last one, each with
\* a time the source knows.
LEMMA CacheFacts ==
  ASSUME TypedInv, CacheInv, bars # <<>>
  PROVE  /\ Len(bars) \in Nat \ {0} /\ Last(bars) = bars[Len(bars)]
         /\ Last(bars) \in Held /\ bars[1] \in Held /\ Last(bars) \in Bar
         /\ Last(bars).ts \in Nat /\ bars[1].ts \in Nat
         /\ \A b \in Held : b \in Bar /\ b.ts \in Nat /\ bars[1].ts <= b.ts /\ b.ts <= Last(bars).ts
                            /\ b.ts \in HeldTimes /\ b.ts \in RowTimes
         /\ \A t \in HeldTimes : t \in RowTimes
         /\ OnePerTime(Held)
<1>1. bars \in Seq(Bar) /\ Ordered(bars) /\ HeldTimes \subseteq RowTimes
  BY DEF TypedInv, CacheInv
<1>2. \A b \in Held : b \in Bar /\ b.ts \in Nat /\ bars[1].ts <= b.ts /\ b.ts <= Last(bars).ts
  BY <1>1, InRange, OrderedOnce, BarTimes DEF Held
<1>3. \A b \in Held : b.ts \in HeldTimes
  BY DEF HeldTimes, Times
<1>4. OnePerTime(Held)
  BY <1>1, OrderedOnce DEF Held
<1>5. Len(bars) \in Nat \ {0} /\ Last(bars) = bars[Len(bars)] /\ Last(bars) \in Held /\ bars[1] \in Held
  BY <1>1, InRange DEF Held
<1> QED BY <1>1, <1>2, <1>3, <1>4, <1>5

\* The source moves on: a trade in the forming bar, or a bar begun behind it.
LEMMA SourceMoves ==
  ASSUME TypedInv, SourceInv, Trade \/ NewBar
  PROVE  /\ market' \in Seq(Bar) /\ market' # <<>> /\ Ordered(market') /\ \A b \in Rows' : b.ts > 0
         /\ Newest' \in Rows' /\ Newest' \in Bar /\ Newest' = Last(market')
         /\ Newest.ts <= Newest'.ts
         /\ \A t \in RowTimes : t \in RowTimes'
         /\ \A t \in RowTimes' : t \in RowTimes \/ Newest.ts < t
         /\ \A b \in Rows : b.ts < Newest'.ts => b \in Rows'
         /\ \/ NewBar /\ Newest.ts < Newest'.ts
               /\ Len(market') > 1 /\ market'[Len(market') - 1].ts = Newest.ts
            \/ Newest'.ts = Newest.ts /\ Len(market') = Len(market)
               /\ (Len(market) > 1 => market'[Len(market) - 1].ts = market[Len(market) - 1].ts)
<1>0. market \in Seq(Bar) /\ market # <<>> /\ Ordered(market) /\ Newest = Last(market)
  BY SourceFacts DEF TypedInv, SourceInv
<1>1. /\ Newest \in Bar /\ Newest \in Rows /\ Newest.ts \in Nat /\ Newest.ts > 0
      /\ \A b \in Rows : b \in Bar /\ b.ts \in Nat /\ b.ts > 0 /\ b.ts <= Newest.ts
  BY SourceFacts
<1>2. Len(market) \in Nat \ {0} /\ Len(market) \in 1 .. Len(market) /\ Last(market) = market[Len(market)]
  BY <1>0, InRange
<1>3. CASE Trade
  <2>1. PICK b : b = [market[Len(market)] EXCEPT !.val = @ + 1]
    OBVIOUS
  <2>2. b \in Bar /\ b.ts = Newest.ts
    BY <1>0, <1>1, <1>2, <2>1 DEF Bar
  <2>3. market' = [market EXCEPT ![Len(market)] = b]
    BY <1>3, <2>1 DEF Trade
  <2>4. /\ market' \in Seq(Bar) /\ market' # <<>> /\ Ordered(market') /\ Last(market') = b
        /\ \A a \in Range(market') : a = b \/ (a \in Range(market) /\ a.ts < b.ts)
        /\ b \in Range(market') /\ \A a \in Range(market) : a.ts < b.ts => a \in Range(market')
        /\ Times(Range(market')) = Times(Range(market))
    BY <1>0, <2>2, <2>3, ReplacedLast
  <2>5. Len(market') = Len(market) /\ \A i \in 1 .. Len(market) : i # Len(market) => market'[i] = market[i]
    BY <1>0, <1>2, <2>2, <2>3, ExceptSeq
  <2>6. Newest' = b
    BY <2>4 DEF Newest
  <2>7. Len(market) > 1 => market'[Len(market) - 1].ts = market[Len(market) - 1].ts
    <3>1. Len(market) > 1 => Len(market) - 1 \in 1 .. Len(market) /\ Len(market) - 1 # Len(market)
      BY <1>2
    <3> QED BY <2>5, <3>1
  <2> QED BY <1>1, <2>2, <2>4, <2>5, <2>6, <2>7 DEF Rows, RowTimes
<1>4. CASE NewBar
  <2>1. PICK gap \in {1, 3} : market' = Append(market, [ts |-> Newest.ts + gap, val |-> 0])
    BY <1>4 DEF NewBar
  <2>2. PICK b : b = [ts |-> Newest.ts + gap, val |-> 0]
    OBVIOUS
  <2>3. b \in Bar /\ Newest.ts < b.ts /\ b.ts > 0
    BY <1>1, <2>2 DEF Bar
  <2>4. LatestOf(market, Rows)
    BY <1>0, AllIsLatest DEF Rows
  <2>5. /\ LatestOf(market', Rows \cup {b}) /\ Last(market') = b
        /\ Range(market') = Rows \cup {b}
    BY <1>0, <2>1, <2>2, <2>3, <2>4, AppendIsLatest DEF Rows
  <2>6. market' \in Seq(Bar) /\ market' # <<>> /\ Ordered(market')
    BY <2>5 DEF LatestOf
  <2>7. Newest' = b /\ Rows' = Rows \cup {b}
    BY <2>5 DEF Newest, Rows
  <2>8. Len(market') = Len(market) + 1 /\ market'[Len(market)] = market[Len(market)]
    BY <1>0, <1>2, <2>1, <2>2, <2>3, AppendProperties
  <2>9. Len(market') > 1 /\ market'[Len(market') - 1].ts = Newest.ts
    <3>1. Len(market') - 1 = Len(market) /\ Len(market') > 1
      BY <1>2, <2>8
    <3> QED BY <1>0, <1>2, <2>8, <3>1
  <2>10. /\ \A t \in RowTimes : t \in RowTimes'
         /\ \A t \in RowTimes' : t \in RowTimes \/ Newest.ts < t
    BY <2>3, <2>7 DEF RowTimes, Times
  <2>11. /\ \A a \in Rows' : a.ts > 0
         /\ \A a \in Rows : a \in Rows'
         /\ Newest' \in Rows' /\ Newest' \in Bar /\ Newest' = Last(market')
         /\ Newest.ts < Newest'.ts /\ Newest.ts <= Newest'.ts
    BY <1>1, <2>3, <2>5, <2>7, BarTimes
  <2> QED BY <1>4, <2>6, <2>9, <2>10, <2>11
<1> QED BY <1>3, <1>4

\* What is sent is the newest row, behind what was sent before.
LEMMA PushedInOrder ==
  ASSUME NEW q \in Seq(Bar), NEW b \in Bar, NEW low, \A i \in 1 .. Len(q) : low <= q[i].ts /\ q[i].ts <= b.ts,
         \A i, j \in 1 .. Len(q) : i < j => q[i].ts <= q[j].ts, low <= b.ts
  PROVE  LET p == Append(q, b) IN
         /\ p \in Seq(Bar) /\ p # <<>> /\ Len(p) = Len(q) + 1 /\ p[Len(p)] = b
         /\ \A i \in 1 .. Len(q) : p[i] = q[i]
         /\ \A i \in 1 .. Len(p) : low <= p[i].ts /\ (i \in 1 .. Len(q) \/ p[i] = b)
         /\ \A i, j \in 1 .. Len(p) : i < j => p[i].ts <= p[j].ts
<1> DEFINE p == Append(q, b)
<1>1. /\ p \in Seq(Bar) /\ p # <<>> /\ Len(p) = Len(q) + 1 /\ p[Len(q) + 1] = b
      /\ \A i \in 1 .. Len(q) : p[i] = q[i]
  BY AppendProperties
<1> HIDE DEF p
<1>2. Len(q) \in Nat /\ b.ts \in Nat
  BY BarTimes
<1>3. \A i \in 1 .. Len(p) : i \in 1 .. Len(q) \/ i = Len(q) + 1
  BY <1>1, <1>2
<1>4. \A i \in 1 .. Len(p) : low <= p[i].ts /\ (i \in 1 .. Len(q) \/ p[i] = b)
  BY <1>1, <1>3
<1>5. \A i, j \in 1 .. Len(p) : i < j => p[i].ts <= p[j].ts
  <2> SUFFICES ASSUME NEW i \in 1 .. Len(p), NEW j \in 1 .. Len(p), i < j PROVE p[i].ts <= p[j].ts
    OBVIOUS
  <2>1. CASE j \in 1 .. Len(q)
    <3>1. i \in 1 .. Len(q)
      BY <1>2, <2>1
    <3> QED BY <1>1, <2>1, <3>1
  <2>2. CASE j = Len(q) + 1
    <3>1. i \in 1 .. Len(q)
      BY <1>1, <1>2, <2>2
    <3> QED BY <1>1, <2>2, <3>1
  <2> QED BY <1>3, <2>1, <2>2
<1> QED BY <1>1, <1>4, <1>5 DEF p

\* The newest bar in hand is not older than the cache, nor newer than the source.
LEMMA ReachedFacts ==
  ASSUME TypedInv, SourceInv, CacheInv, HandInv, bars # <<>>
  PROVE  /\ Reached \in Bar /\ Reached.ts \in Nat /\ Reached.ts \in RowTimes
         /\ Last(bars).ts <= Reached.ts /\ Reached.ts <= Newest.ts
         /\ ~InHand => Reached = Last(bars)
         /\ InHand => Reached = job.new
<1>1. Last(bars) \in Bar /\ Last(bars).ts \in Nat /\ Last(bars).ts \in RowTimes
  BY CacheFacts
<1>2. job.new \in Bar /\ job.new.ts \in Nat
  BY BarTimes DEF TypedInv
<1>3. InHand => job.new.ts \in RowTimes /\ Last(bars).ts <= job.new.ts
  BY DEF InHand, HandInv
<1>4. \A t \in RowTimes : t <= Newest.ts
  BY SourceFacts
<1> QED BY <1>1, <1>2, <1>3, <1>4 DEF Reached

\* The source moves on under whatever the feed is doing.
LEMMA SourceMoveInv ==
  ASSUME FeedInv, Trade \/ NewBar
  PROVE  FeedInv'
<1> USE DEF FeedInv
<1>1. /\ UNCHANGED <<feed, linked, ready, bars, fpc, job, tried, pending, missed>>
      /\ ws' = (IF linked THEN Append(ws, Newest') ELSE ws)
      /\ kept' \in BOOLEAN /\ (kept' => kept /\ (bars = <<>> \/ feed = "mt5" \/ linked))
  <2>1. Newest' = Last(market')
    BY SourceMoves
  <2> QED BY <2>1 DEF Trade, NewBar, Push, cacheVars, gapVars, TypedInv
<1>2. /\ market' \in Seq(Bar) /\ market' # <<>> /\ Ordered(market') /\ \A b \in Rows' : b.ts > 0
      /\ Newest' \in Rows' /\ Newest' \in Bar
      /\ Newest.ts <= Newest'.ts
      /\ \A t \in RowTimes : t \in RowTimes'
      /\ \A t \in RowTimes' : t \in RowTimes \/ Newest.ts < t
      /\ \A b \in Rows : b.ts < Newest'.ts => b \in Rows'
  BY SourceMoves
<1>3. /\ Newest \in Rows /\ Newest.ts \in Nat /\ Newest'.ts \in Nat
      /\ \A b \in Rows : b.ts \in Nat /\ b.ts > 0 /\ b.ts <= Newest.ts
      /\ \A t \in RowTimes : t \in Nat /\ t <= Newest.ts
  BY <1>2, SourceFacts, BarTimes
<1>4. Reached' = Reached /\ Held' = Held /\ HeldTimes' = HeldTimes /\ Last(bars)' = Last(bars)
  BY <1>1 DEF Reached, InHand, Held, HeldTimes
<1>5. bars # <<>> => /\ Reached \in Bar /\ Reached.ts \in Nat /\ Reached.ts \in RowTimes
                     /\ Last(bars).ts \in Nat /\ Last(bars).ts <= Reached.ts /\ Reached.ts <= Newest.ts
                     /\ \A b \in Held : b.ts \in Nat
  BY ReachedFacts, CacheFacts
<1>6. TypedInv' /\ SourceInv'
  <2>1. ws' \in Seq(Bar) /\ (~linked => ws' = ws)
    BY <1>1, <1>2 DEF TypedInv
  <2> QED BY <1>1, <1>2, <2>1 DEF TypedInv, SourceInv
<1>7. CacheInv'
  BY <1>1, <1>2, <1>4 DEF CacheInv
<1>8. ASSUME bars # <<>>
      PROVE  \A i \in 1 .. Len(ws) : ws[i] \in Bar /\ ws[i].ts \in Nat /\ ws[i].ts \in RowTimes
                /\ Reached.ts <= ws[i].ts /\ ws[i].ts <= Newest.ts /\ ws[i].ts <= Newest'.ts
  <2>1. \A i \in 1 .. Len(ws) : ws[i] \in Bar /\ ws[i].ts \in Nat
    BY InRange DEF TypedInv
  <2> QED BY <1>2, <1>3, <1>8, <2>1 DEF WsInv
<1>9. ASSUME bars # <<>>, linked
      PROVE  /\ ws' # <<>> /\ Len(ws') = Len(ws) + 1 /\ ws'[Len(ws')] = Newest'
             /\ \A i \in 1 .. Len(ws) : ws'[i] = ws[i]
             /\ \A i \in 1 .. Len(ws') : Reached.ts <= ws'[i].ts /\ (i \in 1 .. Len(ws) \/ ws'[i] = Newest')
             /\ \A i, j \in 1 .. Len(ws') : i < j => ws'[i].ts <= ws'[j].ts
  <2>1. ws \in Seq(Bar) /\ ws' = Append(ws, Newest')
    BY <1>1, <1>9 DEF TypedInv
  <2>2. Reached.ts <= Newest'.ts
    BY <1>2, <1>3, <1>5, <1>9
  <2>3. \A i, j \in 1 .. Len(ws) : i < j => ws[i].ts <= ws[j].ts
    BY <1>9 DEF WsInv
  <2>4. \A i \in 1 .. Len(ws) : Reached.ts <= ws[i].ts /\ ws[i].ts <= Newest'.ts
    BY <1>8, <1>9
  <2>5. PICK b, low : b = Newest' /\ low = Reached.ts
    OBVIOUS
  <2>6. /\ b \in Bar /\ low <= b.ts /\ ws' = Append(ws, b)
        /\ \A i \in 1 .. Len(ws) : low <= ws[i].ts /\ ws[i].ts <= b.ts
    BY <1>2, <2>1, <2>2, <2>4, <2>5
  <2> HIDE DEF FeedInv
  <2>7. LET p == Append(ws, b) IN
        /\ p \in Seq(Bar) /\ p # <<>> /\ Len(p) = Len(ws) + 1 /\ p[Len(p)] = b
        /\ \A i \in 1 .. Len(ws) : p[i] = ws[i]
        /\ \A i \in 1 .. Len(p) : low <= p[i].ts /\ (i \in 1 .. Len(ws) \/ p[i] = b)
        /\ \A i, j \in 1 .. Len(p) : i < j => p[i].ts <= p[j].ts
    BY <2>1, <2>3, <2>6, PushedInOrder
  <2> QED BY <2>5, <2>6, <2>7
<1>10. WsInv'
  <2>1. CASE bars = <<>>
    BY <1>1, <2>1 DEF WsInv
  <2>2. CASE bars # <<>> /\ ~linked
    BY <1>1, <1>2, <1>4, <2>2 DEF WsInv
  <2>3. CASE bars # <<>> /\ linked
    <3>1. Newest'.ts \in RowTimes'
      BY <1>2 DEF RowTimes, Times
    <3>2. \A i \in 1 .. Len(ws') : ws'[i].ts \in RowTimes'
      BY <1>2, <1>8, <1>9, <2>3, <3>1
    <3> QED BY <1>4, <1>9, <2>3, <3>2 DEF WsInv
  <2> QED BY <2>1, <2>2, <2>3
<1>11. HandInv'
  <2> SUFFICES ASSUME bars # <<>> PROVE HandInv'
    BY <1>1 DEF HandInv
  <2>1. fpc = "gap" /\ feed = "mt5" => \/ job.new.ts = Newest'.ts
                                       \/ Len(market') > 1 /\ job.new.ts = market'[Len(market') - 1].ts
    <3>1. NewBar => (fpc = "gap" /\ feed = "mt5" => Newest.ts = job.new.ts)
      BY DEF NewBar
    <3> HIDE DEF FeedInv
    <3>2. fpc = "gap" /\ feed = "mt5" => \/ job.new.ts = Newest.ts
                                         \/ Len(market) > 1 /\ job.new.ts = market[Len(market) - 1].ts
      BY DEF HandInv, FeedInv
    <3>3. TypedInv /\ SourceInv
      BY DEF FeedInv
    <3> QED BY <3>1, <3>2, <3>3, SourceMoves
  <2> HIDE DEF FeedInv
  <2>2. HandInv
    BY DEF FeedInv
  <2> QED BY <1>1, <1>2, <1>4, <2>1, <2>2 DEF HandInv
<1>12. GapInv'
  <2>3. \A t \in RowTimes' : t \in Nat
    BY <1>2, BarTimes, InRange DEF RowTimes, Times, Rows
  <2>1. \A t \in RowTimes' : bars # <<>> /\ t <= Reached.ts => t \in RowTimes
    BY <1>2, <1>3, <1>5, <2>3
  <2>2. bars # <<>> /\ fpc = "append" => job.new = Reached
    BY DEF Reached, InHand, SourceInv, TypedInv
  <2> HIDE DEF FeedInv
  <2>4. GapInv
    BY DEF FeedInv
  <2> QED BY <1>1, <1>4, <1>5, <2>1, <2>2, <2>3, <2>4 DEF GapInv
<1>13. FinalInv'
  <2> SUFFICES ASSUME bars # <<>>, kept' PROVE FinalInv'
    BY <1>1 DEF FinalInv
  <2>1. kept /\ (feed = "mt5" \/ linked)
    BY <1>1
  <2>2. \A b \in Held : b.ts < Last(bars).ts => b \in Rows'
    <3>1. \A b \in Held : b.ts < Last(bars).ts => b \in Rows /\ b.ts < Newest'.ts
      BY <1>2, <1>3, <1>5, <2>1 DEF FinalInv
    <3> QED BY <1>2, <3>1
  <2>3. CASE feed = "mt5"
    <3>1. ASSUME fpc # "gap"
          PROVE  \/ Last(bars).ts = Newest'.ts
                 \/ Len(market') > 1 /\ Last(bars).ts = market'[Len(market') - 1].ts
      <4>1. \/ Last(bars).ts = Newest.ts
            \/ Len(market) > 1 /\ Last(bars).ts = market[Len(market) - 1].ts
        BY <2>1, <2>3, <3>1 DEF FinalInv
      <4>2. CASE NewBar /\ Len(market') > 1 /\ market'[Len(market') - 1].ts = Newest.ts
        <5>1. Newest.ts \in {Last(bars).ts, job.new.ts}
          BY <2>3, <4>2 DEF NewBar
        <5>2. job.new.ts = 0
          BY <2>3, <3>1 DEF SourceInv, NoJob, NoBar, TypedInv
        <5>3. Newest.ts = Last(bars).ts
          BY <1>3, <5>1, <5>2
        <5> QED BY <4>2, <5>3
      <4>3. CASE /\ Newest'.ts = Newest.ts /\ Len(market') = Len(market)
                 /\ (Len(market) > 1 => market'[Len(market) - 1].ts = market[Len(market) - 1].ts)
        BY <4>1, <4>3
      <4> QED BY <4>2, <4>3, SourceMoves
    <3>2. ASSUME fpc = "gap" PROVE job.closed \in Rows'
      <4>1. job.closed \in Rows /\ job.closed # NoBar
        BY <1>3, <2>1, <2>3, <3>2 DEF FinalInv, NoBar
      <4>2. job.closed.ts < job.new.ts /\ job.new.ts \in RowTimes
        BY <1>5, <2>3, <3>2, <4>1, BarTimes DEF HandInv, TypedInv, Hole
      <4>3. job.closed.ts < Newest'.ts
        BY <1>2, <1>3, <4>1, <4>2
      <4> QED BY <1>2, <4>1, <4>3
    <3> QED BY <1>1, <1>4, <2>2, <2>3, <3>1, <3>2 DEF FinalInv
  <2>4. CASE feed = "binance" /\ linked
    <3>1. Last(bars).ts < Reached.ts => Last(bars) \in Rows'
      <4>1. Last(bars).ts < Reached.ts => Last(bars) \in Rows /\ Last(bars).ts < Newest'.ts
        BY <1>2, <1>3, <1>5, <2>1, <2>4 DEF FinalInv
      <4> QED BY <1>2, <4>1
    <3>2. Reached.ts < ws'[1].ts => Reached \in Rows'
      <4>1. CASE ws = <<>>
        <5>1. Reached = Newest
          BY <2>1, <2>4, <4>1 DEF FinalInv
        <5>2. ws'[1] = Newest'
          BY <1>9, <2>4, <4>1
        <5> QED BY <1>2, <1>3, <5>1, <5>2
      <4>2. CASE ws # <<>>
        <5>1. 1 \in 1 .. Len(ws)
          BY <4>2, InRange DEF TypedInv
        <5>2. Reached.ts < ws[1].ts => Reached \in Rows
          BY <2>1, <2>4, <4>2 DEF FinalInv
        <5>3. ws'[1] = ws[1] /\ ws[1].ts <= Newest'.ts /\ ws[1].ts \in Nat
          BY <1>8, <1>9, <2>4, <5>1
        <5> QED BY <1>2, <1>3, <1>5, <5>2, <5>3
      <4> QED BY <4>1, <4>2
    <3>3. ASSUME NEW i \in 1 .. Len(ws'), i + 1 \in 1 .. Len(ws'), ws'[i].ts < ws'[i + 1].ts
          PROVE  ws'[i] \in Rows'
      <4>1. Len(ws') = Len(ws) + 1 /\ Len(ws) \in Nat
        BY <1>9, <2>4 DEF TypedInv
      <4>2. i \in 1 .. Len(ws) /\ ws'[i] = ws[i]
        BY <1>9, <2>4, <3>3, <4>1
      <4>3. CASE i = Len(ws)
        <5>1. ws # <<>> /\ ws[i] = Newest /\ ws'[i + 1] = Newest'
          <6>1. ws # <<>>
            BY <4>2
          <6>2. ws[Len(ws)] = Newest
            BY <2>1, <2>4, <6>1 DEF FinalInv
          <6> QED BY <1>9, <2>4, <4>1, <4>3, <6>1, <6>2
        <5> QED BY <1>2, <1>3, <3>3, <4>2, <5>1
      <4>4. CASE i # Len(ws)
        <5>1. i + 1 \in 1 .. Len(ws)
          BY <4>1, <4>2, <4>4
        <5>2. ws'[i + 1] = ws[i + 1]
          BY <1>9, <2>4, <5>1
        <5>3. ws[i] \in Rows
          BY <2>1, <2>4, <3>3, <4>2, <5>1, <5>2 DEF FinalInv
        <5>4. ws[i].ts < Newest'.ts
          BY <1>8, <1>3, <3>3, <4>2, <5>1, <5>2
        <5> QED BY <1>2, <4>2, <5>3, <5>4
      <4> QED BY <4>3, <4>4
    <3>4. ws' # <<>> /\ ws'[Len(ws')] = Newest'
      BY <1>9, <2>4
    <3> QED BY <1>1, <1>4, <2>2, <2>4, <3>1, <3>2, <3>3, <3>4 DEF FinalInv
  <2> QED BY <2>1, <2>3, <2>4 DEF TypedInv
<1> QED BY <1>6, <1>7, <1>10, <1>11, <1>12, <1>13

\* Steps that leave the bars where they are.
LEMMA QuietStepInv ==
  ASSUME FeedInv, UNCHANGED <<feed, market, kept, bars, ws, job, tried, pending, missed>>,
         fpc' = fpc \/ (fpc = "signal" /\ fpc' = "idle"), SourceInv'
  PROVE  FeedInv'
<1>1. UNCHANGED <<Rows, RowTimes, Held, HeldTimes, Newest, Reached>>
  BY DEF Rows, RowTimes, Held, HeldTimes, Newest, Reached, InHand
<1>2. TypedInv' /\ CacheInv'
  BY <1>1 DEF FeedInv, TypedInv, CacheInv
<1>3. WsInv'
  BY <1>1 DEF FeedInv, WsInv
<1>4. HandInv'
  BY <1>1 DEF FeedInv, HandInv
<1>5. GapInv'
  BY <1>1 DEF FeedInv, GapInv
<1>6. FinalInv'
  BY <1>1 DEF FeedInv, FinalInv
<1> QED BY <1>2, <1>3, <1>4, <1>5, <1>6 DEF FeedInv

\* A message that repeats the newest row.
LEMMA RepeatInv ==
  ASSUME FeedInv, Repeat
  PROVE  FeedInv'
<1> USE DEF FeedInv
<1>1. /\ UNCHANGED <<feed, market, kept, linked, ready, bars, fpc, job, tried, pending, missed>>
      /\ linked /\ ws = <<>> /\ ws' = Append(ws, Newest)
  BY DEF Repeat, Push, cacheVars, gapVars, marketVars
<1>2. bars # <<>> /\ feed = "binance"
  BY <1>1 DEF SourceInv, TypedInv
<1>3. UNCHANGED <<Rows, RowTimes, Held, HeldTimes, Newest, Reached>>
  BY <1>1 DEF Rows, RowTimes, Held, HeldTimes, Newest, Reached, InHand
<1>4. Newest \in Bar /\ Newest.ts \in RowTimes /\ Reached.ts <= Newest.ts
  BY <1>2, SourceFacts, ReachedFacts
<1>5. ws' \in Seq(Bar) /\ Len(ws') = 1 /\ ws'[1] = Newest /\ ws' # <<>>
  <2>1. ws \in Seq(Bar) /\ Len(ws) = 0
    BY <1>1, EmptySeq DEF TypedInv
  <2>2. ws' \in Seq(Bar) /\ Len(ws') = 0 + 1 /\ ws'[0 + 1] = Newest /\ ws' # <<>>
    BY <1>1, <1>4, <2>1, AppendProperties
  <2> QED BY <2>2
<1>6. TypedInv' /\ SourceInv' /\ CacheInv'
  BY <1>1, <1>2, <1>3, <1>5 DEF TypedInv, SourceInv, CacheInv
<1>7. WsInv'
  BY <1>1, <1>3, <1>4, <1>5 DEF WsInv
<1>8. HandInv'
  BY <1>1, <1>3 DEF HandInv
<1>9. GapInv'
  BY <1>1, <1>3 DEF GapInv
<1>10. FinalInv'
  <2>1. \A i \in 1 .. Len(ws') : ~(i + 1 \in 1 .. Len(ws'))
    BY <1>5
  <2>2. kept => Reached = Newest
    BY <1>1, <1>2 DEF FinalInv
  <2>3. kept => (Reached.ts < ws'[1].ts => Reached \in Rows)
    BY <1>4, <1>5, <2>2, SourceFacts
  <2> QED BY <1>1, <1>2, <1>3, <1>5, <2>1, <2>3 DEF FinalInv
<1> QED BY <1>6, <1>7, <1>8, <1>9, <1>10

\* The cache is filled with the newest rows (Warm, Load).
LEMMA FilledInv ==
  ASSUME FeedInv, Warm \/ Load
  PROVE  FeedInv'
<1> USE DEF FeedInv
<1>1. /\ UNCHANGED <<feed, market, kept, linked, ws, job, tried, pending, missed>>
      /\ bars' = LastN(market, BarCount)
      /\ fpc = "idle" /\ fpc' \in {"idle", "signal"} /\ ws = <<>> /\ ~linked
      /\ tried = NoHole /\ pending = NoHole /\ (feed = "mt5" => ready')
  BY DEF Warm, Load, cacheVars, gapVars, marketVars, SourceInv, TypedInv
<1>2. market \in Seq(Bar) /\ market # <<>> /\ Ordered(market) /\ BarCount \in Nat \ {0}
  BY CountAssumption DEF TypedInv, SourceInv
<1>3. LatestOf(bars', Rows) /\ Last(bars') = Newest
  BY <1>1, <1>2, AllIsLatest, CutIsLatest DEF Rows, Newest
<1>4. UNCHANGED <<Rows, RowTimes, Newest>> /\ Reached' = Last(bars')
  BY <1>1 DEF Rows, RowTimes, Newest, Reached, InHand
<1>5. bars' \in Seq(Bar) /\ bars' # <<>> /\ Ordered(bars') /\ Held' \subseteq Rows
      /\ \A b \in Rows : bars'[1].ts <= b.ts => b \in Held'
  BY <1>3 DEF LatestOf, Held
<1>6. /\ Newest \in Bar /\ Newest.ts \in Nat /\ Newest.ts > 0 /\ Newest.ts \in RowTimes
      /\ \A t \in RowTimes : t \in Nat /\ \E b \in Rows : b.ts = t
  BY SourceFacts DEF RowTimes, Times
<1>7. TypedInv' /\ SourceInv'
  BY <1>1, <1>4, <1>5 DEF TypedInv, SourceInv
<1>8. CacheInv'
  BY <1>4, <1>5 DEF CacheInv, HeldTimes, RowTimes, Times
<1>9. WsInv'
  <2>1. Len(ws') = 0
    BY <1>1, EmptySeq
  <2> QED BY <2>1 DEF WsInv
<1>10. HandInv'
  BY <1>1, <1>3, <1>4, <1>6 DEF HandInv, NoHole
<1>11. GapInv'
  <2>1. \A t \in RowTimes : bars'[1].ts <= t => t \in HeldTimes'
    BY <1>5, <1>6 DEF HeldTimes, Times
  <2> QED BY <1>1, <1>4, <2>1 DEF GapInv
<1>12. FinalInv'
  <2>1. \A i \in 1 .. Len(ws') : FALSE
    BY <1>1, EmptySeq
  <2> QED BY <1>1, <1>3, <1>4, <1>5, <1>6, <2>1 DEF FinalInv
<1> QED BY <1>7, <1>8, <1>9, <1>10, <1>11, <1>12

\* A poll: the newest bar has changed, or a new one is taken in hand.
LEMMA PollInv ==
  ASSUME FeedInv, PollBars
  PROVE  FeedInv'
<1> USE DEF FeedInv
<1>1. /\ UNCHANGED <<feed, market, kept, linked, ready, ws, tried, pending, missed>>
      /\ feed = "mt5" /\ fpc = "idle" /\ ready /\ ws = <<>> /\ job = NoJob
      /\ bars # <<>>
  BY DEF PollBars, cacheVars, gapVars, marketVars, SourceInv
<1>2. UNCHANGED <<Rows, RowTimes, Newest>> /\ Reached = Last(bars) /\ Reached' = Last(bars')
  BY <1>1 DEF Rows, RowTimes, Newest, Reached, InHand
<1>3. /\ Newest \in Bar /\ Newest.ts \in Nat /\ Newest.ts > 0 /\ Newest.ts \in RowTimes /\ Newest \in Rows
      /\ \A t \in RowTimes : t \in Nat /\ t <= Newest.ts
  BY SourceFacts
<1>4. /\ Last(bars) \in Bar /\ Last(bars).ts \in Nat /\ Last(bars).ts \in RowTimes
      /\ \A b \in Held : b \in Bar /\ b.ts \in Nat
  BY <1>1, CacheFacts
<1>5. Len(ws') = 0
  BY <1>1, EmptySeq
<1>6. CASE /\ Newest.ts = Last(bars).ts
           /\ bars' = [bars EXCEPT ![Len(bars)] = Newest]
           /\ fpc' = "signal" /\ job' = job
  <2>1. /\ bars' \in Seq(Bar) /\ bars' # <<>> /\ Ordered(bars') /\ Last(bars') = Newest /\ bars'[1].ts = bars[1].ts
        /\ \A a \in Held' : a = Newest \/ (a \in Held /\ a.ts < Newest.ts)
        /\ HeldTimes' = HeldTimes
    BY <1>1, <1>3, <1>6, ReplacedLast DEF TypedInv, CacheInv, Held, HeldTimes
  <2>2. TypedInv' /\ SourceInv' /\ CacheInv'
    BY <1>1, <1>2, <1>6, <2>1 DEF TypedInv, SourceInv, CacheInv
  <2>3. WsInv'
    BY <1>5 DEF WsInv
  <2>4. HandInv'
    BY <1>1, <1>2, <1>6, <2>1 DEF HandInv
  <2>5. GapInv'
    BY <1>1, <1>2, <1>6, <2>1 DEF GapInv
  <2>6. FinalInv'
    BY <1>1, <1>2, <1>3, <1>6, <2>1 DEF FinalInv
  <2> QED BY <2>2, <2>3, <2>4, <2>5, <2>6
<1>7. CASE /\ Newest.ts # Last(bars).ts /\ UNCHANGED bars /\ fpc' = "gap"
           /\ job' = [new    |-> Newest,
                      closed |-> LET rows == LastN(market, 2) IN
                                 IF rows[1].ts = Last(bars).ts THEN rows[1] ELSE NoBar,
                      hole   |-> [lo |-> Last(bars).ts, hi |-> Newest.ts]]
  <2>1. Last(bars).ts < Newest.ts
    BY <1>3, <1>4, <1>7
  <2>2. LastN(market, 2) \in Seq(Bar) /\ LastN(market, 2)[1] \in Rows
        /\ (Len(market) > 1 => LastN(market, 2)[1] = market[Len(market) - 1])
    <3>1. market \in Seq(Bar) /\ market # <<>> /\ 2 \in Nat \ {0}
      BY DEF TypedInv
    <3>2. PICK k \in 0 .. Len(market) - 1 :
            /\ LastN(market, 2) \in Seq(Bar) /\ LastN(market, 2) # <<>>
            /\ Len(LastN(market, 2)) = Len(market) - k
            /\ \A i \in 1 .. Len(market) - k : LastN(market, 2)[i] = market[k + i]
            /\ k = IF 2 < Len(market) THEN Len(market) - 2 ELSE 0
      BY <3>1, CutToLatest
    <3>3. Len(market) \in Nat \ {0}
      BY <3>1
    <3>4. 1 \in 1 .. Len(market) - k /\ k + 1 \in 1 .. Len(market)
      BY <3>2, <3>3
    <3>5. LastN(market, 2)[1] = market[k + 1] /\ market[k + 1] \in Rows
      BY <3>1, <3>2, <3>4, InRange DEF Rows
    <3>6. ASSUME Len(market) > 1 PROVE k + 1 = Len(market) - 1
      <4>1. k = IF 2 < Len(market) THEN Len(market) - 2 ELSE 0
        BY <3>2
      <4>2. PICK n : n = Len(market)
        OBVIOUS
      <4>3. n \in Nat /\ n > 1 /\ k = IF 2 < n THEN n - 2 ELSE 0
        BY <3>3, <3>6, <4>1, <4>2
      <4>4. k + 1 = n - 1
        BY <4>3
      <4> QED BY <4>2, <4>4
    <3> QED BY <3>2, <3>5, <3>6
  <2>3. PICK closed : /\ closed = (IF LastN(market, 2)[1].ts = Last(bars).ts
                                   THEN LastN(market, 2)[1] ELSE NoBar)
                      /\ job' = [new |-> Newest, closed |-> closed,
                                 hole |-> [lo |-> Last(bars).ts, hi |-> Newest.ts]]
    BY <1>7
  <2>4. closed \in Bar /\ (closed = NoBar \/ closed.ts = Last(bars).ts)
    BY <2>2, <2>3, SourceFacts DEF NoBar, Bar
  <2>5. UNCHANGED <<Held, HeldTimes>> /\ Last(bars') = Last(bars)
    BY <1>7 DEF Held, HeldTimes
  <2>6. TypedInv' /\ SourceInv' /\ CacheInv'
    <3>1. job' \in [new : Bar, closed : Bar, hole : Hole]
      BY <1>3, <1>4, <2>3, <2>4 DEF Hole
    <3> QED BY <1>1, <1>2, <1>7, <2>5, <3>1 DEF TypedInv, SourceInv, CacheInv
  <2>7. WsInv'
    BY <1>5 DEF WsInv
  <2>8. HandInv'
    <3>1. /\ job'.new = Newest /\ job'.closed = closed
          /\ job'.hole.lo = Last(bars).ts /\ job'.hole.hi = Newest.ts
      BY <2>3
    <3>2. tried.lo < Last(bars).ts /\ pending = NoHole
      BY <1>1, <1>2 DEF HandInv, SourceInv
    <3> HIDE DEF FeedInv
    <3> QED BY <1>1, <1>2, <1>3, <1>4, <1>7, <2>1, <2>4, <2>5, <3>1, <3>2 DEF HandInv
  <2>9. GapInv'
    BY <1>1, <1>2, <1>7, <2>5 DEF GapInv
  <2>10. FinalInv'
    <3>1. kept => closed \in Rows
      <4> SUFFICES ASSUME kept PROVE closed \in Rows
        OBVIOUS
      <4>1. Len(market) > 1 /\ Last(bars).ts = market[Len(market) - 1].ts
        BY <1>1, <1>7 DEF FinalInv
      <4> QED BY <2>2, <2>3, <4>1
    <3> QED BY <1>1, <1>2, <1>7, <2>3, <2>5, <3>1 DEF FinalInv
  <2> QED BY <2>6, <2>7, <2>8, <2>9, <2>10
<1> QED BY <1>6, <1>7 DEF PollBars

\* The deeper read of the poll thread reaches back to the hole, even if a bar
\* ended in the middle of it, unless it was cut to the size of the cache.
LEMMA DeepEnough ==
  ASSUME FeedInv, feed = "mt5", fpc = "gap", bars # <<>>, Depth(job.hole) <= BarCount,
         NEW b \in Rows, job.hole.lo < b.ts, b.ts < job.hole.hi
  PROVE  b \in Range(LastN(market, IF Depth(job.hole) < BarCount THEN Depth(job.hole) ELSE BarCount))
<1> DEFINE lo == job.hole.lo
           hi == job.hole.hi
           n  == Depth(job.hole)
           N  == Len(market)
<1>1. market \in Seq(Bar) /\ market # <<>> /\ Ordered(market) /\ N \in Nat \ {0}
  BY InRange DEF FeedInv, TypedInv, SourceInv
<1>2. lo \in Nat /\ hi \in Nat /\ b.ts \in Nat /\ hi = job.new.ts
  BY <1>1, InRange DEF FeedInv, TypedInv, HandInv, Hole, Rows
<1>3. n \in Nat \ {0} /\ n = hi - lo + 1
  BY <1>2 DEF Depth
<1>4. (IF Depth(job.hole) < BarCount THEN Depth(job.hole) ELSE BarCount) = n
  BY <1>3, CountAssumption
<1> HIDE DEF n
<1>5. PICK i \in 1 .. N : b = market[i]
  BY <1>1, InRange DEF Rows
<1>6. PICK q \in 1 .. N : q >= N - 1 /\ market[q].ts = hi
  <2>1. hi = Newest.ts \/ (N > 1 /\ hi = market[N - 1].ts)
    BY <1>2 DEF FeedInv, HandInv
  <2>2. Newest = market[N] /\ N \in 1 .. N
    BY <1>1, InRange DEF Newest
  <2>3. N > 1 => N - 1 \in 1 .. N
    BY <1>1
  <2> QED BY <1>1, <2>1, <2>2, <2>3
<1>7. i <= q
  BY <1>1, <1>2, <1>5, <1>6 DEF Ordered
<1>8. q - i <= hi - b.ts
  BY <1>1, <1>5, <1>6, <1>7, RowsApart
<1>9. PICK k \in 0 .. N - 1 :
         /\ LastN(market, n) \in Seq(Bar) /\ LastN(market, n) # <<>>
         /\ Len(LastN(market, n)) = N - k
         /\ \A j \in 1 .. N - k : LastN(market, n)[j] = market[k + j]
         /\ k = IF n < N THEN N - n ELSE 0
  BY <1>1, <1>3, CutToLatest
<1>10. k < i
  <2>1. k = 0 \/ k = N - n
    BY <1>9
  <2>2. q \in Nat /\ i \in Nat /\ i >= 1 /\ N \in Nat /\ k \in Int
    BY <1>1, <1>5, <1>6, <1>9
  <2>3. PICK l, h, t : l = lo /\ h = hi /\ t = b.ts
    OBVIOUS
  <2>4. l \in Nat /\ h \in Nat /\ t \in Nat /\ l < t /\ t < h /\ n = h - l + 1 /\ q - i <= h - t
    BY <1>2, <1>3, <1>8, <2>3
  <2>5. PICK m, p : m = N /\ p = n
    OBVIOUS
  <2>6. /\ m \in Nat /\ p = h - l + 1 /\ q >= m - 1 /\ (k = 0 \/ k = m - p)
    BY <1>6, <2>1, <2>2, <2>4, <2>5
  <2> QED BY <2>2, <2>4, <2>6
<1>11. i - k \in 1 .. N - k /\ k + (i - k) = i
  BY <1>1, <1>5, <1>9, <1>10
<1>12. LastN(market, n)[i - k] = b
  BY <1>5, <1>9, <1>11
<1>13. b \in Range(LastN(market, n))
  BY <1>9, <1>11, <1>12, InRange
<1> QED BY <1>4, <1>13

\* The poll thread takes the bar in hand over, with the bars missing before it.
LEMMA FetchMissingInv ==
  ASSUME FeedInv, FetchMissing
  PROVE  FeedInv'
<1> DEFINE lo   == Last(bars).ts
           hi   == job.new.ts
           base == IF job.closed = NoBar THEN bars ELSE [bars EXCEPT ![Len(bars)] = job.closed]
           deep == LastN(market, IF Depth(job.hole) < BarCount THEN Depth(job.hole) ELSE BarCount)
           needed == Jump(job.hole) /\ tried # job.hole
<1>1. /\ UNCHANGED <<feed, market, kept, linked, ready, ws, pending>>
      /\ feed = "mt5" /\ fpc = "gap" /\ fpc' = "signal" /\ job' = NoJob /\ ws = <<>> /\ pending = NoHole
      /\ bars # <<>> /\ tried' = IF needed THEN job.hole ELSE tried
  BY DEF FetchMissing, marketVars, SourceInv, FeedInv
<1>0. PICK ok \in BOOLEAN :
        /\ bars' = TakeOver(IF needed /\ ok THEN Between(deep, job.hole) ELSE {})
        /\ missed' = (missed \/ ~ok \/ Depth(job.hole) > BarCount)
  BY DEF FetchMissing
<1>2. PICK missing :
        /\ missing = IF needed /\ ok THEN Between(deep, job.hole) ELSE {}
        /\ bars' = TakeOver(missing)
        /\ missed' = (missed \/ ~ok \/ Depth(job.hole) > BarCount)
  BY <1>0, Zenon
<1>3. /\ job.hole.lo = lo /\ job.hole.hi = hi /\ lo < hi /\ hi \in RowTimes
      /\ lo \in Nat /\ hi \in Nat /\ job.new \in Bar /\ job.closed \in Bar /\ job.hole \in Hole
      /\ job.closed = NoBar \/ job.closed.ts = lo
      /\ tried.lo < lo /\ tried \in Hole
  <2>1. job.new \in Bar /\ job.closed \in Bar /\ job.hole \in Hole /\ tried \in Hole
    BY DEF FeedInv, TypedInv
  <2>2. Reached = Last(bars)
    BY <1>1 DEF Reached, InHand
  <2>3. lo \in Nat
    BY <1>1, CacheFacts DEF FeedInv
  <2> QED BY <1>1, <2>1, <2>2, <2>3, BarTimes DEF FeedInv, HandInv
<1>4. UNCHANGED <<Rows, RowTimes, Newest>> /\ Reached' = Last(bars')
  BY <1>1 DEF Rows, RowTimes, Newest, Reached, InHand
<1>5. bars \in Seq(Bar) /\ Ordered(bars)
  BY <1>1 DEF FeedInv, TypedInv, CacheInv
<1>6. /\ base \in Seq(Bar) /\ base # <<>> /\ Ordered(base) /\ Last(base).ts = lo
      /\ base[1].ts = bars[1].ts
      /\ \A a \in Range(base) : a = Last(base) \/ (a \in Held /\ a.ts < lo)
      /\ Times(Range(base)) = HeldTimes
      /\ job.closed # NoBar => Last(base) = job.closed
  <2>1. CASE job.closed = NoBar
    <3>1. \A a \in Held : a = Last(bars) \/ a.ts < lo
      BY <1>1, CacheFacts DEF OnePerTime, FeedInv
    <3> QED BY <1>1, <1>5, <2>1, <3>1 DEF Held, HeldTimes
  <2>2. CASE job.closed # NoBar
    <3>1. base = [bars EXCEPT ![Len(bars)] = job.closed]
      BY <2>2
    <3>2. job.closed \in Bar /\ job.closed.ts = Last(bars).ts
      BY <1>3, <2>2
    <3> HIDE DEF base
    <3>3. /\ base \in Seq(Bar) /\ base # <<>> /\ Ordered(base) /\ Last(base) = job.closed
          /\ base[1].ts = bars[1].ts
          /\ \A a \in Range(base) : a = job.closed \/ (a \in Range(bars) /\ a.ts < job.closed.ts)
          /\ Times(Range(base)) = Times(Range(bars))
      BY <1>1, <1>5, <3>1, <3>2, ReplacedLast
    <3> QED BY <3>2, <3>3 DEF Held, HeldTimes
  <2> QED BY <2>1, <2>2
<1>7. /\ missing \in SUBSET Bar /\ IsFiniteSet(missing) /\ OnePerTime(missing)
      /\ \A b \in missing : b \in Rows /\ lo < b.ts /\ b.ts < hi
  <2>1. CASE needed /\ ok
    <3>1. market \in Seq(Bar) /\ market # <<>> /\ Ordered(market)
      BY DEF FeedInv, TypedInv, SourceInv
    <3>2. Depth(job.hole) \in Nat \ {0}
      BY <1>3 DEF Depth
    <3>3. LatestOf(deep, Rows)
      BY <3>1, <3>2, AllIsLatest, CutIsLatest, CountAssumption DEF Rows
    <3> HIDE DEF deep
    <3>4. deep \in Seq(Bar) /\ Ordered(deep) /\ Range(deep) \subseteq Rows
      BY <3>3 DEF LatestOf
    <3>5. missing = Between(deep, job.hole)
      BY <1>2, <2>1
    <3> HIDE DEF needed
    <3>6. \A b \in missing : lo < b.ts /\ b.ts < hi
      BY <1>3, <3>5 DEF Between
    <3> QED BY <1>3, <3>4, <3>5, <3>6, BetweenRows
  <2>2. CASE ~(needed /\ ok)
    <3>1. missing = {}
      BY <1>2, <2>2
    <3> QED BY <3>1, FS_EmptySet DEF OnePerTime
  <2> QED BY <2>1, <2>2
<1> DEFINE rows == Range(base) \cup missing
<1>8. LatestOf(bars', rows \cup {job.new}) /\ Last(bars') = job.new
  <2>1. {b \in missing : b.ts \notin Times(Range(base))} = missing
    <3>1. \A t \in HeldTimes : t <= lo /\ t \in Nat
      BY <1>1, CacheFacts DEF HeldTimes, Times, FeedInv
    <3> QED BY <1>3, <1>6, <1>7, <3>1, BarTimes
  <2>2. bars' = LastN(Append(Merge(base, missing), job.new), BarCount)
    BY <1>2 DEF TakeOver
  <2> HIDE DEF base, lo, hi
  <2>3. LatestOf(Merge(base, missing), rows)
    BY <1>6, <1>7, <2>1, MergeIsLatest
  <2>4. Last(Merge(base, missing)) \in rows
    <3>1. Merge(base, missing) \in Seq(Bar) /\ Merge(base, missing) # <<>>
          /\ Range(Merge(base, missing)) \subseteq rows
      BY <2>3 DEF LatestOf
    <3> QED BY <3>1, InRange
  <2>5. \A b \in rows : b.ts < hi
    <3>1. \A b \in Range(base) : b.ts = lo \/ b.ts < lo
      BY <1>6
    <3>2. \A b \in rows : b \in Bar /\ b.ts \in Nat
      BY <1>6, <1>7, InRange, BarTimes
    <3>3. \A b \in rows : b.ts = lo \/ b.ts < lo \/ b.ts < hi
      BY <1>7, <3>1
    <3> HIDE DEF rows
    <3> QED BY <1>3, <3>2, <3>3
  <2>6. Last(Merge(base, missing)).ts < job.new.ts
    BY <2>4, <2>5 DEF hi
  <2>7. PICK merged : merged = Merge(base, missing)
    OBVIOUS
  <2>8. PICK all : all = Append(merged, job.new)
    OBVIOUS
  <2>9. LatestOf(merged, rows) /\ Last(merged).ts < job.new.ts /\ job.new \in Bar
    BY <1>3, <2>3, <2>6, <2>7
  <2> HIDE DEF rows
  <2>10. LatestOf(all, rows \cup {job.new}) /\ Last(all) = job.new
    BY <2>8, <2>9, AppendIsLatest
  <2>11. bars' = LastN(all, BarCount)
    BY <2>2, <2>7, <2>8
  <2> QED BY <2>10, <2>11, CutIsLatest, CountAssumption
<1>9. /\ bars' \in Seq(Bar) /\ bars' # <<>> /\ Ordered(bars')
      /\ Held' \subseteq rows \cup {job.new}
      /\ \A b \in rows \cup {job.new} : bars'[1].ts <= b.ts => b \in Held'
  BY <1>8 DEF LatestOf, Held
<1>10. \A t \in HeldTimes : t \in Nat /\ t <= lo /\ t \in RowTimes /\ bars[1].ts <= t
  BY <1>1, CacheFacts DEF HeldTimes, Times, FeedInv
<1>11. TypedInv' /\ SourceInv'
  <2>1. NoJob \in [new : Bar, closed : Bar, hole : Hole]
    BY DEF NoJob, NoBar, NoHole, Bar, Hole
  <2>2. tried' \in Hole /\ missed' \in BOOLEAN
    BY <1>1, <1>2, <1>3 DEF FeedInv, TypedInv
  <2> QED BY <1>1, <1>4, <1>9, <2>1, <2>2 DEF FeedInv, TypedInv, SourceInv
<1>12. CacheInv'
  <2>1. \A b \in Rows : b.ts \in RowTimes
    BY DEF RowTimes, Times
  <2>2. \A b \in Range(base) : b.ts \in RowTimes
    BY <1>6, <1>10 DEF Times
  <2>3. \A b \in Held' : b.ts \in RowTimes
    BY <1>3, <1>7, <1>9, <2>1, <2>2
  <2> QED BY <1>4, <1>9, <2>3 DEF CacheInv, HeldTimes, Times
<1>13. WsInv'
  BY <1>1, EmptySeq DEF WsInv
<1>14. HandInv'
  <2>1. tried'.lo < hi
    BY <1>1, <1>3 DEF Hole
  <2> QED BY <1>1, <1>4, <1>8, <2>1 DEF HandInv
<1>15. GapInv'
  <2> SUFFICES ASSUME ~missed', NEW t \in RowTimes, bars'[1].ts <= t, t <= hi PROVE t \in HeldTimes'
    BY <1>1, <1>4, <1>8 DEF GapInv
  <2>1. ~missed /\ ok /\ ~(Depth(job.hole) > BarCount)
    BY <1>2
  <2>2. PICK b \in Rows : b.ts = t /\ t \in Nat
    BY SourceFacts DEF RowTimes, Times, FeedInv
  <2>3. SUFFICES \E a \in rows \cup {job.new} : a.ts = t
    BY <1>9 DEF HeldTimes, Times
  <2>4. CASE t = hi
    BY <2>4
  <2>5. CASE t <= lo
    <3>1. bars[1].ts <= bars'[1].ts /\ bars[1].ts \in Nat /\ bars'[1].ts \in Nat
      <4>1. bars'[1] \in rows \cup {job.new} /\ bars'[1].ts \in Nat
        BY <1>9, InRange DEF Held
      <4>2. bars[1].ts \in Nat /\ bars[1].ts <= lo
        BY <1>1, CacheFacts DEF FeedInv
      <4>3. \A a \in Range(base) : bars[1].ts <= a.ts
        BY <1>6, <1>10 DEF Times
      <4>4. PICK f, a : f = bars[1].ts /\ a = bars'[1]
        OBVIOUS
      <4>5. a \in rows \cup {job.new} /\ a.ts \in Nat /\ f \in Nat /\ f <= lo
        BY <4>1, <4>2, <4>4
      <4>6. a \in Range(base) => f <= a.ts
        BY <4>3, <4>4
      <4>7. a \in missing => lo < a.ts
        BY <1>7
      <4>8. a = job.new => lo < a.ts
        BY <1>3
      <4>9. lo \in Nat /\ (f <= a.ts \/ lo < a.ts)
        BY <1>3, <4>5, <4>6, <4>7, <4>8
      <4>10. f <= a.ts
        <5> HIDE DEF lo
        <5> QED BY <4>5, <4>9
      <4> QED BY <4>4, <4>5, <4>10
    <3>2. bars[1].ts <= t
      BY <2>2, <3>1
    <3>3. t \in HeldTimes
      BY <1>1, <2>1, <2>5, <3>2 DEF FeedInv, GapInv
    <3> QED BY <1>6, <3>3 DEF Times
  <2>6. CASE lo < t /\ t < hi
    <3>1. Jump(job.hole)
      BY <1>3, <2>2, <2>6 DEF Jump
    <3>2. tried # job.hole
      BY <1>3
    <3>3. missing = Between(deep, job.hole)
      BY <1>2, <2>1, <3>1, <3>2
    <3>4. b \in Range(deep)
      <4>1. Depth(job.hole) <= BarCount
        BY <1>3, <2>1, CountAssumption DEF Depth
      <4> QED BY <1>1, <1>3, <2>2, <2>6, <4>1, DeepEnough
    <3>5. b \in missing
      BY <1>3, <2>2, <2>6, <3>3, <3>4 DEF Between
    <3> QED BY <2>2, <3>5
  <2>7. t = hi \/ t <= lo \/ (lo < t /\ t < hi)
    <3> HIDE DEF lo, hi
    <3> QED BY <1>3, <2>2
  <2> QED BY <2>4, <2>5, <2>6, <2>7
<1>16. FinalInv'
  <2> SUFFICES ASSUME kept PROVE FinalInv'
    BY <1>1 DEF FinalInv
  <2>1. job.closed \in Rows
    BY <1>1 DEF FeedInv, FinalInv
  <2>2. Last(base) \in Rows
    <3>1. job.closed # NoBar
      BY <2>1, SourceFacts DEF NoBar, FeedInv
    <3> QED BY <1>6, <2>1, <3>1
  <2>3. \A b \in Held : b.ts < lo => b \in Rows
    BY <1>1 DEF FeedInv, FinalInv
  <2>4. \A b \in rows : b \in Rows
    BY <1>6, <1>7, <2>2, <2>3
  <2>5. \A b \in Held' : b.ts < hi => b \in Rows
    <3> SUFFICES ASSUME NEW b \in Held', b.ts < hi PROVE b \in Rows
      OBVIOUS
    <3>1. b \in rows \/ b = job.new
      BY <1>9
    <3>2. b # job.new
      BY <1>3
    <3> QED BY <2>4, <3>1, <3>2
  <2>6. \/ hi = Newest.ts
        \/ Len(market) > 1 /\ hi = market[Len(market) - 1].ts
    BY <1>1 DEF FeedInv, HandInv
  <2> QED BY <1>1, <1>4, <1>8, <2>5, <2>6 DEF FinalInv
<1> QED BY <1>11, <1>12, <1>13, <1>14, <1>15, <1>16 DEF FeedInv

\* A message is taken in hand, with the hole to read first, if any.
LEMMA OnKlineInv ==
  ASSUME FeedInv, OnKline
  PROVE  FeedInv'
<1> DEFINE bar == ws[1]
           lo  == Last(bars).ts
<1>1. /\ UNCHANGED <<feed, market, kept, linked, ready, bars, missed>>
      /\ feed = "binance" /\ fpc = "idle" /\ ws # <<>> /\ bars # <<>> /\ ws' = Tail(ws)
  BY DEF OnKline, cacheVars, marketVars, FeedInv, SourceInv
<1>2. UNCHANGED <<Rows, RowTimes, Held, HeldTimes, Newest>> /\ Reached = Last(bars)
  BY <1>1 DEF Rows, RowTimes, Held, HeldTimes, Newest, Reached, InHand
<1>3. /\ Len(ws) \in Nat \ {0} /\ 1 \in 1 .. Len(ws) /\ Head(ws) = bar
      /\ ws' \in Seq(Bar) /\ Len(ws') = Len(ws) - 1
      /\ \A i \in 1 .. Len(ws') : i + 1 \in 1 .. Len(ws) /\ ws'[i] = ws[i + 1]
      /\ ws' = <<>> <=> Len(ws) = 1
  <2>1. ws \in Seq(Bar)
    BY DEF FeedInv, TypedInv
  <2>2. Len(ws) \in Nat \ {0} /\ Head(ws) = ws[1]
    BY <1>1, <2>1
  <2>3. /\ Tail(ws) \in Seq(Bar) /\ Len(Tail(ws)) = Len(ws) - 1
        /\ \A i \in 1 .. Len(Tail(ws)) : Tail(ws)[i] = ws[i + 1]
    BY <1>1, <2>1, HeadTailProperties
  <2>4. Tail(ws) = <<>> <=> Len(Tail(ws)) = 0
    BY <2>3, EmptySeq
  <2>5. \A i \in 1 .. Len(Tail(ws)) : i + 1 \in 1 .. Len(ws)
    BY <2>2, <2>3
  <2>6. Tail(ws) = <<>> <=> Len(ws) = 1
    BY <2>2, <2>3, <2>4
  <2> QED BY <1>1, <2>2, <2>3, <2>5, <2>6
<1>4. bar \in Bar /\ bar.ts \in Nat /\ bar.ts \in RowTimes /\ lo \in Nat /\ lo <= bar.ts
  BY <1>1, <1>2, <1>3, InRange, CacheFacts DEF FeedInv, TypedInv, WsInv
<1>5. /\ pending # NoHole => missed /\ pending.lo < pending.hi /\ pending.hi <= lo
      /\ tried.lo < lo /\ tried \in Hole /\ pending \in Hole
  BY <1>1, <1>2 DEF FeedInv, HandInv, TypedInv
<1>6. PICK hole \in Hole :
        /\ job' = [new |-> bar, closed |-> NoBar, hole |-> hole]
        /\ fpc' \in {"gap", "append"} /\ tried' \in Hole /\ tried'.lo < bar.ts
        /\ pending' \in {pending, NoHole}
        /\ fpc' = "gap" => /\ hole.lo < hole.hi /\ hole.hi <= bar.ts
                           /\ ~missed => hole.lo = lo /\ hole.hi = bar.ts
        /\ fpc' = "append" => bar.ts <= lo + 1
  <2>1. tried.lo < bar.ts /\ (pending # NoHole => pending.hi <= bar.ts)
    <3>1. tried.lo \in Nat /\ pending.hi \in Nat
      BY <1>5 DEF Hole
    <3> QED BY <1>4, <1>5, <3>1
  <2>2. PICK hole : hole = [lo |-> lo, hi |-> bar.ts]
    OBVIOUS
  <2>3. hole \in Hole /\ hole.lo = lo /\ hole.hi = bar.ts /\ tried # hole
    BY <1>4, <1>5, <2>2 DEF Hole
  <2>4. CASE /\ pending # NoHole
             /\ job' = [new |-> bar, closed |-> NoBar, hole |-> pending]
             /\ pending' = NoHole /\ fpc' = "gap" /\ tried' = tried
    BY <1>5, <2>1, <2>4
  <2>5. CASE /\ Jump(hole)
             /\ job' = [new |-> bar, closed |-> NoBar, hole |-> hole]
             /\ tried' = hole /\ fpc' = "gap" /\ pending' = pending
    <3>1. lo < bar.ts
      BY <1>4, <2>3, <2>5 DEF Jump
    <3> QED BY <1>4, <2>3, <2>5, <3>1
  <2>6. CASE /\ ~Jump(hole)
             /\ job' = [new |-> bar, closed |-> NoBar, hole |-> NoHole]
             /\ fpc' = "append" /\ tried' = tried /\ pending' = pending
    <3>1. bar.ts <= lo + 1
      BY <1>4, <2>3, <2>6 DEF Jump
    <3>2. NoHole \in Hole
      BY DEF NoHole, Hole
    <3> QED BY <1>5, <2>1, <2>6, <3>1, <3>2
  <2> QED BY <1>3, <2>2, <2>3, <2>4, <2>5, <2>6 DEF OnKline
<1>7. Reached' = bar /\ job'.new = bar /\ job'.hole = hole
  BY <1>1, <1>6 DEF Reached, InHand
<1>8. TypedInv' /\ SourceInv' /\ CacheInv'
  <2>1. job' \in [new : Bar, closed : Bar, hole : Hole] /\ pending' \in Hole
    BY <1>4, <1>5, <1>6 DEF NoBar, Bar, NoHole, Hole
  <2> QED BY <1>1, <1>2, <1>3, <1>6, <2>1 DEF FeedInv, TypedInv, SourceInv, CacheInv
<1>9. WsInv'
  <2>1. \A i, j \in 1 .. Len(ws) : i < j => ws[i].ts <= ws[j].ts
    BY <1>1 DEF FeedInv, WsInv
  <2>2. \A i \in 1 .. Len(ws') : ws'[i].ts \in RowTimes /\ bar.ts <= ws'[i].ts
    <3> SUFFICES ASSUME NEW i \in 1 .. Len(ws') PROVE ws'[i].ts \in RowTimes /\ bar.ts <= ws'[i].ts
      OBVIOUS
    <3>1. i + 1 \in 1 .. Len(ws) /\ ws'[i] = ws[i + 1] /\ 1 < i + 1
      BY <1>3
    <3>2. bar.ts <= ws[i + 1].ts
      BY <1>3, <2>1, <3>1
    <3> QED BY <1>1, <3>1, <3>2 DEF FeedInv, WsInv
  <2>3. \A i, j \in 1 .. Len(ws') : i < j => ws'[i].ts <= ws'[j].ts
    <3> SUFFICES ASSUME NEW i \in 1 .. Len(ws'), NEW j \in 1 .. Len(ws'), i < j
                 PROVE  ws'[i].ts <= ws'[j].ts
      OBVIOUS
    <3>1. i + 1 \in 1 .. Len(ws) /\ ws'[i] = ws[i + 1]
      BY <1>3
    <3>2. j + 1 \in 1 .. Len(ws) /\ ws'[j] = ws[j + 1]
      BY <1>3
    <3>3. i + 1 < j + 1
      BY <1>3
    <3> QED BY <2>1, <3>1, <3>2, <3>3
  <2> QED BY <1>2, <1>7, <2>2, <2>3 DEF WsInv
<1>10. HandInv'
  <2>1. pending' # NoHole => missed /\ pending'.lo < pending'.hi /\ pending'.hi <= bar.ts
    <3>1. pending.hi \in Nat
      BY <1>5 DEF Hole
    <3>2. pending # NoHole => pending.hi <= bar.ts
      BY <1>4, <1>5, <3>1
    <3> QED BY <1>5, <1>6, <3>2
  <2> HIDE DEF bar
  <2> QED BY <1>1, <1>2, <1>4, <1>6, <1>7, <2>1 DEF HandInv
<1>11. GapInv'
  <2>1. \A t \in RowTimes : t \in Nat
    BY SourceFacts DEF FeedInv
  <2>2. fpc' = "append" => \A t \in RowTimes : ~(lo < t /\ t < bar.ts)
    <3> HIDE DEF lo, bar
    <3> QED BY <1>4, <1>6, <2>1
  <2> QED BY <1>1, <1>2, <1>7, <2>2 DEF FeedInv, GapInv
<1>12. FinalInv'
  <2> SUFFICES ASSUME kept PROVE FinalInv'
    BY <1>1 DEF FinalInv
  <2>1. /\ \A b \in Held : b.ts < lo => b \in Rows
        /\ lo < bar.ts => Last(bars) \in Rows
        /\ ws[Len(ws)] = Newest
        /\ \A i \in 1 .. Len(ws) : i + 1 \in 1 .. Len(ws) /\ ws[i].ts < ws[i + 1].ts => ws[i] \in Rows
    BY <1>1, <1>2 DEF FeedInv, FinalInv
  <2>2. ws' = <<>> => bar = Newest
    BY <1>3, <2>1
  <2>3. ws' # <<>> => ws'[Len(ws')] = Newest
    <3> SUFFICES ASSUME ws' # <<>> PROVE ws'[Len(ws')] = Newest
      OBVIOUS
    <3>1. Len(ws') \in 1 .. Len(ws') /\ Len(ws') + 1 = Len(ws)
      BY <1>3
    <3>2. ws'[Len(ws')] = ws[Len(ws') + 1]
      BY <1>3, <3>1
    <3> QED BY <2>1, <3>1, <3>2
  <2>4. ws' # <<>> => (bar.ts < ws'[1].ts => bar \in Rows)
    <3> SUFFICES ASSUME ws' # <<>> PROVE bar.ts < ws'[1].ts => bar \in Rows
      OBVIOUS
    <3>1. 1 \in 1 .. Len(ws')
      BY <1>3
    <3>2. 1 + 1 \in 1 .. Len(ws) /\ ws'[1] = ws[1 + 1]
      BY <1>3, <3>1
    <3> QED BY <1>3, <2>1, <3>2
  <2>5. ASSUME NEW i \in 1 .. Len(ws'), i + 1 \in 1 .. Len(ws'), ws'[i].ts < ws'[i + 1].ts
        PROVE  ws'[i] \in Rows
    <3>1. i + 1 \in 1 .. Len(ws) /\ ws'[i] = ws[i + 1]
      BY <1>3
    <3>2. (i + 1) + 1 \in 1 .. Len(ws) /\ ws'[i + 1] = ws[(i + 1) + 1]
      BY <1>3, <2>5
    <3> QED BY <2>1, <2>5, <3>1, <3>2
  <2> HIDE DEF bar
  <2> QED BY <1>1, <1>2, <1>7, <2>1, <2>2, <2>3, <2>4, <2>5 DEF FinalInv
<1> QED BY <1>8, <1>9, <1>10, <1>11, <1>12 DEF FeedInv

\* The bar in hand is appended, or replaces the last one.
LEMMA AppendBarInv ==
  ASSUME FeedInv, AppendBar
  PROVE  FeedInv'
<1> DEFINE new == job.new
           lo  == Last(bars).ts
<1>1. /\ UNCHANGED <<feed, market, kept, linked, ready, ws, tried, pending, missed>>
      /\ feed = "binance" /\ fpc = "append" /\ fpc' \in {"idle", "signal"} /\ bars # <<>> /\ job' = NoJob
  BY DEF AppendBar, gapVars, marketVars, FeedInv, SourceInv
<1>2. UNCHANGED <<Rows, RowTimes, Newest>> /\ Reached = new /\ Reached' = Last(bars')
  BY <1>1 DEF Rows, RowTimes, Newest, Reached, InHand
<1>3. /\ new \in Bar /\ new.ts \in Nat /\ new.ts \in RowTimes /\ lo \in Nat /\ lo <= new.ts
      /\ bars \in Seq(Bar) /\ Ordered(bars) /\ Last(bars) \in Bar
  BY <1>1, <1>2, ReachedFacts, CacheFacts DEF FeedInv, TypedInv, CacheInv
<1>4. /\ bars' \in Seq(Bar) /\ bars' # <<>> /\ Ordered(bars') /\ Last(bars') = new
      /\ \A b \in Held' : b = new \/ b \in Held
      /\ \A b \in Held' : b.ts < new.ts => b \in Held
      /\ \A b \in Held : bars'[1].ts <= b.ts => b.ts \in HeldTimes'
      /\ bars[1].ts <= bars'[1].ts
  <2>1. CASE new.ts # lo /\ bars' = LastN(Append(bars, new), BarCount)
    <3>1. lo < new.ts
      BY <1>3, <2>1
    <3>2. LatestOf(bars, Held)
      BY <1>1, <1>3, AllIsLatest DEF Held
    <3>3. PICK all : all = Append(bars, new)
      OBVIOUS
    <3>4. LatestOf(all, Held \cup {new}) /\ Last(all) = new
      BY <1>3, <3>1, <3>2, <3>3, AppendIsLatest
    <3>5. LatestOf(bars', Held \cup {new}) /\ Last(bars') = new
      BY <2>1, <3>3, <3>4, CutIsLatest, CountAssumption
    <3>6. /\ bars' \in Seq(Bar) /\ bars' # <<>> /\ Ordered(bars') /\ Held' \subseteq Held \cup {new}
          /\ \A b \in Held : bars'[1].ts <= b.ts => b \in Held'
      BY <3>5 DEF LatestOf, Held
    <3>7. bars[1].ts <= bars'[1].ts
      <4>1. bars'[1] \in Held \cup {new}
        BY <3>6, InRange DEF Held
      <4>2. \A b \in Held : bars[1].ts <= b.ts
        BY <1>1, CacheFacts DEF FeedInv
      <4>3. bars[1].ts \in Nat /\ bars[1].ts <= lo
        BY <1>1, CacheFacts DEF FeedInv
      <4>4. PICK f, l, a : f = bars[1].ts /\ l = lo /\ a = bars'[1]
        OBVIOUS
      <4>5. a \in Held => f <= a.ts
        BY <4>2, <4>4
      <4>6. a = new => f <= a.ts
        <5>1. f \in Nat /\ l \in Nat /\ new.ts \in Nat /\ f <= l /\ l <= new.ts
          BY <1>3, <4>3, <4>4
        <5>2. f <= new.ts
          BY <5>1
        <5> QED BY <5>2
      <4> QED BY <4>1, <4>4, <4>5, <4>6
    <3>8. \A b \in Held' : b.ts < new.ts => b \in Held
      BY <1>3, <3>6
    <3> QED BY <3>5, <3>6, <3>7, <3>8 DEF HeldTimes, Times
  <2>2. CASE new.ts = lo /\ bars' = [bars EXCEPT ![Len(bars)] = new]
    <3>1. /\ bars' \in Seq(Bar) /\ bars' # <<>> /\ Ordered(bars') /\ Last(bars') = new
          /\ bars'[1].ts = bars[1].ts
          /\ \A a \in Range(bars') : a = new \/ (a \in Range(bars) /\ a.ts < new.ts)
          /\ Times(Range(bars')) = Times(Range(bars))
      BY <1>1, <1>3, <2>2, ReplacedLast
    <3>2. bars[1].ts \in Nat
      BY <1>1, CacheFacts DEF FeedInv
    <3>3. \A b \in Held : b.ts \in HeldTimes
      BY DEF HeldTimes, Times
    <3>4. \A b \in Held' : b.ts < new.ts => b \in Held
      BY <1>3, <3>1 DEF Held
    <3> HIDE DEF new
    <3> QED BY <3>1, <3>2, <3>3, <3>4 DEF Held, HeldTimes
  <2>3. CASE new = Last(bars) /\ bars' = bars
    <3>1. bars[1].ts \in Nat
      BY <1>1, CacheFacts DEF FeedInv
    <3> QED BY <1>1, <1>3, <2>3, <3>1 DEF Held, HeldTimes, Times
  <2> QED BY <2>1, <2>2, <2>3 DEF AppendBar, cacheVars
<1>5. TypedInv' /\ SourceInv'
  <2>1. NoJob \in [new : Bar, closed : Bar, hole : Hole]
    BY DEF NoJob, NoBar, NoHole, Bar, Hole
  <2> QED BY <1>1, <1>2, <1>4, <2>1 DEF FeedInv, TypedInv, SourceInv
<1>6. CacheInv'
  <2>1. \A b \in Held' : b.ts \in RowTimes
    BY <1>1, <1>3, <1>4, CacheFacts DEF FeedInv
  <2> QED BY <1>2, <1>4, <2>1 DEF CacheInv, HeldTimes, Times
<1>7. WsInv'
  BY <1>1, <1>2, <1>4 DEF FeedInv, WsInv
<1>8. HandInv'
  BY <1>1, <1>2, <1>4 DEF FeedInv, HandInv
<1>9. GapInv'
  <2> SUFFICES ASSUME ~missed, NEW t \in RowTimes, bars'[1].ts <= t, t <= new.ts PROVE t \in HeldTimes'
    BY <1>1, <1>2, <1>4 DEF GapInv
  <2>1. t \in Nat
    BY SourceFacts DEF FeedInv
  <2>2. new \in Held'
    BY <1>4, InRange DEF Held
  <2>3. CASE t = new.ts
    BY <2>2, <2>3 DEF HeldTimes, Times
  <2>4. CASE t <= lo
    <3>1. bars[1].ts <= t
      <4>1. bars[1].ts \in Nat /\ bars'[1].ts \in Nat
        BY <1>1, <1>4, CacheFacts, InRange DEF FeedInv
      <4> QED BY <1>4, <2>1, <4>1
    <3>2. PICK b \in Held : b.ts = t
      BY <1>1, <2>4, <3>1 DEF FeedInv, GapInv, HeldTimes, Times
    <3> QED BY <1>4, <3>2
  <2>5. CASE lo < t /\ t < new.ts
    BY <1>1, <2>5 DEF FeedInv, GapInv
  <2>6. t = new.ts \/ t <= lo \/ (lo < t /\ t < new.ts)
    <3> HIDE DEF lo, new
    <3> QED BY <1>3, <2>1
  <2> QED BY <2>3, <2>4, <2>5, <2>6
<1>10. FinalInv'
  <2> SUFFICES ASSUME kept PROVE FinalInv'
    BY <1>1 DEF FinalInv
  <2>1. /\ \A b \in Held : b.ts < lo => b \in Rows
        /\ lo < new.ts => Last(bars) \in Rows
        /\ ws = <<>> => new = Newest
        /\ ws # <<>> => ws[Len(ws)] = Newest /\ (new.ts < ws[1].ts => new \in Rows)
        /\ \A i \in 1 .. Len(ws) : i + 1 \in 1 .. Len(ws) /\ ws[i].ts < ws[i + 1].ts => ws[i] \in Rows
    BY <1>1, <1>2 DEF FeedInv, FinalInv
  <2>2. ASSUME NEW b \in Held', b.ts < new.ts PROVE b \in Rows
    <3>1. b \in Held
      BY <1>4, <2>2
    <3>2. b.ts < lo \/ b = Last(bars)
      <4>1. b.ts \in Nat /\ b.ts <= lo /\ OnePerTime(Held) /\ Last(bars) \in Held
        BY <1>1, <3>1, CacheFacts DEF FeedInv
      <4>2. b.ts < lo \/ b.ts = lo
        BY <1>3, <4>1
      <4> QED BY <3>1, <4>1, <4>2 DEF OnePerTime
    <3>3. b = Last(bars) => lo < new.ts
      BY <2>2
    <3> QED BY <2>1, <3>1, <3>2, <3>3
  <2>3. ~(new.ts < new.ts)
    BY <1>3
  <2> HIDE DEF new
  <2> QED BY <1>1, <1>2, <1>4, <2>1, <2>2, <2>3 DEF FinalInv
<1> QED BY <1>5, <1>6, <1>7, <1>8, <1>9, <1>10 DEF FeedInv

\* The read of a hole is answered, or not.
LEMMA FillGapInv ==
  ASSUME FeedInv, FillGap
  PROVE  FeedInv'
<1> DEFINE new     == job.new
           hole    == job.hole
           lo      == Last(bars).ts
           missing == Between(market, hole)
           add     == {b \in missing : b.ts \notin HeldTimes}
<1>1. /\ UNCHANGED <<feed, market, kept, linked, ready, ws, job>>
      /\ feed = "binance" /\ fpc = "gap" /\ fpc' = "append" /\ bars # <<>>
  BY DEF FillGap, marketVars, FeedInv, SourceInv
<1>2. UNCHANGED <<Rows, RowTimes, Newest, Reached>> /\ Reached = new
  BY <1>1 DEF Rows, RowTimes, Newest, Reached, InHand
<1>3. /\ new \in Bar /\ new.ts \in Nat /\ new.ts \in RowTimes /\ lo \in Nat /\ lo <= new.ts
      /\ bars \in Seq(Bar) /\ Ordered(bars) /\ Last(bars) \in Held
      /\ bars[1].ts \in Nat /\ bars[1].ts <= lo /\ Head(bars) = bars[1]
      /\ \A b \in Held : b.ts \in Nat /\ b.ts <= lo /\ bars[1].ts <= b.ts /\ b.ts \in RowTimes
      /\ \A t \in HeldTimes : t <= lo /\ \E b \in Held : b.ts = t
  BY <1>1, <1>2, ReachedFacts, CacheFacts DEF FeedInv, TypedInv, CacheInv, HeldTimes, Times
<1>4. /\ hole \in Hole /\ hole.lo \in Nat /\ hole.hi \in Nat /\ hole.lo < hole.hi /\ hole.hi <= new.ts
      /\ ~missed => hole.lo = lo /\ hole.hi = new.ts
      /\ tried.lo < new.ts /\ tried \in Hole /\ pending \in Hole
      /\ pending # NoHole => missed /\ pending.lo < pending.hi /\ pending.hi <= new.ts
  BY <1>1, <1>2 DEF FeedInv, TypedInv, HandInv, Hole
<1>5. /\ missing \in SUBSET Bar /\ IsFiniteSet(missing) /\ OnePerTime(missing)
      /\ \A b \in missing : b \in Rows /\ b.ts \in Nat /\ hole.lo < b.ts /\ b.ts < hole.hi /\ b.ts \in RowTimes
      /\ \A b \in Rows : hole.lo < b.ts /\ b.ts < hole.hi => b \in missing
  <2>1. market \in Seq(Bar) /\ Ordered(market)
    BY DEF FeedInv, TypedInv, SourceInv
  <2>2. \A b \in Rows : b.ts \in Nat /\ b.ts \in RowTimes
    BY SourceFacts DEF FeedInv
  <2>3. \A b : b \in missing <=> b \in Rows /\ hole.lo < b.ts /\ b.ts < hole.hi
    BY DEF Between, Rows
  <2> HIDE DEF hole
  <2> QED BY <1>4, <2>1, <2>2, <2>3, BetweenRows
<1>6. /\ tried' \in Hole /\ tried'.lo < new.ts /\ pending' \in Hole /\ missed' \in BOOLEAN
      /\ pending' # NoHole => missed' /\ pending'.lo < pending'.hi /\ pending'.hi <= new.ts
      /\ missed => missed'
  <2>1. /\ tried' \in {tried, hole}
        /\ \/ pending' = pending /\ missed' = missed
           \/ pending' = hole /\ missed' = TRUE
    BY DEF FillGap
  <2>2. hole.lo < new.ts
    <3> HIDE DEF hole, new
    <3> QED BY <1>3, <1>4
  <2>3. missed \in BOOLEAN
    BY DEF FeedInv, TypedInv
  <2> HIDE DEF hole, new
  <2>4. tried' \in Hole /\ tried'.lo < new.ts
    BY <1>4, <2>1, <2>2
  <2>5. pending' \in Hole /\ missed' \in BOOLEAN /\ (missed => missed')
    <3>1. CASE pending' = pending /\ missed' = missed
      BY <1>4, <2>3, <3>1, Zenon
    <3>2. CASE pending' = hole /\ missed' = TRUE
      BY <1>4, <3>2, Zenon
    <3> QED BY <2>1, <3>1, <3>2
  <2>6. pending' # NoHole => missed'
    BY <1>4, <2>1
  <2>7. pending' # NoHole => pending'.lo < pending'.hi /\ pending'.hi <= new.ts
    BY <1>4, <2>1
  <2> QED BY <2>4, <2>5, <2>6, <2>7
<1>7. /\ ~missed => \A t \in RowTimes : bars[1].ts <= t /\ t <= lo => t \in HeldTimes
      /\ kept => /\ \A b \in Held : b.ts < lo => b \in Rows
                 /\ lo < new.ts => Last(bars) \in Rows
  BY <1>1, <1>2 DEF FeedInv, GapInv, FinalInv
<1>8. CASE bars' = bars
  <2>1. UNCHANGED <<Held, HeldTimes>> /\ Last(bars') = Last(bars)
    BY <1>8 DEF Held, HeldTimes
  <2>2. TypedInv' /\ SourceInv' /\ CacheInv'
    BY <1>1, <1>2, <1>6, <1>8, <2>1 DEF FeedInv, TypedInv, SourceInv, CacheInv
  <2>3. WsInv'
    BY <1>1, <1>2, <1>8 DEF FeedInv, WsInv
  <2>4. HandInv'
    BY <1>1, <1>2, <1>3, <1>6, <1>8, <2>1 DEF HandInv
  <2>5. GapInv'
    <3> SUFFICES ASSUME ~missed', NEW t \in RowTimes, lo < t, t < new.ts PROVE FALSE
      BY <1>1, <1>2, <1>6, <1>7, <1>8, <2>1 DEF GapInv
    <3>1. ~missed
      BY <1>6
    <3>2. PICK b \in Rows : b.ts = t
      BY DEF RowTimes, Times
    <3>3. b \in missing
      BY <1>4, <1>5, <3>1, <3>2
    <3>4. b \in add
      <4>1. \A u \in HeldTimes : u \in Nat /\ u <= lo
        BY <1>3
      <4>2. t \in Nat
        BY <1>5, <3>2, <3>3
      <4>3. t \notin HeldTimes
        BY <1>3, <4>1, <4>2
      <4> QED BY <3>2, <3>3, <4>3
    <3>5. missed' = FALSE /\ (add = {} \/ Head(bars).ts > hole.lo \/ bars' = LastN(Merge(bars, missing), BarCount))
      BY DEF FillGap, HeldTimes, Held
    <3>6. ~(Head(bars).ts > hole.lo)
      BY <1>3, <1>4, <3>1
    <3>7. PICK all : all = Merge(bars, missing)
      OBVIOUS
    <3>8. LatestOf(all, Held \cup add)
      BY <1>1, <1>3, <1>5, <3>7, MergeIsLatest DEF Held, HeldTimes
    <3>9. bars = LastN(all, BarCount)
      BY <1>8, <3>4, <3>5, <3>6, <3>7
    <3>10. LatestOf(bars, Held \cup add)
      BY <3>8, <3>9, CutIsLatest, CountAssumption
    <3>11. b.ts <= lo
      BY <3>4, <3>10 DEF LatestOf
    <3> QED BY <1>3, <1>5, <3>2, <3>3, <3>11
  <2>6. FinalInv'
    BY <1>1, <1>2, <1>8, <2>1 DEF FeedInv, FinalInv
  <2> QED BY <2>2, <2>3, <2>4, <2>5, <2>6 DEF FeedInv
<1>9. CASE ~(Head(bars).ts > hole.lo) /\ bars' = LastN(Merge(bars, missing), BarCount)
  <2> DEFINE top == Last(bars').ts
  <2>1. /\ bars' \in Seq(Bar) /\ bars' # <<>> /\ Ordered(bars') /\ Held' \subseteq Held \cup add
        /\ \A b \in Held \cup add : b.ts <= top /\ (bars'[1].ts <= b.ts => b \in Held')
    <3>1. PICK all : all = Merge(bars, missing)
      OBVIOUS
    <3>2. LatestOf(all, Held \cup add)
      BY <1>1, <1>3, <1>5, <3>1, MergeIsLatest DEF Held, HeldTimes
    <3>3. bars' = LastN(all, BarCount)
      BY <1>9, <3>1
    <3>4. LatestOf(bars', Held \cup add)
      BY <3>2, <3>3, CutIsLatest, CountAssumption
    <3> QED BY <3>4 DEF LatestOf, Held
  <2>2. /\ Last(bars') \in Held' /\ top \in Nat /\ bars'[1] \in Held' /\ bars'[1].ts \in Nat
        /\ Last(bars') \in Held \cup add /\ lo <= top
    BY <1>3, <2>1, InRange DEF Held
  <2> HIDE DEF add, missing
  <2>3. \A b \in add : b \in missing /\ b \in Rows /\ b.ts \in Nat /\ hole.lo < b.ts /\ b.ts < hole.hi
                       /\ b.ts < new.ts /\ b.ts \in RowTimes
    <3>1. \A b \in add : b \in missing
      BY DEF add
    <3>2. \A b \in missing : b.ts < new.ts
      <4> HIDE DEF hole, new
      <4> QED BY <1>3, <1>4, <1>5
    <3> QED BY <1>5, <3>1, <3>2
  <2>4. top <= new.ts /\ (Last(bars') \in add => top < new.ts) /\ bars[1].ts <= bars'[1].ts
    <3>1. Last(bars') \in Held => top <= new.ts
      <4>1. Last(bars') \in Held => top <= lo
        BY <1>3
      <4> HIDE DEF lo, top, new
      <4> QED BY <1>3, <2>2, <4>1
    <3>2. Last(bars') \in add => top < new.ts
      BY <2>3
    <3>3. top < new.ts => top <= new.ts
      BY <1>3, <2>2
    <3>4. bars'[1] \in Held \/ bars'[1] \in add
      BY <2>1, <2>2
    <3>5. bars'[1] \in Held => bars[1].ts <= bars'[1].ts
      BY <1>3
    <3>6. bars'[1] \in add => bars[1].ts <= bars'[1].ts
      <4>1. bars'[1] \in add => hole.lo < bars'[1].ts
        BY <2>3
      <4>2. bars[1].ts <= hole.lo
        BY <1>3, <1>4, <1>9
      <4> HIDE DEF hole
      <4> QED BY <1>3, <1>4, <2>2, <4>1, <4>2
    <3> QED BY <2>2, <3>1, <3>2, <3>3, <3>4, <3>5, <3>6
  <2>5. TypedInv' /\ SourceInv'
    BY <1>1, <1>2, <1>6, <2>1 DEF FeedInv, TypedInv, SourceInv
  <2>6. CacheInv'
    <3>1. \A b \in Held' : b.ts \in RowTimes
      BY <1>3, <2>1, <2>3
    <3> QED BY <1>2, <2>1, <3>1 DEF CacheInv, HeldTimes, Times
  <2>7. WsInv'
    BY <1>1, <1>2 DEF FeedInv, WsInv
  <2>8. HandInv'
    BY <1>1, <1>2, <1>3, <1>6, <2>4 DEF HandInv
  <2>9. ASSUME ~missed', NEW t \in RowTimes, lo < t, t < new.ts
        PROVE  \E b \in add : b.ts = t
    <3>1. ~missed
      BY <1>6, <2>9
    <3>2. PICK b \in Rows : b.ts = t
      BY DEF RowTimes, Times
    <3>3. b \in missing /\ t \in Nat
      BY <1>4, <1>5, <2>9, <3>1, <3>2
    <3>4. t \notin HeldTimes
      BY <1>3, <2>9, <3>3
    <3> QED BY <3>2, <3>3, <3>4 DEF add
  <2>10. GapInv'
    <3>1. ASSUME ~missed', NEW t \in RowTimes, bars'[1].ts <= t, t <= top PROVE t \in HeldTimes'
      <4>1. t \in Nat
        BY SourceFacts DEF FeedInv
      <4>2. CASE t = top
        BY <2>2, <4>2 DEF HeldTimes, Times
      <4>3. CASE t <= lo
        <5>1. bars[1].ts <= t
          BY <1>3, <2>2, <2>4, <3>1, <4>1
        <5>2. t \in HeldTimes
          BY <1>6, <1>7, <3>1, <4>3, <5>1
        <5>3. PICK b \in Held : b.ts = t
          BY <1>3, <5>2
        <5>4. b \in Held'
          BY <2>1, <3>1, <5>3
        <5> QED BY <5>3, <5>4 DEF HeldTimes, Times
      <4>4. CASE lo < t /\ t < top
        <5>1. t < new.ts
          <6> HIDE DEF top, new
          <6> QED BY <1>3, <2>2, <2>4, <4>1, <4>4
        <5>2. PICK b \in add : b.ts = t
          BY <2>9, <3>1, <4>4, <5>1
        <5>3. b \in Held'
          BY <2>1, <3>1, <5>2
        <5> QED BY <5>2, <5>3 DEF HeldTimes, Times
      <4>5. t = top \/ t <= lo \/ (lo < t /\ t < top)
        <5> HIDE DEF top, lo
        <5> QED BY <1>3, <2>2, <3>1, <4>1
      <4> QED BY <4>2, <4>3, <4>4, <4>5
    <3>2. ASSUME ~missed', NEW t \in RowTimes, top < t, t < new.ts PROVE FALSE
      <4>1. t \in Nat
        BY SourceFacts DEF FeedInv
      <4>2. lo < t
        <5> HIDE DEF lo, top
        <5> QED BY <1>3, <2>2, <3>2, <4>1
      <4>3. PICK b \in add : b.ts = t
        BY <2>9, <3>2, <4>2
      <4>4. t <= top
        BY <2>1, <4>3
      <4> HIDE DEF top
      <4> QED BY <2>2, <3>2, <4>1, <4>4
    <3> QED BY <1>1, <1>2, <3>1, <3>2 DEF GapInv
  <2>11. FinalInv'
    <3> SUFFICES ASSUME kept PROVE FinalInv'
      BY <1>1 DEF FinalInv
    <3>1. OnePerTime(Held)
      BY <1>1, CacheFacts DEF FeedInv
    <3>2. Last(bars') \in Held => Last(bars') = Last(bars)
      <4>1. Last(bars') \in Held => top <= lo
        BY <1>3
      <4>2. top <= lo => top = lo
        <5> HIDE DEF top, lo
        <5> QED BY <1>3, <2>2
      <4> QED BY <1>3, <3>1, <4>1, <4>2 DEF OnePerTime
    <3>3. top < new.ts => Last(bars') \in Rows
      BY <1>7, <2>2, <2>3, <3>2
    <3>4. ASSUME NEW b \in Held', b.ts < top PROVE b \in Rows
      <4>1. CASE b \in add
        BY <2>3, <4>1
      <4>2. CASE b \in Held /\ b.ts < lo
        BY <1>7, <4>2
      <4>3. CASE b \in Held /\ b.ts = lo
        <5>1. b = Last(bars)
          BY <1>3, <3>1, <4>3 DEF OnePerTime
        <5>2. Last(bars') \in add
          <6>1. Last(bars') # Last(bars)
            BY <1>3, <3>4, <5>1
          <6> QED BY <2>2, <3>2, <6>1
        <5>3. lo < new.ts
          <6>1. top < new.ts
            BY <2>4, <5>2
          <6> HIDE DEF lo, top, new
          <6> QED BY <1>3, <2>2, <6>1
        <5> QED BY <1>7, <5>1, <5>3
      <4>4. b \in Held => b.ts < lo \/ b.ts = lo
        BY <1>3
      <4> QED BY <2>1, <4>1, <4>2, <4>3, <4>4
    <3> QED BY <1>1, <1>2, <3>3, <3>4 DEF FeedInv, FinalInv
  <2> QED BY <2>5, <2>6, <2>7, <2>8, <2>10, <2>11 DEF FeedInv
<1>10. bars' = bars \/ (~(Head(bars).ts > hole.lo) /\ bars' = LastN(Merge(bars, missing), BarCount))
  BY DEF FillGap
<1> QED BY <1>8, <1>9, <1>10

\* The link, the signal, the end and the readers.
LEMMA OtherStepsInv ==
  ASSUME FeedInv,
         \/ Unlink \/ Relink \/ Link \/ Signal \/ Stop \/ UNCHANGED vars
         \/ \E r \in Readers : Reader(r) \/ Expire(r) \/ Timeout(r)
  PROVE  FeedInv'
<1> USE DEF marketVars, cacheVars, gapVars, readerVars
<1>1. /\ UNCHANGED <<feed, market, kept, bars, ws, job, tried, pending, missed>>
      /\ \/ UNCHANGED <<linked, ready, fpc>>
         \/ ~linked' /\ UNCHANGED <<ready, fpc>>
         \/ feed = "binance" /\ (ready \/ bars # <<>>) /\ ready' /\ UNCHANGED fpc
         \/ fpc = "signal" /\ fpc' = "idle" /\ UNCHANGED <<linked, ready>>
  <2>1. CASE Unlink
    BY <2>1 DEF Unlink
  <2>2. CASE Relink
    BY <2>2 DEF Relink
  <2>3. CASE Link
    BY <2>3 DEF Link
  <2>4. CASE Signal
    BY <2>4 DEF Signal
  <2>5. CASE Stop
    BY <2>5 DEF Stop
  <2>6. CASE UNCHANGED vars
    BY <2>6 DEF vars
  <2>7. CASE \E r \in Readers : Reader(r) \/ Expire(r) \/ Timeout(r)
    BY <2>7 DEF Reader, Enter, Clear, Snapshot, Wait, Return, Expire, Timeout
  <2> QED BY <2>1, <2>2, <2>3, <2>4, <2>5, <2>6, <2>7
<1>2. UNCHANGED Rows
  BY <1>1 DEF Rows
<1>3. SourceInv
  BY DEF FeedInv
<1>4. SourceInv'
  BY <1>1, <1>2, <1>3 DEF SourceInv
<1> QED BY <1>1, <1>4, QuietStepInv

\* Every step keeps the invariant.
LEMMA FeedInvStep ==
  ASSUME FeedInv, [Next]_vars
  PROVE  FeedInv'
<1>1. CASE Market
  BY <1>1, SourceMoveInv, RepeatInv, OtherStepsInv DEF Market
<1>2. CASE FeedStep
  BY <1>2, FilledInv, PollInv, FetchMissingInv, OnKlineInv, FillGapInv, AppendBarInv,
     OtherStepsInv DEF FeedStep
<1>3. CASE Stop \/ UNCHANGED vars
  BY <1>3, OtherStepsInv
<1>4. CASE \E r \in Readers : Reader(r) \/ Expire(r) \/ Timeout(r)
  BY <1>4, OtherStepsInv
<1> QED BY <1>1, <1>2, <1>3, <1>4 DEF Next

\* So it holds in every behaviour, of either feed.
LEMMA FeedInvAlways ==
  Spec => []FeedInv
BY FeedInvInit, FeedInvStep, PTL DEF Spec

\* What the invariant says of the cache, as the strategy sees it.
LEMMA FeedInvComplete ==
  FeedInv => HistoryComplete
<1> SUFFICES ASSUME FeedInv PROVE HistoryComplete
  OBVIOUS
<1>1. CASE bars = <<>>
  <2>1. Len(bars) = 0 /\ \A i \in 1 .. Len(bars) : FALSE
    BY <1>1, EmptySeq
  <2>2. \A i \in 1 .. Len(bars) - 1 : FALSE
    BY <2>1
  <2>3. Range(bars) = {}
    BY <1>1 DEF Range
  <2> QED BY <2>1, <2>2, <2>3 DEF HistoryComplete, BarsOrdered, GapsFilled, ClosedBarsFinal, Times
<1>2. CASE bars # <<>>
  <2>1. /\ bars \in Seq(Bar) /\ Ordered(bars) /\ HeldTimes \subseteq RowTimes
        /\ Len(bars) \in Nat \ {0} /\ Last(bars) = bars[Len(bars)]
    BY <1>2, CacheFacts DEF FeedInv, TypedInv, CacheInv
  <2>2. BarsOrdered
    BY <2>1 DEF BarsOrdered, Ordered, HeldTimes, RowTimes, Held, Rows
  <2>3. GapsFilled
    <3> SUFFICES ASSUME ~missed, NEW i \in 1 .. Len(bars) - 1,
                        NEW b \in Between(market, [lo |-> bars[i].ts, hi |-> bars[i + 1].ts])
                 PROVE  FALSE
      BY DEF GapsFilled
    <3>1. i \in 1 .. Len(bars) /\ i + 1 \in 1 .. Len(bars)
      BY <2>1
    <3>2. b \in Rows /\ bars[i].ts < b.ts /\ b.ts < bars[i + 1].ts
      BY DEF Between, Rows
    <3>3. /\ b.ts \in RowTimes /\ b.ts \in Nat
          /\ bars[i].ts \in Nat /\ bars[i + 1].ts \in Nat /\ bars[1].ts \in Nat /\ Last(bars).ts \in Nat
          /\ bars[i] \in Held /\ bars[i + 1] \in Held
      BY <1>2, <2>1, <3>1, <3>2, SourceFacts, CacheFacts, InRange DEF FeedInv, Held
    <3>4. bars[1].ts <= bars[i].ts /\ bars[i + 1].ts <= Last(bars).ts
      BY <1>2, <3>3, CacheFacts DEF FeedInv
    <3>5. bars[1].ts <= b.ts /\ b.ts <= Last(bars).ts
      BY <3>2, <3>3, <3>4
    <3>6. b.ts \in HeldTimes
      BY <1>2, <3>3, <3>5 DEF FeedInv, GapInv
    <3>7. PICK a \in Held : a.ts = b.ts
      BY <3>6 DEF HeldTimes, Times
    <3>8. PICK j \in 1 .. Len(bars) : a = bars[j]
      BY <2>1, InRange DEF Held
    <3>9. j <= i \/ i + 1 <= j
      BY <3>1
    <3>10. CASE j <= i
      <4>1. bars[j].ts <= bars[i].ts
        <5>1. CASE j < i
          <6>1. bars[j].ts < bars[i].ts
            BY <2>1, <3>1, <5>1 DEF Ordered
          <6>2. bars[j].ts \in Nat
            BY <3>3, <3>7, <3>8
          <6> QED BY <3>3, <6>1, <6>2
        <5>2. CASE j = i
          BY <3>3, <5>2
        <5> QED BY <3>1, <3>10, <5>1, <5>2
      <4> QED BY <3>2, <3>3, <3>7, <3>8, <4>1
    <3>11. CASE i + 1 <= j
      <4>1. bars[i + 1].ts <= bars[j].ts
        <5>1. CASE i + 1 < j
          <6>1. bars[i + 1].ts < bars[j].ts
            BY <2>1, <3>1, <5>1 DEF Ordered
          <6>2. bars[j].ts \in Nat
            BY <3>3, <3>7, <3>8
          <6> QED BY <3>3, <6>1, <6>2
        <5>2. CASE j = i + 1
          BY <3>3, <5>2
        <5> QED BY <3>1, <3>11, <5>1, <5>2
      <4> QED BY <3>2, <3>3, <3>7, <3>8, <4>1
    <3> QED BY <3>9, <3>10, <3>11
  <2>4. ClosedBarsFinal
    <3> SUFFICES ASSUME kept, NEW i \in 1 .. Len(bars) - 1 PROVE bars[i] \in Rows
      BY DEF ClosedBarsFinal, Rows
    <3>1. i \in 1 .. Len(bars) /\ Len(bars) \in 1 .. Len(bars) /\ i < Len(bars)
      BY <2>1
    <3>2. bars[i] \in Held /\ bars[i].ts < Last(bars).ts
      BY <2>1, <3>1, InRange DEF Ordered, Held
    <3> QED BY <1>2, <3>2 DEF FeedInv, FinalInv
  <2> QED BY <2>2, <2>3, <2>4 DEF HistoryComplete
<1> QED BY <1>1, <1>2

\* The history a strategy computes on (data_feed.py _poll_bars and _fetch_missing,
\* binance_feed.py _on_kline and _fill_gap) is in order, has every bar of the
\* source between its first and its last one unless a read of missing bars failed
\* or was cut, and each closed bar with its last change if the feed kept up. For
\* both feeds, every size of the cache, market, fault set and bound.
THEOREM HistoryCompleteHolds ==
  Spec => []HistoryComplete
BY FeedInvAlways, FeedInvComplete, PTL

-----------------------------------------------------------------------------
\* What the steps of the readers and of the feeds keep true together.
WakeInv ==
  /\ rpc \in [Readers -> Steps]
  /\ snap \in [Readers -> [ver : Nat, close : Nat]]
  /\ ver \in Nat /\ closeVer \in Nat
  /\ feed = "binance" /\ ~ready => \A r \in Readers : rpc[r] \in {"work", "call", "ended"}
  /\ running /\ ~missed =>
       \A r \in Readers : rpc[r] \in {"wait", "blocked"} /\ snap[r].ver # ver =>
         event \/ fpc = "signal" \/ (fpc = "append" /\ Last(bars).ts < job.new.ts)

\* It holds before any reader has called.
LEMMA WakeInvInit ==
  Init => WakeInv
BY DEF Init, WakeInv, Steps

\* Bars merged into a hole stay behind the bar in hand.
LEMMA FilledBehind ==
  ASSUME FeedInv, FillGap, ~missed, bars' = LastN(Merge(bars, Between(market, job.hole)), BarCount)
  PROVE  Last(bars').ts < job.new.ts
<1>1. bars # <<>> /\ bars \in Seq(Bar) /\ Ordered(bars) /\ market \in Seq(Bar) /\ Ordered(market)
      /\ job.hole \in Hole /\ job.hole.lo \in Nat /\ job.hole.hi \in Nat
      /\ job.hole.lo = Last(bars).ts /\ job.hole.hi = job.new.ts /\ job.hole.lo < job.hole.hi
  BY DEF FillGap, FeedInv, TypedInv, SourceInv, CacheInv, HandInv, Hole
<1> DEFINE missing == Between(market, job.hole)
<1>2. /\ missing \in SUBSET Bar /\ IsFiniteSet(missing) /\ OnePerTime(missing)
      /\ \A b \in missing : b.ts < job.new.ts
  BY <1>1, BetweenRows DEF Between
<1>3. PICK all : all = Merge(bars, missing)
  OBVIOUS
<1>4. bars' = LastN(all, BarCount)
  BY <1>3
<1> HIDE DEF missing
<1>5. LatestOf(all, Held \cup {b \in missing : b.ts \notin HeldTimes})
  BY <1>1, <1>2, <1>3, MergeIsLatest DEF Held, HeldTimes
<1>6. LatestOf(bars', Held \cup {b \in missing : b.ts \notin HeldTimes})
  BY <1>4, <1>5, CutIsLatest, CountAssumption
<1>7. Last(bars') \in Held \cup missing
  <2>1. bars' \in Seq(Bar) /\ bars' # <<>> /\ Range(bars') \subseteq Held \cup missing
    BY <1>6 DEF LatestOf
  <2> QED BY <2>1, InRange
<1>8. \A b \in Held : b.ts < job.new.ts
  <2>1. \A b \in Held : b.ts \in Nat /\ b.ts <= job.hole.lo
    BY <1>1, CacheFacts DEF FeedInv
  <2>2. PICK l, h : l = job.hole.lo /\ h = job.hole.hi
    OBVIOUS
  <2>3. l \in Nat /\ h \in Nat /\ l < h /\ h = job.new.ts /\ \A b \in Held : b.ts \in Nat /\ b.ts <= l
    BY <1>1, <2>1, <2>2
  <2>4. \A b \in Held : b.ts < h
    BY <2>3
  <2> QED BY <2>3, <2>4
<1> QED BY <1>2, <1>7, <1>8

\* The steps of the market touch nothing of it.
LEMMA WakeInvMarket ==
  ASSUME WakeInv, Market
  PROVE  WakeInv'
BY DEF WakeInv, Market, Trade, Repeat, NewBar, Unlink, Relink, cacheVars, gapVars,
       readerVars, marketVars

\* A step of the feed that does not touch the readers, and either leaves the
\* version alone or has the signal before it.
LEMMA WakeInvQuiet ==
  ASSUME WakeInv, UNCHANGED <<feed, running, event, rpc, snap>>,
         ver' \in Nat, closeVer' \in Nat, ready => ready', missed => missed',
         ~(feed = "binance" /\ ~ready) =>
           \/ fpc' = "signal"
           \/ ~missed' /\ fpc' = "append" /\ Last(bars').ts < job'.new.ts
           \/ missed'
           \/ ver' = ver /\ ~(fpc = "signal") /\ ~(fpc = "append" /\ Last(bars).ts < job.new.ts)
  PROVE  WakeInv'
<1>1. feed = "binance" /\ ~ready' => \A r \in Readers : rpc[r] \in {"work", "call", "ended"}
  BY DEF WakeInv
<1>2. ASSUME running, ~missed', NEW r \in Readers, rpc[r] \in {"wait", "blocked"}, snap[r].ver # ver'
      PROVE  event \/ fpc' = "signal" \/ (fpc' = "append" /\ Last(bars').ts < job'.new.ts)
  <2>1. ~(feed = "binance" /\ ~ready)
    BY <1>2 DEF WakeInv
  <2>2. ver' = ver /\ ~(fpc = "signal") /\ ~(fpc = "append" /\ Last(bars).ts < job.new.ts) => event
    BY <1>2 DEF WakeInv
  <2> QED BY <1>2, <2>1, <2>2
<1> QED BY <1>1, <1>2 DEF WakeInv

\* Each step of a feed that counts a version up has its signal to come.
LEMMA WakeInvFeed ==
  ASSUME FeedInv, WakeInv, FeedStep
  PROVE  WakeInv'
<1> USE DEF marketVars, cacheVars, gapVars, readerVars
<1>0. ver \in Nat /\ closeVer \in Nat
  BY DEF WakeInv
<1>1. CASE Warm
  BY <1>0, <1>1, WakeInvQuiet DEF Warm
<1>2. CASE PollBars
  BY <1>0, <1>2, WakeInvQuiet DEF PollBars
<1>3. CASE FetchMissing
  <2>1. /\ ver' \in Nat /\ closeVer' \in Nat /\ (missed => missed')
        /\ fpc' = "signal" /\ UNCHANGED <<feed, ready, running, event, rpc, snap>>
    <3>1. ver' \in Nat
      BY <1>0, <1>3 DEF FetchMissing
    <3>2. closeVer' \in Nat
      BY <1>0, <1>3 DEF FetchMissing
    <3>3. missed => missed'
      BY <1>3 DEF FetchMissing
    <3>4. fpc' = "signal" /\ UNCHANGED <<feed, ready, running, event, rpc, snap>>
      BY <1>3 DEF FetchMissing
    <3> QED BY <3>1, <3>2, <3>3, <3>4
  <2> QED BY <2>1, WakeInvQuiet
<1>4. CASE Load
  <2>1. feed = "binance" /\ ~ready
    BY <1>4 DEF Load, FeedInv, SourceInv
  <2> QED BY <1>0, <1>4, <2>1, WakeInvQuiet DEF Load
<1>5. CASE Link
  <2>1. feed = "binance" /\ ~ready
    BY <1>5 DEF Link
  <2> QED BY <1>0, <1>5, <2>1, WakeInvQuiet DEF Link
<1>6. CASE OnKline
  BY <1>0, <1>6, WakeInvQuiet DEF OnKline
<1>7. CASE FillGap
  <2>1. /\ UNCHANGED <<feed, running, ready, event, rpc, snap, closeVer, job>> /\ (missed => missed')
        /\ fpc = "gap" /\ fpc' = "append"
        /\ \/ ver' = ver
           \/ ver' = ver + 1 /\ bars' = LastN(Merge(bars, Between(market, job.hole)), BarCount)
    BY <1>7 DEF FillGap
  <2>2. CASE ver' = ver
    BY <1>0, <2>1, <2>2, WakeInvQuiet
  <2>3. CASE missed'
    BY <1>0, <2>1, <2>3, WakeInvQuiet
  <2>4. CASE ~missed' /\ bars' = LastN(Merge(bars, Between(market, job.hole)), BarCount)
    <3>1. Last(bars').ts < job.new.ts
      BY <1>7, <2>1, <2>4, FilledBehind
    <3>2. Last(bars').ts < job'.new.ts
      BY <2>1, <3>1
    <3>3. ver' \in Nat /\ closeVer' \in Nat
      BY <1>0, <2>1
    <3> QED BY <2>1, <2>4, <3>2, <3>3, WakeInvQuiet
  <2> QED BY <2>1, <2>2, <2>3, <2>4
<1>8. CASE AppendBar
  <2>1. /\ UNCHANGED <<feed, running, ready, event, rpc, snap, missed>>
        /\ \/ fpc' = "signal" /\ ver' = ver + 1 /\ closeVer' \in {closeVer, closeVer + 1}
           \/ job.new = Last(bars) /\ fpc = "append" /\ ver' = ver /\ closeVer' = closeVer
    BY <1>8 DEF AppendBar
  <2>2. ~(job.new.ts < job.new.ts)
    BY BarTimes DEF FeedInv, TypedInv
  <2>3. ver' \in Nat /\ closeVer' \in Nat
    BY <1>0, <2>1
  <2> QED BY <2>1, <2>2, <2>3, WakeInvQuiet
<1>9. CASE Signal
  <2>1. rpc' \in [Readers -> Steps]
    BY <1>9 DEF Signal, SetEvent, Steps, WakeInv
  <2>2. \A r \in Readers : rpc'[r] = (IF rpc[r] = "blocked" THEN "woken" ELSE rpc[r])
    BY <1>9 DEF Signal, SetEvent
  <2> QED BY <1>9, <2>1, <2>2 DEF Signal, SetEvent, WakeInv
<1> QED BY <1>1, <1>2, <1>3, <1>4, <1>5, <1>6, <1>7, <1>8, <1>9 DEF FeedStep

\* stop() wakes the readers.
LEMMA WakeInvStop ==
  ASSUME WakeInv, Stop
  PROVE  WakeInv'
<1>1. rpc' \in [Readers -> Steps]
  BY DEF WakeInv, Stop, SetEvent, Steps
<1>2. \A r \in Readers : rpc'[r] = (IF rpc[r] = "blocked" THEN "woken" ELSE rpc[r])
  BY DEF Stop, SetEvent
<1> QED BY <1>1, <1>2 DEF WakeInv, Stop, SetEvent, marketVars, cacheVars

\* The one reader clears its event before it copies the versions.
LEMMA WakeInvReader ==
  ASSUME WakeInv, \A a, b \in Readers : a = b,
         NEW r \in Readers, Reader(r) \/ Expire(r) \/ Timeout(r)
  PROVE  WakeInv'
<1> USE DEF WakeInv, marketVars, cacheVars, gapVars, readerVars, Goes
<1>1. \A t \in Readers : t = r
  OBVIOUS
<1>2. CASE Enter(r)
  BY <1>1, <1>2 DEF Enter, Nothing, Steps
<1>3. CASE Clear(r)
  BY <1>1, <1>3 DEF Clear, Steps
<1>4. CASE Snapshot(r)
  BY <1>1, <1>4 DEF Snapshot, Steps
<1>5. CASE Wait(r)
  BY <1>1, <1>5 DEF Wait, Steps
<1>6. CASE Return(r)
  BY <1>1, <1>6 DEF Return, Nothing, Steps
<1>7. CASE Expire(r) \/ Timeout(r)
  BY <1>1, <1>7 DEF Expire, Timeout, Steps
<1> QED BY <1>2, <1>3, <1>4, <1>5, <1>6, <1>7 DEF Reader

\* A strategy thread that waits for a feed with versions older than the cache's
\* finds its event set, or the feed is about to set it: the order clear, snapshot,
\* wait against bump, set. For both feeds, every size of the cache and every
\* market, if the symbol has one strategy thread: a second one would clear the
\* event of the first.
THEOREM NoLostWakeupHolds ==
  ASSUME \A a, b \in Readers : a = b
  PROVE  Spec => []NoLostWakeup
<1>1. Init => WakeInv
  BY WakeInvInit
<1>2. FeedInv /\ WakeInv /\ [Next]_vars => WakeInv'
  <2> SUFFICES ASSUME FeedInv, WakeInv, [Next]_vars PROVE WakeInv'
    OBVIOUS
  <2>1. CASE UNCHANGED vars
    BY <2>1 DEF WakeInv, vars, marketVars, cacheVars, gapVars, readerVars
  <2>2. CASE \E r \in Readers : Reader(r) \/ Expire(r) \/ Timeout(r)
    BY <2>2, WakeInvReader
  <2> QED BY <2>1, <2>2, WakeInvMarket, WakeInvFeed, WakeInvStop DEF Next
<1>3. WakeInv => NoLostWakeup
  BY DEF WakeInv, NoLostWakeup
<1> QED BY <1>1, <1>2, <1>3, FeedInvAlways, PTL DEF Spec
===============================================================================
