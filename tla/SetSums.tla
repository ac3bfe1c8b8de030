--------------------------------- MODULE SetSums --------------------------------
(***************************************************************************)
(* Sums over finite sets, as the proofs of several components need them:   *)
(* the exposure of a ledger's entries, the volume of a bucket's base bars, *)
(* the equity of an account's legs.                                        *)
(*                                                                         *)
(* The library's folds are recursions over sets, so what they compute      *)
(* follows from the sums of the smaller sets alone; that a sum does not    *)
(* depend on the order it is taken in follows from a smallest set that     *)
(* would say otherwise.                                                    *)
(***************************************************************************)
EXTENDS Integers, FiniteSets, FiniteSetsExt, Folds, FiniteSetTheorems, WellFoundedInduction, TLAPS

-----------------------------------------------------------------------------
\* The element a fold takes first, and what it makes of a set with weights w and
\* the sums g of the smaller ones.
First(s)      == CHOOSE e \in s : TRUE
AddUp(w, g, s) == IF s = {} THEN 0 ELSE w[First(s)] + g[s \ {First(s)}]

\* g holds the sums of the subsets of S.
Sums(w, g, S) == g = [s \in SUBSET S |-> AddUp(w, g, s)]

\* The sum of the weights of S.
SumOver(w, S) == (CHOOSE g : Sums(w, g, S))[S]

\* The first element of a set that has one is an element.
LEMMA FirstIn ==
  ASSUME NEW s, s # {}
  PROVE  First(s) \in s
BY DEF First

\* A family of finite sets has a member none of whose parts is a member.
LEMMA SmallestBad ==
  ASSUME NEW S, IsFiniteSet(S), NEW Bad, Bad \subseteq SUBSET S, Bad # {}
  PROVE  \E T \in Bad : \A U \in SUBSET T : U # T => U \notin Bad
<1>1. IsWellFoundedOn(StrictSubsetOrdering(S), SUBSET S)
  BY FS_StrictSubsetOrderingWellFounded, FS_FiniteSubsetsOfFinite
<1>2. PICK T \in Bad : \A U \in Bad : ~ (<<U, T>> \in StrictSubsetOrdering(S))
  BY <1>1, WFMin
<1>3. \A U \in SUBSET T : U # T /\ U \in Bad => <<U, T>> \in StrictSubsetOrdering(S)
  BY DEF StrictSubsetOrdering
<1>4. \A U \in SUBSET T : U # T => U \notin Bad
  BY <1>2, <1>3
<1> QED BY <1>4

\* The sums of the subsets of a set are also those of a larger one.
LEMMA SumsAgree ==
  ASSUME NEW w, NEW S, IsFiniteSet(S), NEW T \in SUBSET S, NEW g, NEW h, Sums(w, g, S), Sums(w, h, T)
  PROVE  \A s \in SUBSET T : g[s] = h[s]
<1> DEFINE Bad == {s \in SUBSET T : g[s] # h[s]}
<1>1. SUFFICES ASSUME Bad # {} PROVE FALSE
  OBVIOUS
<1>3. PICK s \in Bad : \A u \in SUBSET s : u # s => u \notin Bad
  <2>1. Bad \subseteq SUBSET S
    OBVIOUS
  <2> HIDE DEF Bad
  <2> QED BY <1>1, <2>1, SmallestBad
<1>4. g[s] = AddUp(w, g, s) /\ h[s] = AddUp(w, h, s)
  BY DEF Sums
<1>5. CASE s = {}
  BY <1>3, <1>4, <1>5 DEF AddUp
<1>6. CASE s # {}
  <2> DEFINE u == s \ {First(s)}
  <2>1. u \in SUBSET s /\ u # s
    BY <1>6, FirstIn
  <2>2. g[u] = h[u]
    BY <1>3, <2>1
  <2> QED BY <1>3, <1>4, <1>6, <2>2 DEF AddUp
<1> QED BY <1>5, <1>6

\* There is a function that holds the sums: the recursion is well founded.
LEMMA SumsExist ==
  ASSUME NEW w, NEW S, IsFiniteSet(S)
  PROVE  \E g : Sums(w, g, S)
<1> DEFINE Bad == {T \in SUBSET S : ~ \E g : Sums(w, g, T)}
<1>1. SUFFICES ASSUME Bad # {} PROVE FALSE
  OBVIOUS
<1>2. PICK T \in Bad : \A U \in SUBSET T : U # T => U \notin Bad
  <2>1. Bad \subseteq SUBSET S
    OBVIOUS
  <2> HIDE DEF Bad
  <2> QED BY <1>1, <2>1, SmallestBad
<1>3. ASSUME NEW U \in SUBSET T, U # T
      PROVE  IsFiniteSet(U) /\ Sums(w, CHOOSE g : Sums(w, g, U), U)
  <2>1. IsFiniteSet(U)
    BY FS_Subset
  <2>2. \E g : Sums(w, g, U)
    BY <1>2, <1>3
  <2> QED BY <2>1, <2>2
<1> DEFINE h == [s \in SUBSET T |-> IF s = {} THEN 0
                   ELSE w[First(s)] + SumOver(w, s \ {First(s)})]
<1>4. ASSUME NEW u \in SUBSET T, u # T
      PROVE  h[u] = SumOver(w, u)
  <2> DEFINE gu == CHOOSE g : Sums(w, g, u)
             v  == u \ {First(u)}
             gv == CHOOSE g : Sums(w, g, v)
  <2>1. IsFiniteSet(u) /\ Sums(w, gu, u) /\ SumOver(w, u) = gu[u]
    BY <1>3, <1>4 DEF SumOver
  <2> HIDE DEF gu
  <2>2. gu[u] = AddUp(w, gu, u)
    BY <2>1 DEF Sums
  <2>3. CASE u = {}
    BY <2>1, <2>2, <2>3 DEF AddUp
  <2>4. CASE u # {}
    <3>1. v \in SUBSET u /\ v \in SUBSET T /\ v # T
      BY <2>4, FirstIn
    <3>2. Sums(w, gv, v) /\ SumOver(w, v) = gv[v]
      BY <1>3, <3>1 DEF SumOver
    <3> HIDE DEF gv, v
    <3>3. gu[v] = gv[v]
      BY <2>1, <3>1, <3>2, SumsAgree
    <3> QED BY <2>1, <2>2, <2>4, <3>2, <3>3 DEF AddUp, v
  <2> QED BY <2>3, <2>4
<1>5. ASSUME NEW s \in SUBSET T PROVE h[s] = AddUp(w, h, s)
  <2>1. CASE s = {}
    BY <2>1 DEF AddUp
  <2>2. CASE s # {}
    <3>1. s \ {First(s)} \in SUBSET T /\ s \ {First(s)} # T
      BY <2>2, FirstIn
    <3>2. h[s \ {First(s)}] = SumOver(w, s \ {First(s)})
      BY <3>1, <1>4
    <3>3. h[s] = w[First(s)] + SumOver(w, s \ {First(s)})
      BY <2>2
    <3> HIDE DEF h
    <3> QED BY <2>2, <3>2, <3>3 DEF AddUp
  <2> QED BY <2>1, <2>2
<1>6. h = [s \in SUBSET T |-> h[s]]
  OBVIOUS
<1> HIDE DEF h
<1>7. Sums(w, h, T)
  BY <1>5, <1>6 DEF Sums
<1> QED BY <1>2, <1>7

\* A sum is that of the first element and the rest.
LEMMA SumFold ==
  ASSUME NEW w, NEW S, IsFiniteSet(S)
  PROVE  /\ SumOver(w, {}) = 0
         /\ S # {} => SumOver(w, S) = w[First(S)] + SumOver(w, S \ {First(S)})
<1>1. ASSUME NEW T, IsFiniteSet(T)
      PROVE  Sums(w, CHOOSE g : Sums(w, g, T), T)
  BY <1>1, SumsExist
<1>2. SumOver(w, {}) = 0
  <2> DEFINE g0 == CHOOSE g : Sums(w, g, {})
  <2>1. Sums(w, g0, {}) /\ SumOver(w, {}) = g0[{}]
    BY <1>1, FS_EmptySet DEF SumOver
  <2> HIDE DEF g0
  <2>2. g0[{}] = AddUp(w, g0, {})
    BY <2>1 DEF Sums
  <2> QED BY <2>1, <2>2 DEF AddUp
<1>3. ASSUME S # {}
      PROVE  SumOver(w, S) = w[First(S)] + SumOver(w, S \ {First(S)})
  <2> DEFINE R  == S \ {First(S)}
             gS == CHOOSE g : Sums(w, g, S)
             gR == CHOOSE g : Sums(w, g, R)
  <2>1. R \in SUBSET S /\ IsFiniteSet(R)
    BY FS_Subset
  <2>2. /\ Sums(w, gS, S) /\ SumOver(w, S) = gS[S]
        /\ Sums(w, gR, R) /\ SumOver(w, R) = gR[R]
    BY <1>1, <2>1 DEF SumOver
  <2> HIDE DEF gS, gR, R
  <2>3. gS[R] = gR[R]
    BY <2>1, <2>2, SumsAgree
  <2>4. gS[S] = AddUp(w, gS, S)
    BY <2>2 DEF Sums
  <2> QED BY <1>3, <2>2, <2>3, <2>4 DEF AddUp, R
<1> QED BY <1>2, <1>3

\* Integers add up to an integer.
LEMMA SumInt ==
  ASSUME NEW w, NEW S, IsFiniteSet(S), \A e \in S : w[e] \in Int
  PROVE  SumOver(w, S) \in Int
<1> DEFINE Bad == {T \in SUBSET S : SumOver(w, T) \notin Int}
<1>1. SUFFICES ASSUME Bad # {} PROVE FALSE
  OBVIOUS
<1>2. PICK T \in Bad : \A U \in SUBSET T : U # T => U \notin Bad
  <2>1. Bad \subseteq SUBSET S
    OBVIOUS
  <2> HIDE DEF Bad
  <2> QED BY <1>1, <2>1, SmallestBad
<1>3. IsFiniteSet(T)
  BY FS_Subset
<1>4. CASE T = {}
  <2>1. SumOver(w, {}) = 0
    BY <1>3, SumFold
  <2> QED BY <1>2, <1>4, <2>1
<1>5. CASE T # {}
  <2> DEFINE U == T \ {First(T)}
  <2>1. First(T) \in T /\ U \in SUBSET T /\ U # T
    BY <1>5, FirstIn
  <2>2. SumOver(w, U) \in Int /\ w[First(T)] \in Int
    BY <1>2, <2>1
  <2>3. SumOver(w, T) = w[First(T)] + SumOver(w, U)
    BY <1>3, <1>5, SumFold
  <2> QED BY <1>2, <2>2, <2>3
<1> QED BY <1>4, <1>5

\* A sum does not depend on which element is taken out first.
LEMMA SumWithout ==
  ASSUME NEW w, NEW S, IsFiniteSet(S), \A e \in S : w[e] \in Int, NEW x \in S
  PROVE  SumOver(w, S) = w[x] + SumOver(w, S \ {x})
<1> DEFINE Bad == {T \in SUBSET S : \E e \in T : SumOver(w, T) # w[e] + SumOver(w, T \ {e})}
<1>1. SUFFICES ASSUME Bad # {} PROVE FALSE
  OBVIOUS
<1>2. PICK T \in Bad : \A U \in SUBSET T : U # T => U \notin Bad
  <2>1. Bad \subseteq SUBSET S
    OBVIOUS
  <2> HIDE DEF Bad
  <2> QED BY <1>1, <2>1, SmallestBad
<1>3. PICK e \in T : SumOver(w, T) # w[e] + SumOver(w, T \ {e})
  BY <1>2
<1> DEFINE f == First(T)
           U == T \ {e}
           V == T \ {f}
           B == U \ {f}
<1>4. f \in T /\ IsFiniteSet(T) /\ IsFiniteSet(B)
  BY FirstIn, FS_Subset
<1>5. SumOver(w, T) = w[f] + SumOver(w, V)
  BY <1>4, SumFold
<1>6. f # e
  BY <1>3, <1>5
<1>7. SumOver(w, U) = w[f] + SumOver(w, B)
  BY <1>2, <1>4, <1>6
<1>8. V \ {e} = B
  OBVIOUS
<1>9. SumOver(w, V) = w[e] + SumOver(w, B)
  <2>1. V \in SUBSET S /\ V \in SUBSET T /\ V # T /\ e \in V
    BY <1>4, <1>6
  <2> HIDE DEF V, B
  <2> QED BY <1>2, <1>8, <2>1
<1>10. SumOver(w, B) \in Int /\ w[e] \in Int /\ w[f] \in Int
  <2>1. \A d \in B : w[d] \in Int
    OBVIOUS
  <2> QED BY <1>4, <2>1, SumInt
<1> HIDE DEF U, V, B, f
<1>11. SumOver(w, T) = w[e] + SumOver(w, U)
  BY <1>5, <1>7, <1>9, <1>10
<1> QED BY <1>3, <1>11 DEF U

\* Sums of the same weights are the same.
LEMMA SumSame ==
  ASSUME NEW S, IsFiniteSet(S), NEW w, NEW v, \A e \in S : w[e] = v[e]
  PROVE  SumOver(w, S) = SumOver(v, S)
<1> DEFINE Bad == {T \in SUBSET S : SumOver(w, T) # SumOver(v, T)}
<1>1. SUFFICES ASSUME Bad # {} PROVE FALSE
  OBVIOUS
<1>2. PICK T \in Bad : \A U \in SUBSET T : U # T => U \notin Bad
  <2>1. Bad \subseteq SUBSET S
    OBVIOUS
  <2> HIDE DEF Bad
  <2> QED BY <1>1, <2>1, SmallestBad
<1>3. IsFiniteSet(T)
  BY FS_Subset
<1>4. CASE T = {}
  BY <1>2, <1>3, <1>4, SumFold
<1>5. CASE T # {}
  <2> DEFINE U == T \ {First(T)}
  <2>1. First(T) \in T /\ U \in SUBSET T /\ U # T
    BY <1>5, FirstIn
  <2>2. SumOver(w, U) = SumOver(v, U) /\ w[First(T)] = v[First(T)]
    BY <1>2, <2>1
  <2>3. SumOver(w, T) = w[First(T)] + SumOver(w, U) /\ SumOver(v, T) = v[First(T)] + SumOver(v, U)
    BY <1>3, <1>5, SumFold
  <2> QED BY <1>2, <2>2, <2>3
<1> QED BY <1>4, <1>5

\* Any function that holds the sums says what the sum is, the library's too.
LEMMA SumUnique ==
  ASSUME NEW S, IsFiniteSet(S), NEW w, NEW g, Sums(w, g, S)
  PROVE  g[S] = SumOver(w, S)
<1> DEFINE h == CHOOSE f : Sums(w, f, S)
<1>1. Sums(w, h, S)
  OBVIOUS
<1>2. SumOver(w, S) = h[S]
  BY DEF SumOver
<1> HIDE DEF h
<1> QED BY <1>1, <1>2, SumsAgree

-----------------------------------------------------------------------------
(* The library's sums.                                                     *)

\* The sum of the values of f over S, as the models write it.
ValueSum(f, S) == MapThenSumSet(LAMBDA x : f[x], S)

\* It is the sum above.
LEMMA ValueSumIs ==
  ASSUME NEW S, IsFiniteSet(S), NEW f
  PROVE  ValueSum(f, S) = SumOver(f, S)
<1> DEFINE g == CHOOSE h : h = [s \in SUBSET S |-> AddUp(f, h, s)]
<1>1. ValueSum(f, S) = g[S]
  BY DEF ValueSum, First, AddUp, MapThenSumSet, MapThenFoldSet
<1>2. PICK h : Sums(f, h, S)
  BY SumsExist
<1>3. h = [s \in SUBSET S |-> AddUp(f, h, s)]
  BY <1>2 DEF Sums
<1>4. g = [s \in SUBSET S |-> AddUp(f, g, s)]
  BY <1>3
<1> HIDE DEF g
<1>5. Sums(f, g, S)
  BY <1>4 DEF Sums
<1> QED BY <1>1, <1>5, SumUnique

\* Integers add up to an integer.
LEMMA ValueSumInt ==
  ASSUME NEW S, IsFiniteSet(S), NEW f, \A x \in S : f[x] \in Int
  PROVE  ValueSum(f, S) \in Int
BY SumInt, ValueSumIs

\* When one value changes, the sum changes by as much.
LEMMA ValueSumChange ==
  ASSUME NEW S, IsFiniteSet(S), NEW f, NEW h, NEW x \in S,
         \A y \in S : f[y] \in Int /\ h[y] \in Int,
         \A y \in S : y # x => h[y] = f[y]
  PROVE  ValueSum(h, S) = ValueSum(f, S) - f[x] + h[x]
<1> DEFINE R == S \ {x}
<1>1. IsFiniteSet(R) /\ \A y \in R : h[y] = f[y] /\ f[y] \in Int
  BY FS_Subset
<1>2. SumOver(f, S) = f[x] + SumOver(f, R) /\ SumOver(h, S) = h[x] + SumOver(h, R)
  BY SumWithout
<1> HIDE DEF R
<1>3. SumOver(h, R) = SumOver(f, R) /\ SumOver(f, R) \in Int
  BY <1>1, SumSame, SumInt
<1> QED BY <1>2, <1>3, ValueSumIs

\* Zeros add up to nothing.
LEMMA ValueSumZero ==
  ASSUME NEW S, IsFiniteSet(S), NEW f, \A x \in S : f[x] = 0
  PROVE  ValueSum(f, S) = 0
<1> DEFINE Bad == {T \in SUBSET S : SumOver(f, T) # 0}
<1>1. SUFFICES ASSUME Bad # {} PROVE FALSE
  <2>1. Bad = {} => SumOver(f, S) = 0
    OBVIOUS
  <2> QED BY <2>1, ValueSumIs
<1>2. PICK T \in Bad : \A U \in SUBSET T : U # T => U \notin Bad
  <2>1. Bad \subseteq SUBSET S
    OBVIOUS
  <2> HIDE DEF Bad
  <2> QED BY <1>1, <2>1, SmallestBad
<1>3. IsFiniteSet(T)
  BY FS_Subset
<1>4. CASE T = {}
  BY <1>2, <1>3, <1>4, SumFold
<1>5. CASE T # {}
  <2>1. First(T) \in T /\ T \ {First(T)} # T
    BY <1>5, FirstIn
  <2>2. SumOver(f, T \ {First(T)}) = 0 /\ f[First(T)] = 0
    BY <1>2, <2>1
  <2>3. SumOver(f, T) = f[First(T)] + SumOver(f, T \ {First(T)})
    BY <1>3, <1>5, SumFold
  <2> QED BY <1>2, <2>2, <2>3
<1> QED BY <1>4, <1>5

-----------------------------------------------------------------------------
(* What else the proofs need of finite sets.                               *)

\* A part of a finite set is finite and no larger.
LEMMA NoLarger ==
  ASSUME NEW S, IsFiniteSet(S), NEW T, T \subseteq S
  PROVE  /\ IsFiniteSet(T) /\ Cardinality(T) \in Nat /\ Cardinality(S) \in Nat
         /\ Cardinality(T) <= Cardinality(S)
  BY FS_Subset, FS_CardinalityType

\* The smaller of two numbers.
LEMMA LeastOfTwo ==
  ASSUME NEW a \in Int, NEW b \in Int
  PROVE  Min({a, b}) = IF a <= b THEN a ELSE b
<1>1. \A x \in {a, b} : (\A y \in {a, b} : x <= y) <=> x = (IF a <= b THEN a ELSE b)
  OBVIOUS
<1> QED
  BY <1>1 DEF Min

-----------------------------------------------------------------------------
(* Numbers: a set of them has a least one, places that differ take every   *)
(* number, and a recursion over 1 .. m has the values its steps give.      *)

\* Places of a finite set that differ take every number up to its size.
LEMMA EveryRank ==
  ASSUME NEW S, IsFiniteSet(S), NEW rank \in [S -> 1 .. Cardinality(S)],
         \A i \in S : \A j \in S : rank[i] = rank[j] => i = j, NEW n \in 1 .. Cardinality(S)
  PROVE  \E k \in S : rank[k] = n
<1> DEFINE N == Cardinality(S)
           T == (1 .. N) \ {n}
<1>1. N \in Nat
  BY FS_CardinalityType
<1>2. IsFiniteSet(T) /\ Cardinality(T) = N - 1
  <2>1. IsFiniteSet(1 .. N) /\ Cardinality(1 .. N) = N
    BY <1>1, FS_Interval
  <2>2. n \in 1 .. N
    OBVIOUS
  <2>3. \A U, x : IsFiniteSet(U) /\ x \in U => IsFiniteSet(U \ {x}) /\ Cardinality(U \ {x}) = Cardinality(U) - 1
    BY FS_RemoveElement
  <2> HIDE DEF N
  <2> QED BY <2>1, <2>2, <2>3
<1>3. ASSUME \A k \in S : rank[k] # n PROVE FALSE
  <2>1. rank \in [S -> T]
    BY <1>3
  <2>2. Cardinality(T) < Cardinality(S)
    BY <1>1, <1>2
  <2> HIDE DEF T
  <2>3. \E x, y \in S : x # y /\ rank[x] = rank[y]
    BY <1>2, <2>1, <2>2, FS_PigeonHole
  <2> QED BY <2>3
<1> QED BY <1>3

\* The elements of a set of numbers are numbered by how many are not larger.
LEMMA NthIsThere ==
  ASSUME NEW S, S \subseteq Nat, IsFiniteSet(S), NEW n \in 1 .. Cardinality(S)
  PROVE  \E k \in S : Cardinality({j \in S : j <= k}) = n
<1> DEFINE upTo(k) == {j \in S : j <= k}
           rank == [k \in S |-> Cardinality(upTo(k))]
<1>0. \A k \in S : \A j \in upTo(k) : j \in S /\ j \in Nat
  OBVIOUS
<1>1. ASSUME NEW k \in S
      PROVE  IsFiniteSet(upTo(k)) /\ Cardinality(upTo(k)) \in 1 .. Cardinality(S)
  <2>1. k \in upTo(k) /\ upTo(k) \subseteq S
    OBVIOUS
  <2> HIDE DEF upTo
  <2>2. IsFiniteSet(upTo(k)) /\ Cardinality(upTo(k)) \in Nat /\ Cardinality(S) \in Nat
        /\ Cardinality(upTo(k)) <= Cardinality(S)
    BY <2>1, NoLarger
  <2>3. Cardinality(upTo(k)) # 0
    BY <2>1, <2>2, FS_EmptySet
  <2> QED BY <2>2, <2>3
<1>2. ASSUME NEW i \in S, NEW j \in S, i < j PROVE Cardinality(upTo(i)) < Cardinality(upTo(j))
  <2>1. upTo(i) \subseteq upTo(j) /\ j \in upTo(j) /\ j \notin upTo(i) /\ i \in Nat /\ j \in Nat
    <3>1. i \in Nat /\ j \in Nat /\ \A x \in S : x \in Nat
      OBVIOUS
    <3>2. \A x \in S : x <= i => x <= j
      BY <1>2, <3>1
    <3>3. j <= j /\ ~(j <= i)
      BY <1>2, <3>1
    <3> QED BY <3>1, <3>2, <3>3
  <2> HIDE DEF upTo
  <2>2. IsFiniteSet(upTo(j)) /\ Cardinality(upTo(j)) \in Nat
    BY <1>1
  <2>3. upTo(i) # upTo(j)
    BY <2>1
  <2> QED BY <2>1, <2>2, <2>3, FS_Subset, NoLarger
<1>3. rank \in [S -> 1 .. Cardinality(S)]
  BY <1>1
<1>4. \A i \in S : \A j \in S : rank[i] = rank[j] => i = j
  <2> SUFFICES ASSUME NEW i \in S, NEW j \in S, rank[i] = rank[j] PROVE i = j
    OBVIOUS
  <2>1. i \in Nat /\ j \in Nat /\ rank[i] \in Nat /\ rank[j] \in Nat
    BY <1>3
  <2>2. i < j => rank[i] < rank[j]
    BY <1>2
  <2>3. j < i => rank[j] < rank[i]
    BY <1>2
  <2> HIDE DEF rank
  <2> QED BY <2>1, <2>2, <2>3
<1>5. \E k \in S : rank[k] = n
  <2> HIDE DEF rank
  <2> QED BY <1>3, <1>4, EveryRank
<1> QED BY <1>5

\* A set of numbers has a least one.
LEMMA LeastBad ==
  ASSUME NEW Bad, Bad \subseteq Nat, Bad # {}
  PROVE  \E n \in Bad : n \in Nat /\ (n # 0 => (n - 1 \in Nat /\ n - 1 \notin Bad))
<1>1. PICK n \in Bad : \A j \in Bad : ~ (<<j, n>> \in OpToRel(<, Nat))
  BY NatLessThanWellFounded, WFMin
<1>2. ASSUME n # 0 PROVE n - 1 \in Nat /\ n - 1 \notin Bad
  <2>1. n \in Nat /\ n - 1 \in Nat /\ n - 1 < n
    BY <1>2
  <2>2. <<n - 1, n>> \in OpToRel(<, Nat)
    BY <2>1 DEF OpToRel
  <2> QED BY <1>1, <2>1, <2>2
<1> QED BY <1>2

\* f takes m steps from base, each of what came before and its number.
TakesSteps(f, S, m, base, step) ==
  /\ f \in [0 .. m -> S] /\ f[0] = base
  /\ \A k \in 1 .. m : f[k] = step[<<f[k - 1], k>>]

\* Any number of steps can be taken.
LEMMA StepsExist ==
  ASSUME NEW S, NEW m \in Nat, NEW base \in S, NEW step \in [S \X (1 .. m) -> S]
  PROVE  \E f : TakesSteps(f, S, m, base, step)
<1> USE DEF TakesSteps
<1> DEFINE Upto(f, n) == TakesSteps(f, S, n, base, step)
           Bad == {n \in Nat : n <= m /\ ~ \E f : Upto(f, n)}
<1>1. SUFFICES Bad = {}
  OBVIOUS
<1>2. SUFFICES ASSUME Bad # {} PROVE FALSE
  OBVIOUS
<1>3. PICK n \in Bad : n \in Nat /\ (n # 0 => (n - 1 \in Nat /\ n - 1 \notin Bad))
  <2>1. Bad \subseteq Nat
    OBVIOUS
  <2> HIDE DEF Bad
  <2> QED BY <1>2, <2>1, LeastBad
<1>4. CASE n = 0
  <2>1. Upto([k \in 0 .. 0 |-> base], 0)
    OBVIOUS
  <2> QED BY <1>3, <1>4, <2>1
<1>5. CASE n # 0
  <2>1. n - 1 \in Nat /\ n - 1 <= m /\ n \in 1 .. m
    BY <1>3, <1>5
  <2>2. PICK f : Upto(f, n - 1)
    BY <1>3, <1>5, <2>1
  <2>3. f[n - 1] \in S /\ step[<<f[n - 1], n>>] \in S
    BY <2>1, <2>2
  <2> DEFINE g == [k \in 0 .. n |-> IF k = n THEN step[<<f[n - 1], n>>] ELSE f[k]]
  <2>4. g \in [0 .. n -> S]
    BY <2>1, <2>2, <2>3
  <2>5. g[0] = base
    BY <2>1, <2>2
  <2>6. ASSUME NEW k \in 1 .. n PROVE g[k] = step[<<g[k - 1], k>>]
    <3>1. k \in 0 .. n /\ k - 1 \in 0 .. n /\ k - 1 # n
      BY <2>1
    <3>2. g[k - 1] = f[k - 1]
      BY <3>1
    <3>3. CASE k = n
      BY <3>1, <3>2, <3>3
    <3>4. CASE k # n
      <4>1. k \in 1 .. n - 1
        BY <2>1, <3>4
      <4>2. f[k] = step[<<f[k - 1], k>>] /\ g[k] = f[k]
        BY <2>2, <3>1, <3>4, <4>1
      <4> HIDE DEF g
      <4> QED BY <3>2, <4>2
    <3> QED BY <3>3, <3>4
  <2>7. Upto(g, n)
    BY <2>4, <2>5, <2>6
  <2> QED BY <1>3, <2>7
<1> QED BY <1>4, <1>5

\* u starts as f does and takes a step of f whenever it is where f is.
Retraces(u, f, m, step) ==
  u[0] = f[0] /\ \A k \in 1 .. m : u[k - 1] = f[k - 1] => u[k] = step[<<f[k - 1], k>>]

\* What takes the same steps is the same.
LEMMA SameSteps ==
  ASSUME NEW S, NEW m \in Nat, NEW base, NEW step, NEW f, TakesSteps(f, S, m, base, step),
         NEW u, Retraces(u, f, m, step)
  PROVE  \A k \in 0 .. m : u[k] = f[k]
<1> DEFINE Bad == {k \in 0 .. m : u[k] # f[k]}
<1>1. SUFFICES ASSUME Bad # {} PROVE FALSE
  OBVIOUS
<1>2. PICK k \in Bad : k \in Nat /\ (k # 0 => (k - 1 \in Nat /\ k - 1 \notin Bad))
  <2>1. Bad \subseteq Nat
    OBVIOUS
  <2> HIDE DEF Bad
  <2> QED BY <1>1, <2>1, LeastBad
<1>3. k # 0
  BY <1>2 DEF TakesSteps, Retraces
<1>4. k \in 1 .. m /\ k - 1 \in 0 .. m /\ u[k - 1] = f[k - 1] /\ u[k] # f[k]
  BY <1>2, <1>3
<1> QED BY <1>4 DEF TakesSteps, Retraces
================================================================================
