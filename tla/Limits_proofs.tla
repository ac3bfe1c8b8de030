----------------------------- MODULE Limits_proofs -----------------------------
(***************************************************************************)
(* That no order is larger than the risk allows or than the venue takes    *)
(* (OrdersSized of MCServices), for any number of workers and orders, any  *)
(* rules, lot filters, scales and prices.                                  *)
(*                                                                         *)
(* Neither half is inductive alone. The rules judge a snapshot that others *)
(* make stale: RoomInv counts the positions open together with the orders  *)
(* that may still open one, PacedOrders says of every window that the rule *)
(* remembers its orders or that nobody asks within it any more. A follower *)
(* lags its lead: Mirrored follows the lead's position through the orders  *)
(* on their way, and the follower's is the first of them, scaled, but for  *)
(* the roundings.                                                          *)
(*                                                                         *)
(* Next, that a backtest obeys its signals (SignalObeyed of                *)
(* BacktestEngine): the orders that wait for the next bar are those the    *)
(* last signal asks of the position, and all of them are filled on it.     *)
(*                                                                         *)
(* And that accounts are kept right (BooksTrue): ManagerInv says of every  *)
(* object and every answer under way that it tells the truth, since the    *)
(* manager may take any of them; PaperInv follows the position, the        *)
(* balance and the orders through each fill, also those of one price       *)
(* (LoopKeeps: the k-th books are those of the first k orders).            *)
(*                                                                         *)
(* Last, that backtests report what happened (BacktestReported): what the  *)
(* recursions of the report compute, and the matcher, the search and the   *)
(* tasks of Services_proofs beside it.                                     *)
(***************************************************************************)
EXTENDS Services_proofs

-----------------------------------------------------------------------------
(* The workers and their risk check.                                       *)

MostOpen == RiskLimits["max_total_positions"]
MostSent == RiskLimits["order_frequency"]
RateWindow   == RiskLimits["frequency_window"]

\* A quantity is the largest number of steps that loses no more than its budget.
FitsBudget(qty, stop, budget) ==
  /\ qty * stop <= budget
  /\ qty < MaxQty => (qty + StepQty) * stop > budget

\* Only its worker changes a leg, so a leg that is to be opened stays flat and
\* keeps the stop and the budget it was sized with.
OwnLegs ==
  /\ legs \in [Legs -> [qty : Int, entry : Int, gained : Int, stop : Nat, budget : Int]]
  /\ mark \in Nat /\ second \in Nat
  /\ DOMAIN judging = Workers
  /\ \A w \in Workers : judging[w].at # "idle" =>
       LET d == judging[w] IN
       /\ {"at", "leg", "offset", "qty", "stamp", "total"} \subseteq DOMAIN d
       /\ d.leg \in Legs /\ d.leg[1] = w /\ d.qty \in Int /\ d.stamp \in Nat /\ d.stamp <= second
       /\ d.offset \in {"OPEN", "CLOSE"} /\ d.total \in Nat
       /\ d.offset = "OPEN" => /\ legs[d.leg].qty = 0
                               /\ FitsBudget(d.qty, legs[d.leg].stop, legs[d.leg].budget)
  /\ \A l \in Legs : legs[l].qty # 0 => FitsBudget(legs[l].qty, legs[l].stop, legs[l].budget)

\* The workers whose order may still open a leg: the check let it through, or
\* the snapshot it will judge by has room.
Able == {w \in Workers : /\ judging[w].at # "idle" /\ judging[w].offset = "OPEN"
                         /\ judging[w].at = "passed" \/ judging[w].total < MostOpen}

\* A snapshot with room was taken when there was room; later all who may open
\* one more leg have taken theirs.
RoomInv == Cardinality(OpenLegs) + Cardinality(Able) <= MostOpen + Others

\* The orders that passed with a time of the window that begins at s, and the
\* workers that may add one to them.
SentIn(s) == {j \in DOMAIN passed : passed[j] \in s .. s + RateWindow}
MayAdd(s) == {w \in Workers : judging[w].at = "asked" /\ judging[w].stamp <= s + RateWindow}

\* The frequency rule still has every order of a window, until an order judged
\* later than the window makes it forget some: then nobody asks within the
\* window any more, and one of those that did is past its judgement.
Remembered(s) ==
  \E f \in [SentIn(s) -> DOMAIN orderTimes] :
    /\ \A i, j \in SentIn(s) : f[i] = f[j] => i = j
    /\ \A j \in SentIn(s) : orderTimes[f[j]] = passed[j]
Over(s) ==
  /\ second > s + RateWindow
  /\ Cardinality(SentIn(s)) + Cardinality(MayAdd(s)) <= MostSent + Others

PacedOrders ==
  /\ orderTimes \in Seq(Nat) /\ passed \in Seq(Nat) /\ Len(orderTimes) <= MostSent
  /\ \A s \in Nat : Remembered(s) \/ Over(s)

RiskInv == OwnLegs /\ RoomInv /\ PacedOrders

LEMMA RiskConstants ==
  /\ MostOpen \in Nat /\ MostSent \in Nat /\ RateWindow \in Nat
  /\ IsFiniteSet(Workers) /\ Cardinality(Workers) \in Nat /\ Others \in Nat
  /\ IsFiniteSet(Legs) /\ Legs = Workers \X TagPeriods
  /\ StepQty \in Nat /\ StepQty > 0 /\ MinQty \in Nat /\ MinQty > 0 /\ MaxQty \in Nat /\ MaxQty > 0
<1>1. MostOpen \in Nat /\ MostSent \in Nat /\ RateWindow \in Nat
  BY RiskAssumption DEF MostOpen, MostSent, RateWindow
<1>2. IsFiniteSet(Workers) /\ Cardinality(Workers) \in Nat /\ Cardinality(Workers) # 0
  BY RiskAssumption, FS_CardinalityType, FS_EmptySet
<1>3. IsFiniteSet(Legs)
  BY RiskAssumption, FS_Product DEF Legs
<1> QED
  BY <1>1, <1>2, <1>3, RiskAssumption DEF Others, Legs

\* One element more or less.
LEMMA OneMore ==
  ASSUME NEW S, IsFiniteSet(S), NEW x, NEW T, T \subseteq S \cup {x}
  PROVE  /\ IsFiniteSet(T) /\ Cardinality(T) \in Nat /\ Cardinality(S) \in Nat
         /\ Cardinality(T) <= Cardinality(S) + 1
<1>1. IsFiniteSet(S \cup {x}) /\ Cardinality(S) \in Nat
      /\ Cardinality(S \cup {x}) = IF x \in S THEN Cardinality(S) ELSE Cardinality(S) + 1
  BY FS_AddElement, FS_CardinalityType, Zenon
<1>2. Cardinality(S \cup {x}) <= Cardinality(S) + 1
  BY <1>1
<1>3. IsFiniteSet(T) /\ Cardinality(T) \in Nat /\ Cardinality(T) <= Cardinality(S \cup {x})
      /\ Cardinality(S \cup {x}) \in Nat
  BY <1>1, NoLarger
<1> QED
  BY <1>1, <1>2, <1>3

LEMMA OneLess ==
  ASSUME NEW S, IsFiniteSet(S), NEW x \in S, NEW T, T \subseteq S \ {x}
  PROVE  /\ IsFiniteSet(T) /\ Cardinality(T) \in Nat /\ Cardinality(S) \in Nat
         /\ Cardinality(T) <= Cardinality(S) - 1
<1>1. IsFiniteSet(S \ {x}) /\ Cardinality(S) \in Nat
      /\ Cardinality(S \ {x}) = IF x \in S THEN Cardinality(S) - 1 ELSE Cardinality(S)
  BY FS_RemoveElement, FS_CardinalityType, Zenon
<1>2. Cardinality(S \ {x}) = Cardinality(S) - 1
  BY <1>1
<1>3. IsFiniteSet(T) /\ Cardinality(T) \in Nat /\ Cardinality(T) <= Cardinality(S \ {x})
  BY <1>1, NoLarger
<1> QED
  BY <1>1, <1>2, <1>3

LEMMA FirstNumbers ==
  ASSUME NEW n \in Nat
  PROVE  IsFiniteSet(1 .. n) /\ Cardinality(1 .. n) = n
<1>1. 1 \in Int /\ n \in Int
  OBVIOUS
<1>2. IsFiniteSet(1 .. n) /\ Cardinality(1 .. n) = IF 1 > n THEN 0 ELSE n - 1 + 1
  BY <1>1, FS_Interval, Zenon
<1>3. (IF 1 > n THEN 0 ELSE n - 1 + 1) = n
  OBVIOUS
<1> QED
  BY <1>2, <1>3

LEMMA EquityInt == OwnLegs => Equity \in Int
<1> SUFFICES ASSUME OwnLegs PROVE Equity \in Int
  OBVIOUS
<1> DEFINE worth == [l \in Legs |-> legs[l].gained + legs[l].qty * (mark - legs[l].entry)]
<1>1. Equity = Deposit + ValueSum(worth, Legs)
  BY DEF Equity, ValueSum
<1>2. \A l \in Legs : worth[l] \in Int
  <2>1. ASSUME NEW l \in Legs PROVE legs[l].gained \in Int /\ legs[l].qty \in Int /\ legs[l].entry \in Int
    BY DEF OwnLegs
  <2>2. mark \in Int
    BY DEF OwnLegs
  <2>3. \A a, b, c, d \in Int : a + b * (c - d) \in Int
    OBVIOUS
  <2> QED
    BY <2>1, <2>2, <2>3
<1> HIDE DEF worth
<1>3. ValueSum(worth, Legs) \in Int
  BY <1>2, RiskConstants, ValueSumInt
<1> QED
  BY <1>1, <1>3, RiskAssumption

\* The size of an order.
LEMMA SizeFits ==
  ASSUME NEW budget \in Int, budget > 0, NEW stop \in Nat, stop > 0, CalcQty(budget, stop) > 0
  PROVE  CalcQty(budget, stop) \in Int /\ FitsBudget(CalcQty(budget, stop), stop, budget)
<1> DEFINE m == stop * StepQty
           k == budget \div m
           q == k * StepQty
<1>1. m \in Nat /\ m > 0
  BY RiskConstants
<1>2. k \in Int /\ m * k <= budget /\ budget < m * (k + 1)
  <2> HIDE DEF m
  <2>1. k \in Int /\ budget = m * k + (budget % m) /\ budget % m \in 0 .. m - 1
    BY <1>1
  <2>2. m * (k + 1) = m * k + m /\ m * k \in Int
    BY <1>1, <2>1
  <2> HIDE DEF k
  <2> QED
    BY <1>1, <2>1, <2>2
<1> HIDE DEF k
<1>3. q \in Int /\ q * stop = m * k /\ (q + StepQty) * stop = m * (k + 1)
  BY <1>2, RiskConstants
<1>4. CalcQty(budget, stop) = IF q < MinQty THEN 0 ELSE Min({q, MaxQty})
  BY DEF CalcQty, k
<1> HIDE DEF m, q
<1>5. Min({q, MaxQty}) = IF q <= MaxQty THEN q ELSE MaxQty
  BY <1>3, RiskConstants, LeastOfTwo
<1>6. CASE CalcQty(budget, stop) = q
  BY <1>2, <1>3, <1>6 DEF FitsBudget
<1>7. CASE CalcQty(budget, stop) = MaxQty /\ q > MaxQty
  <2>1. MaxQty * stop <= q * stop
    BY <1>3, <1>7, RiskConstants
  <2>2. MaxQty * stop \in Int /\ q * stop \in Int
    BY <1>3, RiskConstants
  <2> QED
    BY <1>2, <1>3, <1>7, <2>1, <2>2, RiskConstants DEF FitsBudget
<1>8. CalcQty(budget, stop) # 0
  BY <1>4, <1>5, <1>3, RiskConstants
<1> QED
  BY <1>3, <1>4, <1>5, <1>6, <1>7, <1>8, RiskConstants

\* A step that leaves orders, times and the window alone.
LEMMA OpenFinite ==
  /\ IsFiniteSet(OpenLegs) /\ Cardinality(OpenLegs) \in Nat
  /\ IsFiniteSet(Able) /\ Cardinality(Able) \in Nat /\ Cardinality(Able) <= Cardinality(Workers)
<1>1. OpenLegs \subseteq Legs /\ Able \subseteq Workers
  BY DEF OpenLegs, Able
<1> QED
  BY <1>1, RiskConstants, NoLarger

LEMMA MayAddFinite ==
  \A s \in Nat : /\ IsFiniteSet(MayAdd(s)) /\ Cardinality(MayAdd(s)) \in Nat
<1>1. \A s \in Nat : MayAdd(s) \subseteq Workers
  BY DEF MayAdd
<1> QED
  BY <1>1, RiskConstants, NoLarger

LEMMA SentFinite ==
  ASSUME passed \in Seq(Nat)
  PROVE  \A s \in Nat : /\ IsFiniteSet(SentIn(s)) /\ Cardinality(SentIn(s)) \in Nat
<1>1. IsFiniteSet(1 .. Len(passed))
  BY FS_Interval
<1>2. \A s \in Nat : SentIn(s) \subseteq 1 .. Len(passed)
  BY DEF SentIn
<1> QED
  BY <1>1, <1>2, NoLarger

\* What the frequency rule remembers of a window is no more than its limit.
LEMMA RememberedFew ==
  ASSUME PacedOrders, NEW s \in Nat, Remembered(s)
  PROVE  Cardinality(SentIn(s)) <= MostSent
<1>1. PICK f \in [SentIn(s) -> DOMAIN orderTimes] :
        \A i, j \in SentIn(s) : f[i] = f[j] => i = j
  BY DEF Remembered
<1>2. f \in Injection(SentIn(s), DOMAIN orderTimes)
  BY <1>1 DEF Injection, IsInjective
<1>3. Len(orderTimes) \in Nat /\ DOMAIN orderTimes = 1 .. Len(orderTimes) /\ Len(orderTimes) <= MostSent
  BY DEF PacedOrders
<1>4. IsFiniteSet(DOMAIN orderTimes) /\ Cardinality(DOMAIN orderTimes) = Len(orderTimes)
  BY <1>3, FirstNumbers
<1>5. IsFiniteSet(SentIn(s)) /\ Cardinality(SentIn(s)) <= Cardinality(DOMAIN orderTimes)
  BY <1>2, <1>4, FS_Injection
<1>6. Cardinality(SentIn(s)) \in Nat
  BY <1>5, FS_CardinalityType
<1> QED
  BY <1>3, <1>4, <1>5, <1>6, RiskConstants

LEMMA RiskLimited == RiskInv => LimitsHold
<1> SUFFICES ASSUME RiskInv PROVE LimitsHold
  OBVIOUS
<1>1. Cardinality(OpenLegs) <= RiskLimits["max_total_positions"] + Others
  BY OpenFinite, RiskConstants DEF RiskInv, RoomInv, MostOpen
<1>2. ASSUME NEW i \in DOMAIN passed
      PROVE  Cardinality({j \in DOMAIN passed : passed[j] - passed[i] \in 0 .. RiskLimits["frequency_window"]})
               <= RiskLimits["order_frequency"] + Others
  <2>1. passed[i] \in Nat /\ \A j \in DOMAIN passed : passed[j] \in Nat
    BY DEF RiskInv, PacedOrders
  <2>2. {j \in DOMAIN passed : passed[j] - passed[i] \in 0 .. RateWindow} = SentIn(passed[i])
    BY <2>1, RiskConstants DEF SentIn
  <2>3. Cardinality(SentIn(passed[i])) \in Nat /\ Cardinality(MayAdd(passed[i])) \in Nat
    BY <2>1, SentFinite, MayAddFinite DEF RiskInv, PacedOrders
  <2>4. Remembered(passed[i]) \/ Over(passed[i])
    BY <2>1 DEF RiskInv, PacedOrders
  <2>5. CASE Remembered(passed[i])
    <3>1. Cardinality(SentIn(passed[i])) <= MostSent
      BY <2>1, <2>5, RememberedFew DEF RiskInv
    <3> QED
      BY <2>2, <2>3, <3>1, RiskConstants DEF MostSent, RateWindow
  <2>6. CASE Over(passed[i])
    <3>1. Cardinality(SentIn(passed[i])) <= MostSent + Others
      BY <2>3, <2>6, RiskConstants DEF Over
    <3> QED
      BY <2>2, <3>1 DEF MostSent, RateWindow
  <2> QED
    BY <2>4, <2>5, <2>6
<1>3. ASSUME NEW l \in OpenLegs
      PROVE  /\ legs[l].qty * legs[l].stop <= legs[l].budget
             /\ legs[l].qty < MaxQty => (legs[l].qty + StepQty) * legs[l].stop > legs[l].budget
  BY DEF RiskInv, OwnLegs, OpenLegs, FitsBudget
<1> QED
  BY <1>1, <1>2, <1>3 DEF LimitsHold

LEMMA RiskStart == RiskInit => RiskInv
<1> SUFFICES ASSUME RiskInit PROVE RiskInv
  OBVIOUS
<1>1. \A l \in Legs : legs[l] = FlatLeg
  BY DEF RiskInit
<1>2. \A w \in Workers : judging[w].at = "idle"
  BY DEF RiskInit, NoDecision
<1>3. OwnLegs
  <2>1. FlatLeg \in [qty : Int, entry : Int, gained : Int, stop : Nat, budget : Int] /\ FlatLeg.qty = 0
    BY DEF FlatLeg
  <2>2. mark \in Nat
    BY RiskAssumption DEF RiskInit
  <2> QED
    BY <1>1, <1>2, <2>1, <2>2 DEF OwnLegs, RiskInit
<1>4. OpenLegs = {} /\ Able = {}
  BY <1>1, <1>2 DEF OpenLegs, Able, FlatLeg
<1>5. Cardinality({}) = 0
  BY FS_EmptySet
<1>6. RoomInv
  BY <1>4, <1>5, RiskConstants DEF RoomInv
<1>7. ASSUME NEW s \in Nat PROVE Remembered(s)
  <2>1. SentIn(s) = {}
    BY DEF SentIn, RiskInit
  <2>2. [j \in {} |-> 1] \in [SentIn(s) -> DOMAIN orderTimes]
    BY <2>1
  <2> QED
    BY <2>1, <2>2 DEF Remembered
<1>8. orderTimes \in Seq(Nat) /\ passed \in Seq(Nat) /\ Len(orderTimes) = 0
  BY DEF RiskInit
<1> QED
  BY <1>3, <1>6, <1>7, <1>8, RiskConstants DEF RiskInv, PacedOrders

-----------------------------------------------------------------------------
(* A worker asks.                                                          *)

LEMMA SnapshotSays ==
  ASSUME NEW w, NEW p, NEW offset, NEW qty
  PROVE  LET d == RiskSnapshot(w, p, offset, qty) IN
         /\ d.at = "asked" /\ d.leg = <<w, p>> /\ d.offset = offset /\ d.qty = qty
         /\ d.stamp = second /\ d.total = Cardinality(OpenLegs)
         /\ {"at", "leg", "offset", "qty", "stamp", "total"} \subseteq DOMAIN d
  BY DEF RiskSnapshot

LEMMA AskKeeps ==
  ASSUME RiskInv, NEW w \in Workers, NEW p \in TagPeriods, NEW offset \in {"OPEN", "CLOSE"}, NEW qty \in Int,
         judging[w] = NoDecision, Sample(w, p, offset, qty),
         UNCHANGED <<second, mark, orderTimes, passed>>,
         legs' \in [Legs -> [qty : Int, entry : Int, gained : Int, stop : Nat, budget : Int]],
         \A l \in Legs : l # <<w, p>> => legs'[l] = legs[l],
         legs'[<<w, p>>].qty = legs[<<w, p>>].qty,
         legs[<<w, p>>].qty # 0 => legs'[<<w, p>>] = legs[<<w, p>>],
         offset = "OPEN" => /\ legs'[<<w, p>>].qty = 0
                            /\ FitsBudget(qty, legs'[<<w, p>>].stop, legs'[<<w, p>>].budget)
  PROVE  RiskInv'
<1> DEFINE new == judging'[w]
<1>1. /\ new.at = "asked" /\ new.leg = <<w, p>> /\ new.offset = offset /\ new.qty = qty
      /\ new.stamp = second /\ new.total = Cardinality(OpenLegs)
      /\ {"at", "leg", "offset", "qty", "stamp", "total"} \subseteq DOMAIN new
      /\ DOMAIN judging' = Workers
      /\ \A v \in Workers : v # w => judging'[v] = judging[v]
  <2>1. new = RiskSnapshot(w, p, offset, qty) /\ DOMAIN judging' = Workers
        /\ \A v \in Workers : v # w => judging'[v] = judging[v]
    BY DEF Sample, RiskInv, OwnLegs
  <2> HIDE DEF new
  <2> QED
    BY <2>1, SnapshotSays
<1> HIDE DEF new
<1>2. judging[w].at = "idle"
  BY DEF NoDecision
<1>3. <<w, p>> \in Legs
  BY DEF Legs
<1>4. \A l \in Legs : l[1] # w => legs'[l] = legs[l]
  OBVIOUS
<1>5. OwnLegs'
  <2>1. ASSUME NEW v \in Workers, judging'[v].at # "idle"
        PROVE  LET d == judging'[v] IN
               /\ {"at", "leg", "offset", "qty", "stamp", "total"} \subseteq DOMAIN d
               /\ d.leg \in Legs /\ d.leg[1] = v /\ d.qty \in Int /\ d.stamp \in Nat /\ d.stamp <= second
               /\ d.offset \in {"OPEN", "CLOSE"} /\ d.total \in Nat
               /\ d.offset = "OPEN" => /\ legs'[d.leg].qty = 0
                                       /\ FitsBudget(d.qty, legs'[d.leg].stop, legs'[d.leg].budget)
    <3>1. CASE v = w
      <4>1. second \in Nat
        BY DEF RiskInv, OwnLegs
      <4> QED
        BY <1>1, <1>3, <3>1, <4>1, OpenFinite DEF new
    <3>2. CASE v # w
      <4>1. judging'[v] = judging[v]
        BY <1>1, <3>2
      <4> QED
        BY <1>4, <2>1, <3>2, <4>1 DEF RiskInv, OwnLegs
    <3> QED
      BY <3>1, <3>2
  <2>2. ASSUME NEW l \in Legs, legs'[l].qty # 0
        PROVE  FitsBudget(legs'[l].qty, legs'[l].stop, legs'[l].budget)
    <3>1. legs'[l] = legs[l]
      BY <2>2
    <3> QED
      BY <2>2, <3>1 DEF RiskInv, OwnLegs
  <2> QED
    BY <1>1, <2>1, <2>2 DEF RiskInv, OwnLegs, FitsBudget
<1>6. RoomInv'
  <2>1. OpenLegs' = OpenLegs
    <3>1. \A l \in Legs : legs'[l].qty = legs[l].qty
      OBVIOUS
    <3> QED
      BY <3>1 DEF OpenLegs
  <2>2. Able' \subseteq Workers
    BY DEF Able
  <2>3. CASE Cardinality(OpenLegs) < MostOpen
    <3>1. Cardinality(Able') \in Nat /\ Cardinality(Able') <= Cardinality(Workers)
      BY <2>2, RiskConstants, NoLarger
    <3> QED
      BY <2>1, <2>3, <3>1, OpenFinite, RiskConstants DEF RoomInv, Others
  <2>4. CASE Cardinality(OpenLegs) >= MostOpen
    <3>1. w \notin Able'
      BY <1>1, <2>4, OpenFinite, RiskConstants DEF Able, new
    <3>2. Able' \subseteq Able
      BY <1>1, <3>1 DEF Able
    <3>3. Cardinality(Able') \in Nat /\ Cardinality(Able') <= Cardinality(Able)
      BY <3>2, OpenFinite, NoLarger
    <3> QED
      BY <2>1, <3>3, OpenFinite, RiskConstants DEF RoomInv, RiskInv
  <2> QED
    BY <2>3, <2>4, OpenFinite, RiskConstants
<1>7. PacedOrders'
  <2>1. ASSUME NEW s \in Nat PROVE Remembered(s)' \/ Over(s)'
    <3>0. SentIn(s)' = SentIn(s)
      BY DEF SentIn
    <3>1. CASE Remembered(s)
      BY <3>0, <3>1 DEF Remembered
    <3>2. CASE Over(s)
      <4>1. MayAdd(s)' \subseteq MayAdd(s)
        BY <1>1, <3>2, RiskConstants DEF MayAdd, Over, RiskInv, OwnLegs, new
      <4>2. Cardinality(MayAdd(s)') \in Nat /\ Cardinality(MayAdd(s)') <= Cardinality(MayAdd(s))
            /\ Cardinality(MayAdd(s)) \in Nat
        BY <4>1, MayAddFinite, NoLarger
      <4>3. Cardinality(SentIn(s)) \in Nat
        BY SentFinite DEF RiskInv, PacedOrders
      <4> QED
        BY <3>0, <3>2, <4>2, <4>3, RiskConstants DEF Over
    <3> QED
      BY <3>1, <3>2 DEF RiskInv, PacedOrders
  <2> QED
    BY <2>1 DEF RiskInv, PacedOrders
<1> QED
  BY <1>5, <1>6, <1>7 DEF RiskInv

LEMMA AskToOpenKeeps ==
  ASSUME RiskInv, NEW w \in Workers, NEW p \in TagPeriods, AskToOpen(w, p)
  PROVE  RiskInv'
<1>1. PICK stop \in Stops, budget \in {Fixed, (Equity * Share) \div 100} :
        /\ budget > 0 /\ CalcQty(budget, stop) > 0
        /\ Sample(w, p, "OPEN", CalcQty(budget, stop))
        /\ legs' = [legs EXCEPT ![<<w, p>>].stop = stop, ![<<w, p>>].budget = budget]
  BY DEF AskToOpen
<1>2. Equity \in Int /\ Share \in Nat /\ Fixed \in Nat
  BY EquityInt, RiskAssumption DEF RiskInv
<1>3. budget \in Int /\ stop \in Nat /\ stop > 0
  <2>1. Equity * Share \in Int
    BY <1>2
  <2>2. (Equity * Share) \div 100 \in Int
    BY <2>1
  <2> QED
    BY <1>2, <2>2, RiskAssumption
<1>4. CalcQty(budget, stop) \in Int /\ FitsBudget(CalcQty(budget, stop), stop, budget)
  BY <1>1, <1>3, SizeFits
<1>5. <<w, p>> \in Legs /\ legs[<<w, p>>].qty = 0 /\ judging[w] = NoDecision
      /\ UNCHANGED <<second, mark, orderTimes, passed>>
  BY DEF Legs, AskToOpen
<1>6. PICK q : q = CalcQty(budget, stop)
  OBVIOUS
<1>7. /\ legs' \in [Legs -> [qty : Int, entry : Int, gained : Int, stop : Nat, budget : Int]]
      /\ \A l \in Legs : l # <<w, p>> => legs'[l] = legs[l]
      /\ legs'[<<w, p>>].qty = legs[<<w, p>>].qty
      /\ legs'[<<w, p>>].stop = stop /\ legs'[<<w, p>>].budget = budget
  BY <1>1, <1>3, <1>5 DEF RiskInv, OwnLegs
<1>8. Sample(w, p, "OPEN", q) /\ q \in Int /\ FitsBudget(q, stop, budget)
  BY <1>1, <1>4, <1>6
<1> QED
  BY <1>5, <1>7, <1>8, AskKeeps

LEMMA AskToCloseKeeps ==
  ASSUME RiskInv, NEW w \in Workers, NEW p \in TagPeriods, AskToClose(w, p)
  PROVE  RiskInv'
<1>1. PICK q : q = legs[<<w, p>>].qty
  OBVIOUS
<1>2. <<w, p>> \in Legs /\ judging[w] = NoDecision /\ legs' = legs
      /\ UNCHANGED <<second, mark, orderTimes, passed>> /\ Sample(w, p, "CLOSE", q)
  BY <1>1 DEF Legs, AskToClose
<1>3. q \in Int /\ legs \in [Legs -> [qty : Int, entry : Int, gained : Int, stop : Nat, budget : Int]]
  BY <1>1, <1>2 DEF RiskInv, OwnLegs
<1> QED
  BY <1>2, <1>3, AskKeeps

-----------------------------------------------------------------------------
(* The rules judge.                                                        *)

\* The frequency rule forgets from the left, and only what is old enough.
LEMMA RecentDrops ==
  ASSUME orderTimes \in Seq(Nat), NEW d, d.stamp \in Nat
  PROVE  \E n \in 0 .. Len(orderTimes) :
           /\ RecentOrders(d) = SubSeq(orderTimes, n + 1, Len(orderTimes))
           /\ \A j \in 1 .. n : d.stamp - orderTimes[j] > RateWindow
<1> DEFINE old(t) == d.stamp - t > RiskLimits["frequency_window"]
           P == {i \in DOMAIN orderTimes : \A j \in 1 .. i : old(orderTimes[j])}
<1>1. PICK len \in Nat : len = Len(orderTimes) /\ DOMAIN orderTimes = 1 .. len
  OBVIOUS
<1>2. RecentOrders(d) = SubSeq(orderTimes, 1 + Cardinality(P), Len(orderTimes))
  BY DEF RecentOrders
<1>3. \A i \in P : i \in 1 .. len /\ \A j \in 1 .. i : old(orderTimes[j])
  BY <1>1
<1>4. \A i \in 1 .. len : (\A j \in 1 .. i : old(orderTimes[j])) => i \in P
  BY <1>1
<1> HIDE DEF P, old
<1>5. P \subseteq 1 .. len /\ IsFiniteSet(1 .. len) /\ Cardinality(1 .. len) = len
  BY <1>3, FirstNumbers
<1>6. PICK n : n = Cardinality(P)
  OBVIOUS
<1>7. n \in Nat /\ n <= len
  BY <1>5, <1>6, NoLarger
<1>8. \A j \in 1 .. n : old(orderTimes[j])
  <2> SUFFICES ASSUME NEW j \in 1 .. n, ~old(orderTimes[j]) PROVE FALSE
    OBVIOUS
  <2>1. j \in Nat /\ 1 <= j /\ j <= n /\ j - 1 \in Nat
    BY <1>7
  <2>2. P \subseteq 1 .. (j - 1)
    BY <1>3, <2>1
  <2>3. IsFiniteSet(1 .. (j - 1)) /\ Cardinality(1 .. (j - 1)) = j - 1
    BY <2>1, FirstNumbers
  <2>4. n <= j - 1
    BY <1>6, <2>2, <2>3, NoLarger
  <2> QED
    BY <1>7, <2>1, <2>4
<1>9. n \in 0 .. Len(orderTimes) /\ 1 + n = n + 1
  BY <1>1, <1>7
<1>10. RecentOrders(d) = SubSeq(orderTimes, n + 1, Len(orderTimes))
  BY <1>2, <1>6, <1>9
<1>11. \A j \in 1 .. n : d.stamp - orderTimes[j] > RateWindow
  BY <1>8 DEF old, RateWindow
<1> QED
  BY <1>9, <1>10, <1>11

\* What a judgement makes of the times: some were forgotten, all too old for the
\* order, and if it passed its own is the last.
JudgedTimes(t, n, goes) ==
  /\ n \in 0 .. Len(orderTimes)
  /\ \A j \in 1 .. n : t - orderTimes[j] > RateWindow
  /\ orderTimes' \in Seq(Nat)
  /\ Len(orderTimes') >= Len(orderTimes) - n
  /\ \A i \in n + 1 .. Len(orderTimes) : orderTimes'[i - n] = orderTimes[i]
  /\ IF goes
     THEN /\ passed' = Append(passed, t)
          /\ Len(orderTimes') > Len(orderTimes) - n /\ orderTimes'[Len(orderTimes')] = t
     ELSE passed' = passed

LEMMA JudgedWindow ==
  ASSUME RiskInv, NEW w \in Workers, judging[w].at = "asked", judging'[w].at # "asked",
         \A v \in Workers : v # w => judging'[v] = judging[v], UNCHANGED second,
         NEW t, t = judging[w].stamp, NEW n, NEW goes \in BOOLEAN, JudgedTimes(t, n, goes), NEW s \in Nat
  PROVE  Remembered(s)' \/ Over(s)'
<1>0. t \in Nat /\ t <= second /\ second \in Nat /\ second' = second /\ orderTimes \in Seq(Nat) /\ passed \in Seq(Nat)
  BY DEF RiskInv, OwnLegs, PacedOrders
<1>1. /\ t \in Nat /\ t <= second /\ second \in Nat /\ second' = second
      /\ orderTimes \in Seq(Nat) /\ passed \in Seq(Nat)
      /\ Len(orderTimes) \in Nat /\ Len(orderTimes') \in Nat /\ n \in Nat /\ n <= Len(orderTimes)
      /\ Len(orderTimes') >= Len(orderTimes) - n
      /\ DOMAIN orderTimes = 1 .. Len(orderTimes) /\ DOMAIN orderTimes' = 1 .. Len(orderTimes')
  <2>1. Len(orderTimes) \in Nat /\ DOMAIN orderTimes = 1 .. Len(orderTimes)
    BY <1>0
  <2>2. /\ Len(orderTimes') \in Nat /\ n \in Nat /\ n <= Len(orderTimes)
        /\ Len(orderTimes') >= Len(orderTimes) - n /\ DOMAIN orderTimes' = 1 .. Len(orderTimes')
    BY <1>0, <2>1 DEF JudgedTimes
  <2> QED
    BY <1>0, <2>1, <2>2
<1>2. MayAdd(s)' \subseteq MayAdd(s) \ {w} /\ MayAdd(s)' \subseteq Workers \ {w}
  BY <1>1 DEF MayAdd
<1>3. PICK new : new = Len(passed) + 1
  OBVIOUS
<1>4. /\ Len(passed) \in Nat /\ DOMAIN passed = 1 .. Len(passed) /\ new \in Nat
      /\ \A j \in DOMAIN passed : passed'[j] = passed[j] /\ passed[j] \in Nat /\ j # new
      /\ IF goes THEN DOMAIN passed' = DOMAIN passed \cup {new} /\ passed'[new] = t
                 ELSE passed' = passed
  <2>1. Len(passed) \in Nat /\ DOMAIN passed = 1 .. Len(passed) /\ \A j \in DOMAIN passed : passed[j] \in Nat
    <3>1. passed \in Seq(Nat)
      BY <1>0
    <3>2. Len(passed) \in Nat /\ DOMAIN passed = 1 .. Len(passed)
      BY <3>1
    <3> QED
      BY <3>1, <3>2
  <2>2. CASE goes
    <3>1. passed' = Append(passed, t)
      BY <2>2 DEF JudgedTimes
    <3>2. DOMAIN passed' = 1 .. Len(passed) + 1 /\ passed'[Len(passed) + 1] = t
          /\ \A j \in 1 .. Len(passed) : passed'[j] = passed[j]
      BY <1>1, <3>1
    <3> QED
      BY <1>3, <2>1, <2>2, <3>2
  <2>3. CASE ~goes
    <3>1. passed' = passed
      BY <2>3 DEF JudgedTimes
    <3> QED
      BY <1>3, <2>1, <2>3, <3>1
  <2> QED
    BY <2>2, <2>3
<1>5. IF goes /\ t \in s .. s + RateWindow THEN SentIn(s)' = SentIn(s) \cup {new} /\ new \notin SentIn(s)
      ELSE SentIn(s)' = SentIn(s)
  BY <1>4 DEF SentIn
<1>6. /\ Cardinality(SentIn(s)) \in Nat /\ IsFiniteSet(SentIn(s))
      /\ Cardinality(MayAdd(s)) \in Nat /\ IsFiniteSet(MayAdd(s))
      /\ Cardinality(SentIn(s)') \in Nat /\ Cardinality(SentIn(s)') <= Cardinality(SentIn(s)) + 1
  <2>1. /\ Cardinality(SentIn(s)) \in Nat /\ IsFiniteSet(SentIn(s))
        /\ Cardinality(MayAdd(s)) \in Nat /\ IsFiniteSet(MayAdd(s))
    BY <1>1, SentFinite, MayAddFinite
  <2>2. SentIn(s)' \subseteq SentIn(s) \cup {new}
    BY <1>5
  <2> QED
    BY <2>1, <2>2, OneMore
<1>7. RateWindow \in Nat /\ MostSent \in Nat /\ Others \in Nat
  BY RiskConstants
<1>8. CASE Over(s)
  <2>1. second' > s + RateWindow
    BY <1>1, <1>8 DEF Over
  <2>2. CASE t <= s + RateWindow
    <3>1. w \in MayAdd(s)
      BY <2>2 DEF MayAdd
    <3>2. Cardinality(MayAdd(s)') \in Nat /\ Cardinality(MayAdd(s)') <= Cardinality(MayAdd(s)) - 1
      BY <1>2, <1>6, <3>1, OneLess
    <3> QED
      BY <1>6, <1>7, <1>8, <2>1, <3>2 DEF Over
  <2>3. CASE ~(t <= s + RateWindow)
    <3>1. SentIn(s)' = SentIn(s)
      BY <1>1, <1>5, <1>7, <2>3
    <3>2. Cardinality(MayAdd(s)') \in Nat /\ Cardinality(MayAdd(s)') <= Cardinality(MayAdd(s))
      BY <1>2, <1>6, NoLarger
    <3> QED
      BY <1>6, <1>7, <1>8, <2>1, <3>1, <3>2 DEF Over
  <2> QED
    BY <2>2, <2>3
<1>9. CASE Remembered(s) /\ t > s + RateWindow
  <2>1. second' > s + RateWindow
    <3>1. t \in Nat /\ second \in Nat /\ t <= second /\ second' = second /\ s + RateWindow \in Nat
      BY <1>0, <1>7
    <3> QED
      BY <1>9, <3>1
  <2>2. SentIn(s)' = SentIn(s)
    BY <1>1, <1>5, <1>7, <1>9
  <2>3. Cardinality(SentIn(s)) <= MostSent
    BY <1>9, RememberedFew DEF RiskInv
  <2>4. Cardinality(MayAdd(s)') \in Nat /\ Cardinality(MayAdd(s)') <= Cardinality(Workers) - 1
    BY <1>2, RiskConstants, OneLess
  <2> QED
    BY <1>6, <1>7, <2>1, <2>2, <2>3, <2>4 DEF Over, Others
<1>10. CASE Remembered(s) /\ ~(t > s + RateWindow)
  <2>1. PICK f \in [SentIn(s) -> DOMAIN orderTimes] :
          /\ \A i, j \in SentIn(s) : f[i] = f[j] => i = j
          /\ \A j \in SentIn(s) : orderTimes[f[j]] = passed[j]
    BY <1>10 DEF Remembered
  <2>2. \A j \in SentIn(s) : f[j] \in Nat /\ f[j] > n /\ f[j] <= Len(orderTimes)
    <3> SUFFICES ASSUME NEW j \in SentIn(s) PROVE f[j] \in Nat /\ f[j] > n /\ f[j] <= Len(orderTimes)
      OBVIOUS
    <3>1. f[j] \in 1 .. Len(orderTimes) /\ orderTimes[f[j]] = passed[j] /\ passed[j] \in s .. s + RateWindow
      BY <1>1, <2>1 DEF SentIn
    <3>2. f[j] \in 1 .. n => t - passed[j] > RateWindow
      BY <3>1 DEF JudgedTimes
    <3>3. passed[j] \in Int /\ s <= passed[j] /\ ~(t - passed[j] > RateWindow)
      <4>1. PICK x : x = passed[j]
        OBVIOUS
      <4>2. x \in Int /\ s <= x /\ x <= s + RateWindow
        BY <1>7, <3>1, <4>1
      <4>3. t \in Nat /\ t <= s + RateWindow
        <5>1. t \in Nat /\ s + RateWindow \in Nat /\ ~(t > s + RateWindow)
          BY <1>0, <1>7, <1>10
        <5> QED
          BY <5>1
      <4>4. ~(t - x > RateWindow)
        BY <1>7, <4>2, <4>3
      <4> QED
        BY <4>1, <4>2, <4>4
    <3>4. f[j] \notin 1 .. n
      BY <3>2, <3>3
    <3>5. PICK k : k = f[j]
      OBVIOUS
    <3>6. k \in 1 .. Len(orderTimes) /\ k \notin 1 .. n /\ n \in Nat /\ Len(orderTimes) \in Nat
      BY <1>1, <3>1, <3>4, <3>5
    <3>7. k \in Nat /\ k > n /\ k <= Len(orderTimes)
      BY <3>6
    <3> QED
      BY <3>5, <3>7
  <2>3. \A j \in SentIn(s) : /\ f[j] - n \in 1 .. Len(orderTimes) - n /\ f[j] - n \in DOMAIN orderTimes'
                             /\ orderTimes'[f[j] - n] = passed[j] /\ passed'[j] = passed[j]
    <3> SUFFICES ASSUME NEW j \in SentIn(s)
                 PROVE  /\ f[j] - n \in 1 .. Len(orderTimes) - n /\ f[j] - n \in DOMAIN orderTimes'
                        /\ orderTimes'[f[j] - n] = passed[j] /\ passed'[j] = passed[j]
      OBVIOUS
    <3>1. f[j] - n \in 1 .. Len(orderTimes) - n /\ Len(orderTimes') >= Len(orderTimes) - n
          /\ f[j] \in n + 1 .. Len(orderTimes)
      <4>1. PICK k, l : k = f[j] /\ l = Len(orderTimes)
        OBVIOUS
      <4>2. k \in Nat /\ k > n /\ k <= l /\ n \in Nat /\ l \in Nat
        BY <1>1, <2>2, <4>1
      <4>3. k - n \in 1 .. l - n /\ k \in n + 1 .. l
        BY <4>2
      <4> QED
        BY <1>1, <4>1, <4>3
    <3>2. orderTimes'[f[j] - n] = orderTimes[f[j]]
      BY <3>1 DEF JudgedTimes
    <3>3. j \in DOMAIN passed
      BY DEF SentIn
    <3> QED
      BY <1>1, <1>4, <2>1, <3>1, <3>2, <3>3
  <2>4. CASE goes /\ t \in s .. s + RateWindow
    <3>0. Len(orderTimes') > Len(orderTimes) - n /\ orderTimes'[Len(orderTimes')] = t
      BY <2>4 DEF JudgedTimes
    <3> DEFINE g == [j \in SentIn(s)' |-> IF j = new THEN Len(orderTimes') ELSE f[j] - n]
    <3>1. SentIn(s)' = SentIn(s) \cup {new} /\ new \notin SentIn(s)
      BY <1>5, <2>4
    <3>2. g \in [SentIn(s)' -> DOMAIN orderTimes']
      BY <1>1, <2>3, <3>0, <3>1
    <3>3. \A i, j \in SentIn(s)' : g[i] = g[j] => i = j
      <4>1. \A i, j \in SentIn(s) : g[i] = g[j] => i = j
        BY <1>1, <2>1, <2>2, <3>1
      <4>2. \A i \in SentIn(s) : g[i] # g[new]
        BY <1>1, <2>3, <3>0, <3>1
      <4> QED
        BY <3>1, <4>1, <4>2
    <3>4. \A j \in SentIn(s)' : orderTimes'[g[j]] = passed'[j]
      BY <1>4, <2>3, <2>4, <3>0, <3>1
    <3> HIDE DEF g
    <3> QED
      BY <3>2, <3>3, <3>4 DEF Remembered
  <2>5. CASE ~(goes /\ t \in s .. s + RateWindow)
    <3> DEFINE g == [j \in SentIn(s)' |-> f[j] - n]
    <3>1. SentIn(s)' = SentIn(s)
      BY <1>5, <2>5
    <3>2. g \in [SentIn(s)' -> DOMAIN orderTimes']
      BY <2>3, <3>1
    <3>3. \A i, j \in SentIn(s)' : g[i] = g[j] => i = j
      BY <1>1, <2>1, <2>2, <3>1
    <3>4. \A j \in SentIn(s)' : orderTimes'[g[j]] = passed'[j]
      BY <2>3, <3>1
    <3> HIDE DEF g
    <3> QED
      BY <3>2, <3>3, <3>4 DEF Remembered
  <2> QED
    BY <2>4, <2>5
<1> QED
  BY <1>8, <1>9, <1>10 DEF RiskInv, PacedOrders

LEMMA JudgeTimes ==
  ASSUME RiskInv, NEW w \in Workers, Judge(w)
  PROVE  \E n \in Nat :
           /\ Len(orderTimes') <= MostSent
           /\ \/ /\ JudgedTimes(judging[w].stamp, n, TRUE) /\ ~RefusedBySdk(judging[w])
                 /\ judging' = [judging EXCEPT ![w].at = "passed"]
              \/ /\ JudgedTimes(judging[w].stamp, n, FALSE)
                 /\ judging' = [judging EXCEPT ![w] = NoDecision]
<1>1. PICK d, t : d = judging[w] /\ t = d.stamp
  OBVIOUS
<1>2. /\ t \in Nat /\ orderTimes \in Seq(Nat) /\ Len(orderTimes) \in Nat /\ Len(orderTimes) <= MostSent
      /\ MostSent \in Nat
  BY <1>1, RiskConstants DEF RiskInv, OwnLegs, PacedOrders, Judge
<1>3. PICK n \in 0 .. Len(orderTimes) :
        /\ RecentOrders(d) = SubSeq(orderTimes, n + 1, Len(orderTimes))
        /\ \A j \in 1 .. n : t - orderTimes[j] > RateWindow
  BY <1>1, <1>2, RecentDrops
<1>n. n \in Nat /\ t = judging[w].stamp
  BY <1>1, <1>2
<1>4. PICK R : R = RecentOrders(d)
  OBVIOUS
<1>5. /\ R \in Seq(Nat) /\ Len(R) = Len(orderTimes) - n /\ Len(R) \in Nat /\ Len(R) <= MostSent
      /\ \A i \in n + 1 .. Len(orderTimes) : R[i - n] = orderTimes[i]
  BY <1>2, <1>3, <1>4
<1>6. CASE /\ judging' = [judging EXCEPT ![w] = NoDecision] /\ UNCHANGED <<orderTimes, passed>>
  <2>1. JudgedTimes(t, 0, FALSE)
    BY <1>2, <1>6 DEF JudgedTimes
  <2> QED
    BY <1>n, <1>2, <1>6, <2>1
<1>7. CASE orderTimes' = R /\ judging' = [judging EXCEPT ![w] = NoDecision] /\ UNCHANGED passed
  <2>1. JudgedTimes(t, n, FALSE)
    BY <1>2, <1>3, <1>5, <1>7 DEF JudgedTimes
  <2> QED
    BY <1>n, <1>5, <1>7, <2>1
<1>8. ASSUME orderTimes' = Append(R, t), Len(R) < MostSent
      PROVE  /\ orderTimes' \in Seq(Nat) /\ Len(orderTimes') = Len(R) + 1 /\ Len(orderTimes') <= MostSent
             /\ orderTimes'[Len(orderTimes')] = t
             /\ \A i \in n + 1 .. Len(orderTimes) : orderTimes'[i - n] = orderTimes[i]
  <2>1. orderTimes' \in Seq(Nat) /\ Len(orderTimes') = Len(R) + 1
        /\ orderTimes'[Len(R) + 1] = t /\ \A i \in 1 .. Len(R) : orderTimes'[i] = R[i]
    BY <1>2, <1>5, <1>8
  <2>2. \A i \in n + 1 .. Len(orderTimes) : i - n \in 1 .. Len(R)
    BY <1>2, <1>3, <1>5
  <2> QED
    BY <1>2, <1>5, <1>8, <2>1, <2>2
<1>9. CASE /\ orderTimes' = Append(R, t) /\ Len(R) < MostSent
           /\ judging' = [judging EXCEPT ![w] = NoDecision] /\ UNCHANGED passed
  <2>1. JudgedTimes(t, n, FALSE)
    BY <1>2, <1>3, <1>5, <1>8, <1>9 DEF JudgedTimes
  <2> QED
    BY <1>n, <1>8, <1>9, <2>1
<1>10. CASE /\ orderTimes' = Append(R, t) /\ Len(R) < MostSent /\ ~RefusedBySdk(d)
            /\ judging' = [judging EXCEPT ![w].at = "passed"] /\ passed' = Append(passed, t)
  <2>1. /\ orderTimes' \in Seq(Nat) /\ Len(orderTimes') = Len(orderTimes) - n + 1 /\ Len(orderTimes') <= MostSent
        /\ orderTimes'[Len(orderTimes')] = t
        /\ \A i \in n + 1 .. Len(orderTimes) : orderTimes'[i - n] = orderTimes[i]
    BY <1>5, <1>8, <1>10
  <2>2. Len(orderTimes') >= Len(orderTimes) - n /\ Len(orderTimes') > Len(orderTimes) - n
    BY <1>2, <1>3, <2>1
  <2>3. JudgedTimes(t, n, TRUE)
    BY <1>3, <1>10, <2>1, <2>2 DEF JudgedTimes
  <2> QED
    BY <1>n, <1>1, <1>10, <2>1, <2>3
<1> QED
  <2>1. \/ /\ judging' = [judging EXCEPT ![w] = NoDecision] /\ UNCHANGED <<orderTimes, passed>>
        \/ orderTimes' = R /\ judging' = [judging EXCEPT ![w] = NoDecision] /\ UNCHANGED passed
        \/ /\ Len(R) < MostSent /\ orderTimes' = Append(R, t)
           /\ IF RefusedAfter(d) \/ RefusedBySdk(d)
              THEN judging' = [judging EXCEPT ![w] = NoDecision] /\ UNCHANGED passed
              ELSE judging' = [judging EXCEPT ![w].at = "passed"] /\ passed' = Append(passed, t)
    BY <1>1, <1>4 DEF Judge, MostSent
  <2> QED
    BY <1>6, <1>7, <1>9, <1>10, <2>1

LEMMA JudgeKeeps ==
  ASSUME RiskInv, NEW w \in Workers, Judge(w)
  PROVE  RiskInv'
<1>0. PICK n \in Nat :
        /\ Len(orderTimes') <= MostSent
        /\ \/ /\ JudgedTimes(judging[w].stamp, n, TRUE) /\ ~RefusedBySdk(judging[w])
              /\ judging' = [judging EXCEPT ![w].at = "passed"]
           \/ /\ JudgedTimes(judging[w].stamp, n, FALSE)
              /\ judging' = [judging EXCEPT ![w] = NoDecision]
  BY JudgeTimes
<1>1. PICK goes \in BOOLEAN :
        /\ JudgedTimes(judging[w].stamp, n, goes) /\ Len(orderTimes') <= MostSent
        /\ IF goes THEN judging' = [judging EXCEPT ![w].at = "passed"] /\ ~RefusedBySdk(judging[w])
                   ELSE judging' = [judging EXCEPT ![w] = NoDecision]
  BY <1>0
<1>2. judging[w].at = "asked" /\ UNCHANGED <<second, mark, legs>> /\ DOMAIN judging = Workers
      /\ {"at", "leg", "offset", "qty", "stamp", "total"} \subseteq DOMAIN judging[w]
  BY DEF Judge, RiskInv, OwnLegs
<1>3. /\ DOMAIN judging' = Workers /\ \A v \in Workers : v # w => judging'[v] = judging[v]
      /\ judging'[w].at # "idle" =>
           /\ goes /\ judging'[w].at = "passed" /\ DOMAIN judging'[w] = DOMAIN judging[w]
           /\ judging'[w].leg = judging[w].leg /\ judging'[w].offset = judging[w].offset
           /\ judging'[w].qty = judging[w].qty /\ judging'[w].stamp = judging[w].stamp
           /\ judging'[w].total = judging[w].total
  BY <1>1, <1>2 DEF NoDecision
<1>4. judging'[w].at # "asked"
  BY <1>1, <1>2 DEF NoDecision
<1>5. OwnLegs'
  <2>1. ASSUME NEW v \in Workers, judging'[v].at # "idle"
        PROVE  LET d == judging'[v] IN
               /\ {"at", "leg", "offset", "qty", "stamp", "total"} \subseteq DOMAIN d
               /\ d.leg \in Legs /\ d.leg[1] = v /\ d.qty \in Int /\ d.stamp \in Nat /\ d.stamp <= second
               /\ d.offset \in {"OPEN", "CLOSE"} /\ d.total \in Nat
               /\ d.offset = "OPEN" => /\ legs[d.leg].qty = 0
                                       /\ FitsBudget(d.qty, legs[d.leg].stop, legs[d.leg].budget)
    <3>1. CASE v = w
      BY <1>2, <1>3, <2>1, <3>1 DEF RiskInv, OwnLegs
    <3>2. CASE v # w
      BY <1>3, <2>1, <3>2 DEF RiskInv, OwnLegs
    <3> QED
      BY <3>1, <3>2
  <2> QED
    BY <1>2, <1>3, <2>1 DEF RiskInv, OwnLegs, FitsBudget
<1>6. RoomInv'
  <2>1. OpenLegs' = OpenLegs
    BY <1>2 DEF OpenLegs
  <2>2. w \in Able' => w \in Able
    <3> SUFFICES ASSUME w \in Able' PROVE w \in Able
      OBVIOUS
    <3>1. goes /\ judging[w].offset = "OPEN"
      BY <1>3 DEF Able
    <3>2. ~(judging[w].offset = "OPEN" /\ judging[w].total >= RiskLimits["max_total_positions"])
      <4>1. ~RefusedBySdk(judging[w])
        BY <1>1, <3>1
      <4>2. "max_total_positions" \in DOMAIN RiskLimits
        BY RiskAssumption
      <4> QED
        BY <4>1, <4>2 DEF RefusedBySdk
    <3>3. judging[w].total \in Nat
      BY <1>2 DEF RiskInv, OwnLegs
    <3> QED
      BY <1>2, <3>1, <3>2, <3>3, RiskConstants DEF Able, MostOpen
  <2>3. Able' \subseteq Able
    BY <1>3, <2>2 DEF Able
  <2>4. Cardinality(Able') \in Nat /\ Cardinality(Able') <= Cardinality(Able)
    BY <2>3, OpenFinite, NoLarger
  <2> QED
    BY <2>1, <2>4, OpenFinite, RiskConstants DEF RoomInv, RiskInv
<1>7. PacedOrders'
  <2>1. \A s \in Nat : Remembered(s)' \/ Over(s)'
    BY <1>1, <1>2, <1>3, <1>4, JudgedWindow
  <2>2. orderTimes' \in Seq(Nat) /\ passed' \in Seq(Nat)
    <3>0. PICK t : t = judging[w].stamp
      OBVIOUS
    <3>1. t \in Nat /\ passed \in Seq(Nat)
      BY <3>0, <1>2 DEF RiskInv, OwnLegs, PacedOrders
    <3>2. passed' = passed \/ passed' = Append(passed, t)
      BY <3>0, <1>1 DEF JudgedTimes
    <3>3. orderTimes' \in Seq(Nat)
      BY <1>1 DEF JudgedTimes
    <3>4. passed' \in Seq(Nat)
      BY <3>1, <3>2
    <3> QED
      BY <3>3, <3>4
  <2> QED
    BY <1>1, <2>1, <2>2 DEF PacedOrders
<1> QED
  BY <1>5, <1>6, <1>7 DEF RiskInv

-----------------------------------------------------------------------------
(* Orders are filled and time passes.                                      *)

LEMMA WindowsStay ==
  ASSUME RiskInv, UNCHANGED <<orderTimes, passed>>, second' \in Nat, second' >= second,
         \A v \in Workers : judging'[v] = judging[v] \/ judging'[v].at # "asked"
  PROVE  PacedOrders'
<1>1. second \in Nat
  BY DEF RiskInv, OwnLegs
<1>2. ASSUME NEW s \in Nat PROVE Remembered(s)' \/ Over(s)'
  <2>0. SentIn(s)' = SentIn(s)
    BY DEF SentIn
  <2>1. CASE Remembered(s)
    BY <2>0, <2>1 DEF Remembered
  <2>2. CASE Over(s)
    <3>1. MayAdd(s)' \subseteq MayAdd(s)
      BY DEF MayAdd
    <3>2. Cardinality(MayAdd(s)') \in Nat /\ Cardinality(MayAdd(s)') <= Cardinality(MayAdd(s))
          /\ Cardinality(MayAdd(s)) \in Nat
      BY <3>1, MayAddFinite, NoLarger
    <3>3. Cardinality(SentIn(s)) \in Nat
      BY SentFinite DEF RiskInv, PacedOrders
    <3> QED
      BY <1>1, <2>0, <2>2, <3>2, <3>3, RiskConstants DEF Over
  <2> QED
    BY <2>1, <2>2 DEF RiskInv, PacedOrders
<1> QED
  BY <1>2 DEF RiskInv, PacedOrders

LegRecord == [qty : Int, entry : Int, gained : Int, stop : Nat, budget : Int]

LEMMA LegOpened ==
  ASSUME NEW e \in LegRecord, NEW q \in Int, NEW m \in Int
  PROVE  [e EXCEPT !.qty = q, !.entry = m] \in LegRecord
BY DEF LegRecord

LEMMA LegGains ==
  ASSUME NEW e \in LegRecord, NEW g \in Int
  PROVE  [e EXCEPT !.gained = g] \in LegRecord
BY DEF LegRecord

LEMMA LegParts ==
  ASSUME NEW e, NEW q, NEW m, NEW g
  PROVE  [e EXCEPT !.qty = q, !.entry = m, !.gained = g]
           = [[e EXCEPT !.qty = q, !.entry = m] EXCEPT !.gained = g]
OBVIOUS

LEMMA LegEmptied ==
  ASSUME NEW e \in LegRecord, NEW z \in Int, NEW g \in Int
  PROVE  [e EXCEPT !.qty = z, !.entry = z, !.gained = g] \in LegRecord
BY LegOpened, LegGains, LegParts

LEMMA LegClosed ==
  ASSUME NEW e \in LegRecord, NEW g \in Int
  PROVE  [e EXCEPT !.qty = 0, !.entry = 0, !.gained = g] \in LegRecord
<1>1. PICK z \in Int : z = 0
  OBVIOUS
<1> QED
  BY <1>1, LegEmptied

LEMMA SendKeepsRisk ==
  ASSUME RiskInv, NEW w \in Workers, SendPassed(w)
  PROVE  RiskInv'
<1>1. PICK d : d = judging[w]
  OBVIOUS
<1>2. /\ d.at = "passed" /\ d.leg \in Legs /\ d.leg[1] = w /\ d.qty \in Int /\ d.offset \in {"OPEN", "CLOSE"}
      /\ d.offset = "OPEN" => /\ legs[d.leg].qty = 0
                              /\ FitsBudget(d.qty, legs[d.leg].stop, legs[d.leg].budget)
      /\ UNCHANGED <<second, mark, orderTimes, passed>> /\ mark \in Nat
      /\ legs \in [Legs -> [qty : Int, entry : Int, gained : Int, stop : Nat, budget : Int]]
  BY <1>1 DEF SendPassed, RiskInv, OwnLegs
<1>3. /\ DOMAIN judging' = Workers /\ judging'[w].at = "idle"
      /\ \A v \in Workers : v # w => judging'[v] = judging[v]
  BY DEF SendPassed, NoDecision, RiskInv, OwnLegs
<1>4. PICK l : l = d.leg
  OBVIOUS
<1>5. PICK gain : gain = legs[l].gained + d.qty * (mark - legs[l].entry)
  OBVIOUS
<1>6. gain \in Int
  <2>1. legs[l].gained \in Int /\ legs[l].entry \in Int
    BY <1>2, <1>4
  <2>2. \A a, b, c, e \in Int : a + b * (c - e) \in Int
    OBVIOUS
  <2> QED
    BY <1>2, <1>5, <2>1, <2>2
<1>8. /\ legs' \in [Legs -> [qty : Int, entry : Int, gained : Int, stop : Nat, budget : Int]]
      /\ \A k \in Legs : k # l => legs'[k] = legs[k]
      /\ legs'[l].stop = legs[l].stop /\ legs'[l].budget = legs[l].budget
      /\ legs'[l].qty = IF d.offset = "OPEN" THEN d.qty ELSE 0
  <2>1. legs[l] \in [qty : Int, entry : Int, gained : Int, stop : Nat, budget : Int] /\ l \in Legs
    BY <1>2, <1>4
  <2>2. CASE d.offset = "OPEN"
    <3>1. legs' = [legs EXCEPT ![l] = [legs[l] EXCEPT !.qty = d.qty, !.entry = mark]]
      BY <1>1, <1>4, <2>2 DEF SendPassed
    <3>2. [legs[l] EXCEPT !.qty = d.qty, !.entry = mark] \in [qty : Int, entry : Int, gained : Int, stop : Nat, budget : Int]
      <4>1. PICK e : e = legs[l]
        OBVIOUS
      <4>2. PICK q, m : q = d.qty /\ m = mark
        OBVIOUS
      <4>3. e \in LegRecord /\ q \in Int /\ m \in Int
        BY <1>2, <2>1, <4>1, <4>2 DEF LegRecord
      <4>4. [e EXCEPT !.qty = q, !.entry = m] \in LegRecord
        BY <4>3, LegOpened
      <4> QED
        BY <4>1, <4>2, <4>4 DEF LegRecord
    <3> QED
      BY <1>2, <2>1, <2>2, <3>1, <3>2
  <2>3. CASE d.offset # "OPEN"
    <3>1. legs' = [legs EXCEPT ![l] = [legs[l] EXCEPT !.qty = 0, !.entry = 0, !.gained = gain]]
      <4>1. legs' = [legs EXCEPT ![l] = [legs[l] EXCEPT !.qty = 0, !.entry = 0,
                                         !.gained = legs[l].gained + d.qty * (mark - legs[l].entry)]]
        BY <1>1, <1>4, <2>3 DEF SendPassed
      <4> QED
        BY <1>5, <4>1
    <3>2. [legs[l] EXCEPT !.qty = 0, !.entry = 0, !.gained = gain] \in [qty : Int, entry : Int, gained : Int, stop : Nat, budget : Int]
      <4>1. PICK e : e = legs[l]
        OBVIOUS
      <4>2. e \in LegRecord
        BY <2>1, <4>1 DEF LegRecord
      <4>3. [e EXCEPT !.qty = 0, !.entry = 0, !.gained = gain] \in LegRecord
        BY <1>6, <4>2, LegClosed
      <4> QED
        BY <4>1, <4>3 DEF LegRecord
    <3> QED
      BY <1>2, <2>1, <2>3, <3>1, <3>2
  <2> QED
    BY <2>2, <2>3
<1>9. OwnLegs'
  <2>1. ASSUME NEW v \in Workers, judging'[v].at # "idle"
        PROVE  LET e == judging'[v] IN
               /\ {"at", "leg", "offset", "qty", "stamp", "total"} \subseteq DOMAIN e
               /\ e.leg \in Legs /\ e.leg[1] = v /\ e.qty \in Int /\ e.stamp \in Nat /\ e.stamp <= second
               /\ e.offset \in {"OPEN", "CLOSE"} /\ e.total \in Nat
               /\ e.offset = "OPEN" => /\ legs'[e.leg].qty = 0
                                       /\ FitsBudget(e.qty, legs'[e.leg].stop, legs'[e.leg].budget)
    <3>1. v # w /\ judging'[v] = judging[v]
      BY <1>3, <2>1
    <3>2. judging[v].leg \in Legs /\ judging[v].leg # l
      BY <1>2, <1>4, <2>1, <3>1 DEF RiskInv, OwnLegs
    <3>3. legs'[judging[v].leg] = legs[judging[v].leg]
      BY <1>8, <3>2
    <3> QED
      BY <2>1, <3>1, <3>3 DEF RiskInv, OwnLegs
  <2>2. ASSUME NEW k \in Legs, legs'[k].qty # 0
        PROVE  FitsBudget(legs'[k].qty, legs'[k].stop, legs'[k].budget)
    <3>1. CASE k = l
      BY <1>2, <1>4, <1>8, <2>2, <3>1
    <3>2. CASE k # l
      BY <1>8, <2>2, <3>2 DEF RiskInv, OwnLegs
    <3> QED
      BY <3>1, <3>2
  <2> QED
    BY <1>2, <1>3, <1>8, <2>1, <2>2 DEF RiskInv, OwnLegs, FitsBudget
<1>10. RoomInv'
  <2>1. Able' \subseteq Able \ {w} /\ Able' \subseteq Able
    BY <1>3 DEF Able
  <2>2. CASE d.offset = "OPEN"
    <3>1. w \in Able
      BY <1>1, <1>2, <2>2 DEF Able
    <3>2. OpenLegs' \subseteq OpenLegs \cup {l}
      BY <1>8 DEF OpenLegs
    <3>3. Cardinality(Able') \in Nat /\ Cardinality(Able') <= Cardinality(Able) - 1
      BY <2>1, <3>1, OpenFinite, OneLess
    <3>4. Cardinality(OpenLegs') \in Nat /\ Cardinality(OpenLegs') <= Cardinality(OpenLegs) + 1
      BY <3>2, OpenFinite, OneMore
    <3> QED
      BY <3>3, <3>4, OpenFinite, RiskConstants DEF RoomInv, RiskInv
  <2>3. CASE d.offset # "OPEN"
    <3>1. OpenLegs' \subseteq OpenLegs
      BY <1>8, <2>3 DEF OpenLegs
    <3>2. Cardinality(Able') \in Nat /\ Cardinality(Able') <= Cardinality(Able)
      BY <2>1, OpenFinite, NoLarger
    <3>3. Cardinality(OpenLegs') \in Nat /\ Cardinality(OpenLegs') <= Cardinality(OpenLegs)
      BY <3>1, OpenFinite, NoLarger
    <3> QED
      BY <3>2, <3>3, OpenFinite, RiskConstants DEF RoomInv, RiskInv
  <2> QED
    BY <2>2, <2>3
<1>11. PacedOrders'
  <2>1. second \in Nat /\ second' = second
    BY <1>2 DEF RiskInv, OwnLegs
  <2>2. \A v \in Workers : judging'[v] = judging[v] \/ judging'[v].at # "asked"
    BY <1>3
  <2> QED
    BY <1>2, <2>1, <2>2, WindowsStay
<1> QED
  BY <1>9, <1>10, <1>11 DEF RiskInv

LEMMA SecondKeeps ==
  ASSUME RiskInv, SecondPasses
  PROVE  RiskInv'
<1>1. second \in Nat /\ second' = second + 1 /\ mark' \in Nat /\ UNCHANGED <<legs, orderTimes, judging, passed>>
  BY RiskAssumption DEF SecondPasses, RiskInv, OwnLegs
<1>2. OwnLegs'
  <2>1. \A w \in Workers : judging[w].at # "idle" => judging[w].stamp \in Nat /\ judging[w].stamp <= second'
    BY <1>1 DEF RiskInv, OwnLegs
  <2> QED
    BY <1>1, <2>1 DEF RiskInv, OwnLegs, FitsBudget
<1>3. RoomInv'
  BY <1>1 DEF RiskInv, RoomInv, OpenLegs, Able
<1>4. PacedOrders'
  BY <1>1, WindowsStay
<1> QED
  BY <1>2, <1>3, <1>4 DEF RiskInv

LEMMA RiskStep == RiskInv /\ [RiskNext]_riskVars => RiskInv'
<1> SUFFICES ASSUME RiskInv, [RiskNext]_riskVars PROVE RiskInv'
  OBVIOUS
<1>1. CASE UNCHANGED riskVars
  <2>1. UNCHANGED <<second, mark, legs, orderTimes, judging, passed>> /\ second \in Nat
    BY <1>1 DEF riskVars, RiskInv, OwnLegs
  <2>2. OwnLegs'
    BY <2>1 DEF RiskInv, OwnLegs, FitsBudget
  <2>3. RoomInv'
    BY <2>1 DEF RiskInv, RoomInv, OpenLegs, Able
  <2>4. PacedOrders'
    BY <2>1, WindowsStay
  <2> QED
    BY <2>2, <2>3, <2>4 DEF RiskInv
<1> QED
  BY <1>1, AskToOpenKeeps, AskToCloseKeeps, JudgeKeeps, SendKeepsRisk, SecondKeeps DEF RiskNext

-----------------------------------------------------------------------------
(* Quantities between the lead and its follower.                           *)

InSteps(qty, step) == \E k \in Int : qty = k * step

SizeRequests == [side : {"BUY", "SELL"}, offset : {"OPEN", "CLOSE", "FLATTEN"}, qty : Int]

\* A backend trades by what its venue says; before both trade nothing happens.
VenuesLoaded ==
  /\ sizeVenue \in [Parties -> SizeVenues] /\ scaleBy \in Ratios
  /\ DOMAIN sizeSpec = Parties /\ DOMAIN hostStage = Parties /\ DOMAIN holding = Parties
  /\ \A p \in Parties : /\ sizeSpec[p].step \in Nat
                        /\ hostStage[p] = "trading" => sizeSpec[p] = SpecLoaded(sizeVenue[p])
                        /\ holding[p] \in Int /\ InSteps(holding[p], sizeVenue[p].step)
  /\ intentsSent \in Seq(SizeRequests) /\ roundings \in Nat /\ lastLeg.party \in Parties
  /\ ~Running => intentsSent = <<>> /\ roundings = 0 /\ \A p \in Parties : holding[p] = 0

\* The lead's position before the first order the follower has not handled, and
\* after each of them: the follower's differs from the first of these, scaled,
\* by no more than the roundings.
Follows(at) ==
  /\ at \in [0 .. Len(intentsSent) -> Int]
  /\ at[Len(intentsSent)] = holding["lead"]
  /\ \A i \in 1 .. Len(intentsSent) :
       at[i] = IF intentsSent[i].offset = "FLATTEN" THEN 0
               ELSE at[i - 1] + Toward(intentsSent[i].side, intentsSent[i].qty)
  /\ 2 * Size(scaleBy[2] * holding["follower"] - scaleBy[1] * at[0])
       <= scaleBy[2] * sizeSpec["follower"].step * roundings

Mirrored == ~refusal => \E at : Follows(at)

SizeInv == VenuesLoaded /\ VenueTakesSizes /\ Mirrored

-----------------------------------------------------------------------------
(* What rounding does.                                                     *)

LEMMA Quotient ==
  ASSUME NEW a \in Int, NEW m \in Int, m > 0
  PROVE  a \div m \in Int /\ m * (a \div m) <= a /\ a < m * (a \div m) + m
OBVIOUS

LEMMA Rounding ==
  ASSUME NEW n \in Int, NEW d \in Nat, d > 0, NEW s \in Nat, s > 0
  PROVE  /\ RoundedTo(n, d, s) \in Int /\ InSteps(RoundedTo(n, d, s), s)
         /\ 2 * (d * RoundedTo(n, d, s) - n) <= d * s
         /\ 2 * (n - d * RoundedTo(n, d, s)) <= d * s
<1>1. PICK m \in Int : m = 2 * d * s
  OBVIOUS
<1>2. d * s \in Int /\ d * s > 0
  OBVIOUS
<1>3. m > 0 /\ 2 * n + d * s \in Int
  BY <1>1, <1>2
<1>4. PICK k \in Int : k = (2 * n + d * s) \div m
  BY <1>3, Quotient
<1>5. m * k <= 2 * n + d * s /\ 2 * n + d * s < m * k + m
  BY <1>3, <1>4, Quotient
<1>6. RoundedTo(n, d, s) = k * s
  BY <1>1, <1>4 DEF RoundedTo
<1>7. m * k = 2 * (d * (k * s))
  BY <1>1
<1>8. d * (k * s) \in Int /\ k * s \in Int /\ m = 2 * (d * s)
  BY <1>1
<1>9. 2 * (d * (k * s) - n) <= d * s /\ 2 * (n - d * (k * s)) <= d * s
  BY <1>2, <1>5, <1>7, <1>8
<1> QED
  BY <1>6, <1>8, <1>9 DEF InSteps

LEMMA RoundedLots ==
  ASSUME NEW n \in Int, NEW s \in Nat, s > 0
  PROVE  RoundedTo(n, 1, s) \in Int /\ InSteps(RoundedTo(n, 1, s), s)
BY Rounding

\* Between multiples of a step lies at least a step.
LEMMA StepApart ==
  ASSUME NEW k \in Int, NEW j \in Int, NEW s \in Nat, s > 0, k > j
  PROVE  k * s - j * s >= s
<1>1. (k - j) * s = k * s - j * s
  OBVIOUS
<1>2. \A x \in Int : x >= 1 => x * s >= s
  OBVIOUS
<1> QED
  BY <1>1, <1>2

LEMMA RoundedWithin ==
  ASSUME NEW n \in Int, NEW s \in Nat, s > 0, NEW most \in Int, InSteps(most, s)
  PROVE  /\ n <= most => RoundedTo(n, 1, s) <= most
         /\ n = most => RoundedTo(n, 1, s) = most
<1>1. PICK r \in Int : r = RoundedTo(n, 1, s)
  BY Rounding
<1>2. PICK k \in Int : r = k * s
  <2>1. InSteps(r, s)
    BY <1>1, Rounding
  <2> QED
    BY <2>1 DEF InSteps
<1>3. PICK j \in Int : most = j * s
  BY DEF InSteps
<1>4. 2 * (r - n) <= s /\ 2 * (n - r) <= s
  <2>1. 2 * (1 * r - n) <= 1 * s /\ 2 * (n - 1 * r) <= 1 * s
    BY <1>1, Rounding
  <2> QED
    BY <2>1
<1>5. k > j => r - most >= s
  BY <1>2, <1>3, StepApart
<1>6. j > k => most - r >= s
  BY <1>2, <1>3, StepApart
<1>7. k = j => r = most
  BY <1>2, <1>3
<1>8. ASSUME n <= most PROVE r <= most
  <2>1. k <= j
    BY <1>4, <1>5, <1>8
  <2>2. k = j \/ j > k
    BY <2>1
  <2> QED
    BY <1>6, <1>7, <2>2
<1>9. ASSUME n = most PROVE r = most
  BY <1>4, <1>5, <1>6, <1>7, <1>9
<1> QED
  BY <1>1, <1>8, <1>9

LEMMA LotsAdd ==
  ASSUME NEW a \in Int, NEW b \in Int, NEW s \in Nat, InSteps(a, s), InSteps(b, s)
  PROVE  InSteps(a + b, s) /\ InSteps(a - b, s) /\ InSteps(-a, s)
<1>1. PICK k \in Int : a = k * s
  BY DEF InSteps
<1>2. PICK j \in Int : b = j * s
  BY DEF InSteps
<1>3. a + b = (k + j) * s /\ a - b = (k - j) * s /\ -a = (-k) * s
  BY <1>1, <1>2
<1>4. k + j \in Int /\ k - j \in Int /\ -k \in Int
  OBVIOUS
<1>5. InSteps(a + b, s)
  BY <1>3, <1>4, Zenon DEF InSteps
<1>6. InSteps(a - b, s)
  BY <1>3, <1>4, Zenon DEF InSteps
<1>7. InSteps(-a, s)
  BY <1>3, <1>4, Zenon DEF InSteps
<1> QED
  BY <1>5, <1>6, <1>7

LEMMA LotsDivide ==
  ASSUME NEW s \in Nat, s > 0, NEW a \in Int
  PROVE  /\ InSteps(a, s) => a % s = 0
         /\ a % s = 0 => InSteps(a, s)
         /\ InSteps(0, s)
<1>1. a \div s \in Int /\ a % s \in 0 .. s - 1 /\ a = s * (a \div s) + (a % s)
  OBVIOUS
<1>2. PICK q, r \in Int : q = a \div s /\ r = a % s
  BY <1>1
<1>3. r \in 0 .. s - 1 /\ a = s * q + r /\ s * q = q * s /\ q * s \in Int
  BY <1>1, <1>2
<1>4. ASSUME InSteps(a, s) PROVE r = 0
  <2>1. PICK k \in Int : a = k * s
    BY <1>4 DEF InSteps
  <2>2. k > q => k * s - q * s >= s
    BY StepApart
  <2>3. q > k => q * s - k * s >= s
    BY StepApart
  <2>4. k * s \in Int
    OBVIOUS
  <2> QED
    BY <1>3, <2>1, <2>2, <2>3, <2>4
<1>5. r = 0 => a = q * s
  BY <1>3
<1>6. 0 = 0 * s /\ 0 \in Int
  OBVIOUS
<1>7. InSteps(0, s)
  BY <1>6, Zenon DEF InSteps
<1>8. r = 0 => InSteps(a, s)
  BY <1>5, Zenon DEF InSteps
<1>9. r = a % s
  BY <1>2
<1> QED
  BY <1>4, <1>7, <1>8, <1>9

-----------------------------------------------------------------------------
(* The steps.                                                              *)

LEMMA VenueTypes ==
  ASSUME NEW v \in SizeVenues
  PROVE  v.step \in Nat /\ v.step > 0 /\ v.min \in Nat /\ v.max \in Nat
         /\ InSteps(v.min, v.step) /\ InSteps(v.max, v.step)
<1>1. v.step \in Nat /\ v.step > 0 /\ v.min \in Nat /\ v.max \in Nat /\ v.min % v.step = 0 /\ v.max % v.step = 0
  BY SizingAssumption
<1> QED
  BY <1>1, LotsDivide

LEMMA SizeStart == SizingInit => SizeInv
<1> SUFFICES ASSUME SizingInit PROVE SizeInv
  OBVIOUS
<1>1. \A p \in Parties : InSteps(0, sizeVenue[p].step)
  BY VenueTypes, LotsDivide DEF SizingInit
<1>2. VenuesLoaded
  BY <1>1, SizingAssumption DEF SizingInit, VenuesLoaded, NoSpec, NoLeg, Parties, Running
<1>3. VenueTakesSizes
  BY DEF SizingInit, VenueTakesSizes, NoLeg
<1>4. Mirrored
  <2>1. Follows([i \in {0} |-> 0])
    <3>1. scaleBy[1] \in Nat /\ scaleBy[2] \in Nat
      BY SizingAssumption DEF SizingInit
    <3>2. scaleBy[1] * 0 = 0 /\ scaleBy[2] * 0 = 0
      BY <3>1
    <3>3. Len(intentsSent) = 0 /\ 0 .. 0 = {0} /\ 1 .. 0 = {} /\ holding["lead"] = 0 /\ holding["follower"] = 0
          /\ sizeSpec["follower"].step = 0 /\ roundings = 0
      BY DEF SizingInit, Parties, NoSpec
    <3>4. Size(0 - 0) = 0 /\ scaleBy[2] * 0 * 0 = 0
      BY <3>1 DEF Size
    <3> QED
      BY <3>2, <3>3, <3>4 DEF Follows
  <2> QED
    BY <2>1 DEF Mirrored
<1> QED
  BY <1>2, <1>3, <1>4 DEF SizeInv

\* The prefix of the queue moved one place on: what the follower handled.
LEMMA AcceptedFits ==
  ASSUME NEW v \in SizeVenues, NEW req \in SizeRequests, NEW had \in Int, InSteps(had, v.step),
         SizeAccepted(req, SpecLoaded(v), had)
  PROVE  LET qty == LegOf(req, SpecLoaded(v)).qty IN
         /\ qty \in Nat /\ qty > 0 /\ InSteps(qty, v.step) /\ qty % v.step = 0
         /\ qty >= v.min /\ (v.max > 0 => qty <= v.max)
         /\ req.offset = "CLOSE" => qty <= Size(had)
         /\ req.qty = Size(had) => qty = Size(had)
<1>1. PICK q : q = RoundedTo(req.qty, 1, v.step)
  OBVIOUS
<1>2. LegOf(req, SpecLoaded(v)).qty = q
  BY <1>1 DEF LegOf, SpecLoaded, SizeRequests
<1>3. req.qty \in Int /\ v.step \in Nat /\ v.step > 0 /\ v.min \in Nat /\ v.max \in Nat /\ InSteps(v.max, v.step)
  BY VenueTypes DEF SizeRequests
<1>4. q \in Int /\ InSteps(q, v.step)
  <2>1. PICK n \in Int, s \in Nat : n = req.qty /\ s = v.step
    BY <1>3
  <2>2. RoundedTo(n, 1, s) \in Int /\ InSteps(RoundedTo(n, 1, s), s)
    BY <1>3, <2>1, RoundedLots
  <2> QED
    BY <1>1, <2>1, <2>2
<1>5. q % v.step = 0
  BY <1>3, <1>4, LotsDivide
<1>6. /\ q > 0 /\ (v.min > 0 => q >= v.min) /\ (v.max > 0 => req.qty <= v.max)
      /\ req.offset = "CLOSE" => req.qty <= Size(had)
  BY <1>1 DEF SizeAccepted, SpecLoaded
<1>7. v.max > 0 => q <= v.max
  BY <1>1, <1>3, <1>6, RoundedWithin
<1>8. InSteps(Size(had), v.step) /\ Size(had) \in Int
  <2>1. InSteps(-had, v.step)
    BY <1>3, LotsAdd
  <2>2. Size(had) = had \/ Size(had) = -had
    BY DEF Size
  <2> QED
    BY <2>1, <2>2
<1>9. /\ req.offset = "CLOSE" => q <= Size(had)
      /\ req.qty = Size(had) => q = Size(had)
  BY <1>1, <1>3, <1>6, <1>8, RoundedWithin
<1> QED
  BY <1>2, <1>3, <1>4, <1>5, <1>6, <1>7, <1>9

\* A request of one party leaves every position a number of lots and the last
\* order one its venue takes; unless it is refused, the position moved by it.
LEMMA TradedKeeps ==
  ASSUME VenuesLoaded, VenueTakesSizes, Running, NEW p \in Parties, NEW req \in SizeRequests,
         NEW left, NEW rounded \in Nat, Traded(p, req, left, rounded),
         UNCHANGED <<sizeVenue, sizeSpec>>
  PROVE  /\ DOMAIN holding' = Parties /\ lastLeg'.party \in Parties
         /\ \A q \in Parties : holding'[q] \in Int /\ InSteps(holding'[q], sizeVenue[q].step)
         /\ \A q \in Parties : q # p => holding'[q] = holding[q]
         /\ VenueTakesSizes'
         /\ \E taken \in BOOLEAN :
              /\ Settled(left, ~taken, rounded)
              /\ taken => /\ SizeAccepted(req, sizeSpec[p], holding[p])
                          /\ holding'[p] = holding[p] + Toward(req.side, LegOf(req, sizeSpec[p]).qty)
<1>1. PICK v \in SizeVenues : v = sizeVenue[p] /\ sizeSpec[p] = SpecLoaded(v)
  BY DEF VenuesLoaded, Running
<1>2. PICK h \in Int : h = holding[p] /\ InSteps(h, v.step)
  BY <1>1 DEF VenuesLoaded
<1>3. PICK leg : leg = LegOf(req, sizeSpec[p])
  OBVIOUS
<1>4. leg.side = req.side /\ leg.offset = req.offset /\ req.side \in {"BUY", "SELL"}
  BY <1>3 DEF LegOf, SizeRequests
<1>5. PICK taken \in BOOLEAN :
        /\ taken => SizeAccepted(req, sizeSpec[p], h)
        /\ holding' = IF taken THEN [holding EXCEPT ![p] = @ + Toward(leg.side, leg.qty)] ELSE holding
        /\ lastLeg' = IF SizeAccepted(req, sizeSpec[p], h)
                      THEN [party |-> p, offset |-> leg.offset, qty |-> leg.qty, before |-> h] ELSE lastLeg
        /\ Settled(left, ~taken, rounded)
  BY <1>2, <1>3 DEF Traded
<1>6. SizeAccepted(req, sizeSpec[p], h) =>
        /\ leg.qty \in Nat /\ leg.qty > 0 /\ InSteps(leg.qty, v.step) /\ leg.qty % v.step = 0
        /\ leg.qty >= v.min /\ (v.max > 0 => leg.qty <= v.max)
        /\ leg.offset = "CLOSE" => leg.qty <= Size(h)
  BY <1>1, <1>2, <1>3, <1>4, AcceptedFits
<1>7. VenueTakesSizes' /\ lastLeg'.party \in Parties
  <2>1. CASE SizeAccepted(req, sizeSpec[p], h)
    <3>1. lastLeg'.party = p /\ lastLeg'.qty = leg.qty /\ lastLeg'.offset = leg.offset /\ lastLeg'.before = h
          /\ sizeVenue'[p] = v
      BY <1>1, <1>5, <2>1
    <3> QED
      BY <1>6, <2>1, <3>1 DEF VenueTakesSizes
  <2>2. CASE ~SizeAccepted(req, sizeSpec[p], h)
    <3>1. lastLeg' = lastLeg
      BY <1>5, <2>2
    <3> QED
      BY <3>1 DEF VenueTakesSizes, VenuesLoaded
  <2> QED
    BY <2>1, <2>2
<1>8. taken => holding'[p] = h + Toward(leg.side, leg.qty) /\ Toward(leg.side, leg.qty) \in Int
               /\ InSteps(h + Toward(leg.side, leg.qty), v.step)
  <2> SUFFICES ASSUME taken
               PROVE holding'[p] = h + Toward(leg.side, leg.qty) /\ Toward(leg.side, leg.qty) \in Int
                     /\ InSteps(h + Toward(leg.side, leg.qty), v.step)
    OBVIOUS
  <2>1. holding'[p] = h + Toward(leg.side, leg.qty)
    BY <1>2, <1>5 DEF VenuesLoaded
  <2>2. leg.qty \in Nat /\ InSteps(leg.qty, v.step)
    BY <1>5, <1>6
  <2>3. v.step \in Nat
    BY VenueTypes
  <2>4. PICK t \in Int : t = Toward(leg.side, leg.qty) /\ InSteps(t, v.step)
    BY <1>4, <2>2, <2>3, LotsAdd DEF Toward
  <2> QED
    BY <1>2, <2>1, <2>3, <2>4, LotsAdd
<1>9. DOMAIN holding' = Parties /\ \A q \in Parties : q # p => holding'[q] = holding[q]
  BY <1>5 DEF VenuesLoaded
<1>10. ASSUME NEW q \in Parties PROVE holding'[q] \in Int /\ InSteps(holding'[q], sizeVenue[q].step)
  <2>1. CASE q # p
    BY <1>9, <2>1 DEF VenuesLoaded
  <2>2. CASE q = p /\ taken
    BY <1>1, <1>2, <1>8, <2>2
  <2>3. CASE q = p /\ ~taken
    BY <1>1, <1>2, <1>5, <2>3
  <2> QED
    BY <2>1, <2>2, <2>3
<1> QED
  BY <1>2, <1>3, <1>4, <1>5, <1>7, <1>8, <1>9, <1>10

-----------------------------------------------------------------------------
(* The follower's position and the lead's.                                 *)

Clean == intentsSent = <<>> /\ roundings = 0 /\ \A p \in Parties : holding[p] = 0

LEMMA CleanMirrored == VenuesLoaded /\ Clean => Mirrored
<1> SUFFICES ASSUME VenuesLoaded, Clean PROVE \E at : Follows(at)
  BY DEF Mirrored
<1>1. PICK a \in Nat, b \in Nat, s \in Nat : a = scaleBy[1] /\ b = scaleBy[2] /\ s = sizeSpec["follower"].step
  BY SizingAssumption DEF VenuesLoaded, Parties
<1>2. Len(intentsSent) = 0 /\ 0 .. 0 = {0} /\ 1 .. 0 = {} /\ holding["lead"] = 0 /\ holding["follower"] = 0
      /\ roundings = 0
  BY DEF Clean, Parties
<1>3. b * 0 - a * 0 = 0 /\ b * s * 0 = 0 /\ Size(0) = 0
  BY <1>1 DEF Size
<1>4. Follows([i \in {0} |-> 0])
  BY <1>1, <1>2, <1>3 DEF Follows
<1> QED
  BY <1>4

LEMMA CleanNext == VenuesLoaded' /\ Clean' => Mirrored'
BY CleanMirrored, PTL

\* What holds unless something was refused.
LEMMA NotRefused ==
  ASSUME NEW refused, NEW rounded, Settled(intentsSent', refused, rounded)
  PROVE  /\ Clean' \/ roundings' = roundings + rounded
         /\ ~refusal' => Clean' \/ (~refusal /\ ~refused)
BY DEF Settled, Clean

\* The lead's order goes to the end of the queue.
LEMMA QueueGrows ==
  ASSUME NEW at, Follows(at), NEW leg \in SizeRequests, NEW next \in Int,
         intentsSent \in Seq(SizeRequests), intentsSent' = Append(intentsSent, leg),
         next = IF leg.offset = "FLATTEN" THEN 0 ELSE at[Len(intentsSent)] + Toward(leg.side, leg.qty),
         holding'["lead"] = next, holding'["follower"] = holding["follower"],
         UNCHANGED <<scaleBy, sizeSpec, roundings>>
  PROVE  \E after : Follows(after)'
<1>1. PICK n \in Nat : n = Len(intentsSent) /\ Len(intentsSent') = n + 1
  OBVIOUS
<1>2. /\ \A i \in 1 .. n : intentsSent'[i] = intentsSent[i]
      /\ intentsSent'[n + 1] = leg
  BY <1>1
<1>3. PICK after : after = [i \in 0 .. n + 1 |-> IF i = n + 1 THEN next ELSE at[i]]
  OBVIOUS
<1>4. after \in [0 .. n + 1 -> Int] /\ after[n + 1] = next /\ \A i \in 0 .. n : after[i] = at[i]
  <2>1. \A i \in 0 .. n : at[i] \in Int
    BY <1>1 DEF Follows
  <2>2. \A i \in 0 .. n + 1 : i # n + 1 => i \in 0 .. n
    OBVIOUS
  <2> QED
    BY <1>3, <2>1, <2>2
<1>5. ASSUME NEW i \in 1 .. n + 1
      PROVE  after[i] = IF intentsSent'[i].offset = "FLATTEN" THEN 0
                        ELSE after[i - 1] + Toward(intentsSent'[i].side, intentsSent'[i].qty)
  <2>1. CASE i = n + 1
    <3>1. i - 1 = n /\ after[n] = at[n]
      BY <1>4, <2>1
    <3> QED
      BY <1>1, <1>2, <1>4, <2>1, <3>1
  <2>2. CASE i # n + 1
    <3>1. i \in 1 .. n /\ i \in 0 .. n /\ i - 1 \in 0 .. n
      BY <2>2
    <3>2. after[i] = at[i] /\ after[i - 1] = at[i - 1] /\ intentsSent'[i] = intentsSent[i]
      BY <1>2, <1>4, <3>1
    <3> QED
      BY <1>1, <3>1, <3>2 DEF Follows
  <2> QED
    BY <2>1, <2>2
<1>6. after[0] = at[0]
  BY <1>4
<1>7. 2 * Size(scaleBy'[2] * holding'["follower"] - scaleBy'[1] * after[0])
        <= scaleBy'[2] * sizeSpec'["follower"].step * roundings'
  BY <1>6 DEF Follows
<1>8. Follows(after)'
  BY <1>1, <1>4, <1>5, <1>7 DEF Follows
<1> QED
  BY <1>8

\* The follower has handled the first order of the queue.
LEMMA QueueShrinks ==
  ASSUME NEW at, Follows(at), intentsSent \in Seq(SizeRequests), intentsSent # <<>>,
         intentsSent' = Tail(intentsSent), holding'["lead"] = holding["lead"],
         2 * Size(scaleBy'[2] * holding'["follower"] - scaleBy'[1] * at[1])
           <= scaleBy'[2] * sizeSpec'["follower"].step * roundings'
  PROVE  \E after : Follows(after)'
<1>1. PICK n \in Nat : Len(intentsSent) = n + 1 /\ Len(intentsSent') = n
  <2>1. PICK l \in Nat : l = Len(intentsSent) /\ l > 0
    OBVIOUS
  <2>2. Len(intentsSent') = l - 1
    BY <2>1
  <2>3. l - 1 \in Nat /\ l = (l - 1) + 1
    BY <2>1
  <2> QED
    BY <2>1, <2>2, <2>3
<1>2. \A i \in 1 .. n : intentsSent'[i] = intentsSent[i + 1]
  BY <1>1
<1>3. PICK after : after = [i \in 0 .. n |-> at[i + 1]]
  OBVIOUS
<1>4. after \in [0 .. n -> Int] /\ \A i \in 0 .. n : after[i] = at[i + 1]
  <2>1. \A i \in 0 .. n : i + 1 \in 0 .. n + 1
    OBVIOUS
  <2>2. \A i \in 0 .. n + 1 : at[i] \in Int
    BY <1>1 DEF Follows
  <2> QED
    BY <1>3, <2>1, <2>2
<1>5. ASSUME NEW i \in 1 .. n
      PROVE  after[i] = IF intentsSent'[i].offset = "FLATTEN" THEN 0
                        ELSE after[i - 1] + Toward(intentsSent'[i].side, intentsSent'[i].qty)
  <2>1. i \in 0 .. n /\ i - 1 \in 0 .. n /\ i + 1 \in 1 .. n + 1 /\ (i - 1) + 1 = i /\ (i + 1) - 1 = i
    OBVIOUS
  <2>2. after[i] = at[i + 1] /\ after[i - 1] = at[i] /\ intentsSent'[i] = intentsSent[i + 1]
    BY <1>2, <1>4, <2>1
  <2>3. PICK j \in 1 .. n + 1 : j = i + 1 /\ j - 1 = i
    BY <2>1
  <2>4. at[j] = IF intentsSent[j].offset = "FLATTEN" THEN 0
                ELSE at[j - 1] + Toward(intentsSent[j].side, intentsSent[j].qty)
    BY <1>1 DEF Follows
  <2> QED
    BY <2>2, <2>3, <2>4
<1>6. after[0] = at[1] /\ after[n] = at[n + 1]
  BY <1>4
<1>7. after[n] = holding'["lead"]
  BY <1>1, <1>6 DEF Follows
<1>8. Follows(after)'
  BY <1>1, <1>4, <1>5, <1>6, <1>7 DEF Follows
<1> QED
  BY <1>8

-----------------------------------------------------------------------------
(* Each operation keeps the invariant.                                     *)

LEMMA RunningLoaded ==
  ASSUME VenuesLoaded, Running, NEW p \in Parties
  PROVE  /\ sizeVenue[p] \in SizeVenues /\ sizeSpec[p] = SpecLoaded(sizeVenue[p])
         /\ sizeSpec[p].step = sizeVenue[p].step
         /\ sizeVenue[p].step \in Nat /\ sizeVenue[p].step > 0
         /\ holding[p] \in Int /\ InSteps(holding[p], sizeVenue[p].step)
BY VenueTypes DEF VenuesLoaded, Running, SpecLoaded

\* What a request leaves of the types.
LEMMA TradedTypes ==
  ASSUME VenuesLoaded, Running, intentsSent' \in Seq(SizeRequests), roundings' \in Nat,
         DOMAIN holding' = Parties, lastLeg'.party \in Parties,
         \A q \in Parties : holding'[q] \in Int /\ InSteps(holding'[q], sizeVenue[q].step),
         UNCHANGED <<sizeVenue, scaleBy, hostStage, sizeSpec>>
  PROVE  VenuesLoaded' /\ Running'
BY DEF VenuesLoaded, Running

LEMMA CloseRequest ==
  ASSUME NEW net \in Int
  PROVE  /\ NetClose(net) \in SizeRequests /\ NetClose(net).qty = Size(net)
         /\ net + Toward(NetClose(net).side, Size(net)) = 0
BY DEF NetClose, SizeRequests, Size, Toward

\* A close of all that is taken leaves nothing.
LEMMA CloseAll ==
  ASSUME VenuesLoaded, Running, NEW p \in Parties,
         SizeAccepted(NetClose(holding[p]), sizeSpec[p], holding[p]),
         holding'[p] = holding[p] + Toward(NetClose(holding[p]).side, LegOf(NetClose(holding[p]), sizeSpec[p]).qty)
  PROVE  holding'[p] = 0
<1>1. PICK v \in SizeVenues : v = sizeVenue[p] /\ sizeSpec[p] = SpecLoaded(v)
  BY RunningLoaded
<1>2. PICK h \in Int : h = holding[p] /\ InSteps(h, v.step)
  BY <1>1, RunningLoaded
<1>3. PICK req \in SizeRequests : req = NetClose(h) /\ req.qty = Size(h) /\ h + Toward(req.side, Size(h)) = 0
  BY CloseRequest
<1>4. LegOf(req, SpecLoaded(v)).qty = Size(h)
  BY <1>1, <1>2, <1>3, AcceptedFits
<1> QED
  BY <1>1, <1>2, <1>3, <1>4

LEMMA Roundings ==
  ASSUME VenuesLoaded, NEW refused, NEW rounded \in Nat, Settled(intentsSent', refused, rounded)
  PROVE  roundings' \in Nat
BY DEF VenuesLoaded, Settled

LEMMA SendsKeep ==
  ASSUME SizeInv, NEW side \in {"BUY", "SELL"}, NEW offset \in {"OPEN", "CLOSE"}, NEW qty \in Asked,
         LeadSends(side, offset, qty)
  PROVE  SizeInv'
<1>1. PICK req \in SizeRequests : req = [side |-> side, offset |-> offset, qty |-> qty]
  <2>1. qty \in Int
    BY SizingAssumption
  <2> QED
    BY <2>1 DEF SizeRequests
<1>2. /\ Running /\ VenuesLoaded /\ VenueTakesSizes /\ Mirrored
      /\ SizeAccepted(req, sizeSpec["lead"], holding["lead"])
      /\ Traded("lead", req, intentsSent', 0)
      /\ UNCHANGED <<sizeVenue, scaleBy, hostStage, sizeSpec>>
  BY <1>1 DEF LeadSends, SizeInv
<1>3. PICK leg : leg = LegOf(req, sizeSpec["lead"]) /\ intentsSent' = Append(intentsSent, leg)
  BY <1>1 DEF LeadSends
<1>4. "lead" \in Parties /\ "follower" \in Parties /\ intentsSent \in Seq(SizeRequests)
  BY <1>2 DEF Parties, VenuesLoaded
<1>5. leg \in SizeRequests /\ leg.side = req.side /\ leg.offset # "FLATTEN"
  <2>1. leg.qty \in Nat
    BY <1>2, <1>3, <1>4, RunningLoaded, AcceptedFits
  <2> QED
    BY <1>1, <1>3, <2>1 DEF LegOf, SizeRequests
<1>6. intentsSent' \in Seq(SizeRequests) /\ intentsSent' # <<>>
  BY <1>3, <1>4, <1>5
<1>7. /\ DOMAIN holding' = Parties /\ lastLeg'.party \in Parties
      /\ \A q \in Parties : holding'[q] \in Int /\ InSteps(holding'[q], sizeVenue[q].step)
      /\ holding'["follower"] = holding["follower"]
      /\ VenueTakesSizes'
  BY <1>2, <1>4, TradedKeeps
<1>8. PICK taken \in BOOLEAN :
        /\ Settled(intentsSent', ~taken, 0)
        /\ taken => holding'["lead"] = holding["lead"] + Toward(req.side, LegOf(req, sizeSpec["lead"]).qty)
  BY <1>2, <1>4, TradedKeeps
<1>9. roundings' \in Nat /\ ~Clean' /\ (~refusal' => ~refusal /\ taken /\ roundings' = roundings)
  <2>1. ~Clean'
    BY <1>6 DEF Clean
  <2>2. roundings' = roundings + 0 /\ roundings \in Nat
    BY <1>2, <1>8, <2>1, NotRefused DEF VenuesLoaded
  <2>3. ~refusal' => ~refusal /\ taken
    BY <1>8, <2>1, NotRefused
  <2> QED
    BY <2>1, <2>2, <2>3
<1>10. VenuesLoaded'
  BY <1>2, <1>6, <1>7, <1>9, TradedTypes
<1>11. ASSUME ~refusal' PROVE \E after : Follows(after)'
  <2>1. PICK at : Follows(at)
    BY <1>2, <1>9, <1>11 DEF Mirrored
  <2>2. at[Len(intentsSent)] = holding["lead"]
    BY <2>1 DEF Follows
  <2>3. PICK next \in Int : next = holding'["lead"]
    BY <1>4, <1>7
  <2>4. next = IF leg.offset = "FLATTEN" THEN 0 ELSE at[Len(intentsSent)] + Toward(leg.side, leg.qty)
    BY <1>3, <1>5, <1>8, <1>9, <1>11, <2>2, <2>3
  <2> QED
    BY <1>2, <1>3, <1>4, <1>5, <1>7, <1>9, <1>11, <2>1, <2>3, <2>4, QueueGrows
<1> QED
  BY <1>7, <1>10, <1>11 DEF SizeInv, Mirrored

LEMMA FlattenKeeps ==
  ASSUME SizeInv, LeadFlattens
  PROVE  SizeInv'
<1>1. PICK req \in SizeRequests : req = NetClose(holding["lead"])
  BY CloseRequest DEF SizeInv, VenuesLoaded, Parties
<1>2. /\ Running /\ VenuesLoaded /\ VenueTakesSizes /\ Mirrored
      /\ Traded("lead", req, intentsSent', 0)
      /\ UNCHANGED <<sizeVenue, scaleBy, hostStage, sizeSpec>>
  BY <1>1 DEF LeadFlattens, SizeInv
<1>3. PICK leg : leg = [side |-> "SELL", offset |-> "FLATTEN", qty |-> 0] /\ intentsSent' = Append(intentsSent, leg)
  BY DEF LeadFlattens
<1>4. "lead" \in Parties /\ "follower" \in Parties /\ intentsSent \in Seq(SizeRequests)
  BY <1>2 DEF Parties, VenuesLoaded
<1>5. leg \in SizeRequests /\ leg.offset = "FLATTEN"
  BY <1>3 DEF SizeRequests
<1>6. intentsSent' \in Seq(SizeRequests) /\ intentsSent' # <<>>
  BY <1>3, <1>4, <1>5
<1>7. /\ DOMAIN holding' = Parties /\ lastLeg'.party \in Parties
      /\ \A q \in Parties : holding'[q] \in Int /\ InSteps(holding'[q], sizeVenue[q].step)
      /\ holding'["follower"] = holding["follower"]
      /\ VenueTakesSizes'
  BY <1>2, <1>4, TradedKeeps
<1>8. PICK taken \in BOOLEAN :
        /\ Settled(intentsSent', ~taken, 0)
        /\ taken => /\ SizeAccepted(req, sizeSpec["lead"], holding["lead"])
                    /\ holding'["lead"] = holding["lead"] + Toward(req.side, LegOf(req, sizeSpec["lead"]).qty)
  BY <1>2, <1>4, TradedKeeps
<1>9. roundings' \in Nat /\ (~refusal' => ~refusal /\ taken /\ roundings' = roundings)
  <2>1. ~Clean'
    BY <1>6 DEF Clean
  <2>2. roundings' = roundings + 0 /\ roundings \in Nat
    BY <1>2, <1>8, <2>1, NotRefused DEF VenuesLoaded
  <2>3. ~refusal' => ~refusal /\ taken
    BY <1>8, <2>1, NotRefused
  <2> QED
    BY <2>2, <2>3
<1>10. VenuesLoaded'
  BY <1>2, <1>6, <1>7, <1>9, TradedTypes
<1>11. ASSUME ~refusal' PROVE \E after : Follows(after)'
  <2>1. PICK at : Follows(at)
    BY <1>2, <1>9, <1>11 DEF Mirrored
  <2>2. holding'["lead"] = 0
    BY <1>1, <1>2, <1>4, <1>8, <1>9, <1>11, CloseAll
  <2>3. PICK next \in Int : next = 0
    OBVIOUS
  <2> QED
    BY <1>2, <1>3, <1>4, <1>5, <1>7, <1>9, <1>11, <2>1, <2>2, <2>3, QueueGrows
<1> QED
  BY <1>7, <1>10, <1>11 DEF SizeInv, Mirrored

\* The roundings add up.
LEMMA DriftGrows ==
  ASSUME NEW a \in Nat, NEW b \in Nat, NEW s \in Nat, NEW r \in Nat,
         NEW x \in Int, NEW u \in Int, NEW f \in Int, NEW t \in Int,
         2 * Size(b * f - a * x) <= b * s * r,
         2 * Size(b * t - a * u) <= b * s
  PROVE  2 * Size(b * (f + t) - a * (x + u)) <= b * s * (r + 1)
<1>1. PICK d \in Int : d = b * f - a * x
  OBVIOUS
<1>2. PICK e \in Int : e = b * t - a * u
  OBVIOUS
<1>3. b * (f + t) - a * (x + u) = d + e
  <2>1. b * (f + t) = b * f + b * t /\ a * (x + u) = a * x + a * u
    OBVIOUS
  <2>2. b * f \in Int /\ b * t \in Int /\ a * x \in Int /\ a * u \in Int
    OBVIOUS
  <2> QED
    BY <1>1, <1>2, <2>1, <2>2
<1>4. b * s * (r + 1) = b * s * r + b * s /\ b * s * r \in Int /\ b * s \in Int
  OBVIOUS
<1>5. 2 * Size(d + e) <= 2 * Size(d) + 2 * Size(e) /\ Size(d) \in Int /\ Size(e) \in Int
  BY DEF Size
<1>6. Size(d + e) \in Int
  BY DEF Size
<1>7. 2 * Size(d) <= b * s * r /\ 2 * Size(e) <= b * s
  BY <1>1, <1>2
<1>8. PICK m \in Int, n \in Int : m = b * s * r /\ n = b * s
  BY <1>4
<1>9. PICK i \in Int, j \in Int, k \in Int : i = Size(d) /\ j = Size(e) /\ k = Size(d + e)
  BY <1>5, <1>6
<1>10. 2 * k <= m + n
  BY <1>5, <1>7, <1>8, <1>9
<1> QED
  BY <1>3, <1>4, <1>8, <1>9, <1>10

\* A scaled order is off by half a step at most.
LEMMA ScaledClose ==
  ASSUME NEW a \in Nat, a > 0, NEW b \in Nat, b > 0, NEW s \in Nat, s > 0,
         NEW qty \in Int, NEW side \in {"BUY", "SELL"}
  PROVE  LET q == RoundedTo(qty * a, b, s) IN
         2 * Size(b * Toward(side, q) - a * Toward(side, qty)) <= b * s
<1>1. PICK n \in Int : n = qty * a /\ n = a * qty
  OBVIOUS
<1>2. PICK q \in Int : q = RoundedTo(n, b, s)
  BY <1>1, Rounding
<1>3. PICK m \in Int : m = b * q
  OBVIOUS
<1>4. 2 * (m - n) <= b * s /\ 2 * (n - m) <= b * s
  BY <1>2, <1>3, Rounding
<1>5. b * (-q) = -m /\ a * (-qty) = -n
  BY <1>1, <1>3
<1>6. b * s \in Int
  OBVIOUS
<1>7. b * Toward(side, q) - a * Toward(side, qty) = m - n \/ b * Toward(side, q) - a * Toward(side, qty) = n - m
  BY <1>1, <1>3, <1>5 DEF Toward
<1>8. 2 * Size(m - n) <= b * s /\ 2 * Size(n - m) <= b * s
  BY <1>4, <1>6 DEF Size
<1> QED
  BY <1>1, <1>2, <1>7, <1>8

LEMMA FollowerKeeps ==
  ASSUME SizeInv, FollowerActs
  PROVE  SizeInv'
<1>1. /\ Running /\ VenuesLoaded /\ VenueTakesSizes /\ Mirrored
      /\ intentsSent # <<>> /\ intentsSent' = Tail(intentsSent)
      /\ UNCHANGED <<sizeVenue, scaleBy, hostStage, sizeSpec>>
  BY DEF FollowerActs, SizeInv
<1>2. "lead" \in Parties /\ "follower" \in Parties /\ intentsSent \in Seq(SizeRequests)
  BY <1>1 DEF Parties, VenuesLoaded
<1>3. PICK leg \in SizeRequests : leg = Head(intentsSent) /\ leg = intentsSent[1]
  BY <1>1, <1>2
<1>4. PICK net \in Int : net = holding["follower"]
  BY <1>1, <1>2, RunningLoaded
<1>5. PICK a \in Nat, b \in Nat, s \in Nat :
        /\ a = scaleBy[1] /\ b = scaleBy[2] /\ s = sizeSpec["follower"].step
        /\ a > 0 /\ b > 0 /\ s > 0
  <2>1. scaleBy[1] \in Nat \ {0} /\ scaleBy[2] \in Nat \ {0}
    BY <1>1, SizingAssumption DEF VenuesLoaded
  <2>2. sizeSpec["follower"].step \in Nat /\ sizeSpec["follower"].step > 0
    BY <1>1, <1>2, RunningLoaded
  <2> QED
    BY <2>1, <2>2
<1>6. intentsSent' \in Seq(SizeRequests)
  BY <1>1, <1>2
<1>7. PICK q \in Int : q = ScaledLeg(leg) /\ q = RoundedTo(leg.qty * a, b, s) /\ InSteps(q, s)
  <2>1. PICK n \in Int : n = leg.qty * a
    BY DEF SizeRequests
  <2>2. RoundedTo(n, b, s) \in Int /\ InSteps(RoundedTo(n, b, s), s)
    BY <1>5, Rounding
  <2>3. ScaledLeg(leg) = RoundedTo(n, b, s)
    BY <1>5, <2>1 DEF ScaledLeg
  <2> QED
    BY <2>1, <2>2, <2>3
<1>8. roundings \in Nat /\ lastLeg.party \in Parties /\ DOMAIN holding = Parties
      /\ \A p \in Parties : holding[p] \in Int /\ InSteps(holding[p], sizeVenue[p].step)
  BY <1>1 DEF VenuesLoaded
<1> DEFINE Fits(refused, rounded, t) ==
             /\ DOMAIN holding' = Parties /\ lastLeg'.party \in Parties
             /\ \A p \in Parties : holding'[p] \in Int /\ InSteps(holding'[p], sizeVenue[p].step)
             /\ holding'["lead"] = holding["lead"] /\ VenueTakesSizes'
             /\ Settled(intentsSent', refused, rounded)
             /\ ~refused => holding'["follower"] = t
<1>9. \/ leg.offset = "FLATTEN" /\ \E refused \in BOOLEAN : Fits(refused, 0, 0)
      \/ leg.offset # "FLATTEN" /\ \E refused \in BOOLEAN : Fits(refused, 1, net + Toward(leg.side, q))
  <2>0. \/ /\ leg.offset = "FLATTEN" /\ net # 0
           /\ Traded("follower", NetClose(net), intentsSent', 0)
        \/ /\ leg.offset = "FLATTEN" /\ net = 0
           /\ UNCHANGED <<holding, lastLeg>> /\ Settled(intentsSent', FALSE, 0)
        \/ /\ leg.offset # "FLATTEN" /\ q = 0
           /\ UNCHANGED <<holding, lastLeg>> /\ Settled(intentsSent', FALSE, 1)
        \/ /\ leg.offset # "FLATTEN" /\ q > 0
           /\ Traded("follower", [leg EXCEPT !.qty = q], intentsSent', 1)
    <3>1. leg = Head(intentsSent) /\ net = holding["follower"] /\ q = ScaledLeg(leg)
      BY <1>3, <1>4, <1>7
    <3> QED
      BY <3>1, Zenon DEF FollowerActs
  <2>1. CASE leg.offset = "FLATTEN" /\ net # 0
    <3>1. PICK req \in SizeRequests : req = NetClose(net)
      BY CloseRequest
    <3>2. Traded("follower", req, intentsSent', 0)
      BY <2>0, <2>1, <3>1
    <3>3. PICK taken \in BOOLEAN :
            /\ Settled(intentsSent', ~taken, 0)
            /\ taken => /\ SizeAccepted(req, sizeSpec["follower"], net)
                        /\ holding'["follower"] = net + Toward(req.side, LegOf(req, sizeSpec["follower"]).qty)
      BY <1>1, <1>2, <1>4, <3>2, TradedKeeps
    <3>4. taken => holding'["follower"] = 0
      BY <1>1, <1>2, <1>4, <3>1, <3>3, CloseAll
    <3>5. /\ DOMAIN holding' = Parties /\ lastLeg'.party \in Parties
          /\ \A p \in Parties : holding'[p] \in Int /\ InSteps(holding'[p], sizeVenue[p].step)
          /\ holding'["lead"] = holding["lead"] /\ VenueTakesSizes'
      BY <1>1, <1>2, <3>2, TradedKeeps
    <3>6. Fits(~taken, 0, 0)
      BY <3>3, <3>4, <3>5
    <3> QED
      BY <2>1, <3>6
  <2>2. CASE leg.offset = "FLATTEN" /\ net = 0
    <3>1. UNCHANGED <<holding, lastLeg>> /\ Settled(intentsSent', FALSE, 0)
      BY <2>0, <2>2
    <3>2. VenueTakesSizes'
      BY <1>1, <3>1 DEF VenueTakesSizes
    <3>3. Fits(FALSE, 0, 0)
      BY <1>1, <1>4, <1>8, <2>2, <3>1, <3>2
    <3> QED
      BY <2>2, <3>3
  <2>3. CASE leg.offset # "FLATTEN" /\ q = 0
    <3>1. UNCHANGED <<holding, lastLeg>> /\ Settled(intentsSent', FALSE, 1)
      <4>1. ~(q > 0)
        BY <2>3
      <4> QED
        BY <2>0, <2>3, <4>1, Zenon
    <3>2. VenueTakesSizes'
      BY <1>1, <3>1 DEF VenueTakesSizes
    <3>3. net + Toward(leg.side, q) = net
      BY <2>3 DEF Toward
    <3>4. Fits(FALSE, 1, net + Toward(leg.side, q))
      BY <1>1, <1>4, <1>8, <3>1, <3>2, <3>3
    <3> QED
      BY <2>3, <3>4
  <2>4. CASE leg.offset # "FLATTEN" /\ q > 0
    <3>1. PICK req \in SizeRequests : req = [leg EXCEPT !.qty = q] /\ req.qty = q /\ req.side = leg.side
      <4>1. [leg EXCEPT !.qty = q] \in SizeRequests
        BY DEF SizeRequests
      <4>2. [leg EXCEPT !.qty = q].qty = q /\ [leg EXCEPT !.qty = q].side = leg.side
        BY DEF SizeRequests
      <4> QED
        BY <4>1, <4>2
    <3>2. Traded("follower", req, intentsSent', 1)
      <4>1. ~(q = 0)
        BY <2>4
      <4> QED
        BY <2>0, <2>4, <3>1, <4>1, Zenon
    <3>3. PICK taken \in BOOLEAN :
            /\ Settled(intentsSent', ~taken, 1)
            /\ taken => holding'["follower"] = net + Toward(leg.side, LegOf(req, sizeSpec["follower"]).qty)
      BY <1>1, <1>2, <1>4, <3>1, <3>2, TradedKeeps
    <3>4. LegOf(req, sizeSpec["follower"]).qty = q
      <4>1. LegOf(req, sizeSpec["follower"]).qty = RoundedTo(q, 1, s)
        BY <1>5, <3>1 DEF LegOf, SizeRequests
      <4>2. RoundedTo(q, 1, s) = q
        BY <1>5, <1>7, RoundedWithin
      <4> QED
        BY <4>1, <4>2
    <3>5. /\ DOMAIN holding' = Parties /\ lastLeg'.party \in Parties
          /\ \A p \in Parties : holding'[p] \in Int /\ InSteps(holding'[p], sizeVenue[p].step)
          /\ holding'["lead"] = holding["lead"] /\ VenueTakesSizes'
      BY <1>1, <1>2, <3>2, TradedKeeps
    <3>6. Fits(~taken, 1, net + Toward(leg.side, q))
      BY <3>3, <3>4, <3>5
    <3> QED
      BY <2>4, <3>6
  <2> QED
    BY <2>0, <2>1, <2>2, <2>3, <2>4
<1>10. PICK refused \in BOOLEAN, rounded \in {0, 1}, t \in Int :
         /\ Fits(refused, rounded, t)
         /\ \/ leg.offset = "FLATTEN" /\ rounded = 0 /\ t = 0
            \/ leg.offset # "FLATTEN" /\ rounded = 1 /\ t = net + Toward(leg.side, q)
  <2>1. net + Toward(leg.side, q) \in Int
    BY DEF Toward
  <2>2. 0 \in Int /\ 0 \in {0, 1} /\ 1 \in {0, 1}
    OBVIOUS
  <2> HIDE DEF Fits
  <2> QED
    BY <1>9, <2>1, <2>2
<1>11. VenuesLoaded'
  <2>1. roundings' \in Nat
    BY <1>1, <1>10, Roundings
  <2> QED
    BY <1>1, <1>6, <1>10, <2>1, TradedTypes
<1>12. VenueTakesSizes'
  BY <1>10
<1>13. ASSUME ~refusal', ~Clean' PROVE \E after : Follows(after)'
  <2>1. ~refusal /\ ~refused /\ roundings' = roundings + rounded
    BY <1>10, <1>13, NotRefused
  <2>2. PICK at : Follows(at)
    BY <1>1, <2>1 DEF Mirrored
  <2>3. PICK n \in Nat : n = Len(intentsSent) /\ n > 0
    BY <1>1, <1>2
  <2>4. /\ at[0] \in Int /\ at[1] \in Int
        /\ at[1] = IF leg.offset = "FLATTEN" THEN 0 ELSE at[0] + Toward(leg.side, leg.qty)
        /\ 2 * Size(b * net - a * at[0]) <= b * s * roundings
    <3>1. 0 \in 0 .. n /\ 1 \in 0 .. n /\ 1 \in 1 .. n /\ 1 - 1 = 0
      BY <2>3
    <3>2. at \in [0 .. n -> Int]
      BY <2>2, <2>3 DEF Follows
    <3>3. at[1] = IF intentsSent[1].offset = "FLATTEN" THEN 0
                  ELSE at[1 - 1] + Toward(intentsSent[1].side, intentsSent[1].qty)
      BY <2>2, <2>3, <3>1 DEF Follows
    <3>4. 2 * Size(b * net - a * at[0]) <= b * s * roundings
      BY <1>4, <1>5, <2>2 DEF Follows
    <3> QED
      BY <1>3, <3>1, <3>2, <3>3, <3>4
  <2>5. holding'["follower"] = t
    BY <1>10, <2>1
  <2>6. PICK r \in Nat, x \in Int : r = roundings /\ x = at[0]
    BY <1>8, <2>4
  <2>7. 2 * Size(b * t - a * at[1]) <= b * s * roundings'
    <3>1. CASE leg.offset = "FLATTEN"
      <4>1. t = 0 /\ at[1] = 0 /\ roundings' = r
        BY <1>10, <2>1, <2>4, <2>6, <3>1
      <4>2. b * 0 - a * 0 = 0 /\ Size(0) = 0 /\ b * s * r >= 0
        BY DEF Size
      <4> QED
        BY <4>1, <4>2
    <3>2. CASE leg.offset # "FLATTEN"
      <4>1. PICK u \in Int, w \in Int : u = Toward(leg.side, leg.qty) /\ w = Toward(leg.side, q)
        BY DEF Toward, SizeRequests
      <4>2. t = net + w /\ at[1] = x + u /\ roundings' = r + 1
        BY <1>10, <2>1, <2>4, <2>6, <3>2, <4>1
      <4>3. 2 * Size(b * w - a * u) <= b * s
        BY <1>5, <1>7, <4>1, ScaledClose DEF SizeRequests
      <4>4. 2 * Size(b * (net + w) - a * (x + u)) <= b * s * (r + 1)
        BY <2>4, <2>6, <4>3, DriftGrows
      <4> QED
        BY <4>2, <4>4
    <3> QED
      BY <3>1, <3>2
  <2>8. holding'["lead"] = holding["lead"]
    BY <1>10
  <2> QED
    BY <1>1, <1>2, <1>5, <2>2, <2>5, <2>7, <2>8, QueueShrinks
<1>14. Clean' => Mirrored'
  BY <1>11, CleanNext
<1> QED
  BY <1>11, <1>12, <1>13, <1>14 DEF SizeInv, Mirrored

LEMMA HostKeeps ==
  ASSUME SizeInv, NEW p \in Parties, ConnectHost(p) \/ LoadSizes(p)
  PROVE  SizeInv'
<1>1. /\ VenuesLoaded /\ VenueTakesSizes /\ Mirrored
      /\ UNCHANGED <<sizeVenue, scaleBy, holding, intentsSent, leadOrders, lastLeg, roundings, refusal>>
      /\ hostStage[p] # "trading"
  BY DEF SizeInv, ConnectHost, LoadSizes, HostMoves
<1>2. intentsSent = <<>> /\ roundings = 0 /\ \A q \in Parties : holding[q] = 0
  BY <1>1 DEF VenuesLoaded, Running
<1>3. /\ DOMAIN sizeSpec' = Parties /\ DOMAIN hostStage' = Parties
      /\ \A q \in Parties : q # p => hostStage'[q] = hostStage[q] /\ sizeSpec'[q] = sizeSpec[q]
      /\ \/ hostStage'[p] # "trading" /\ sizeSpec'[p] = sizeSpec[p]
         \/ sizeSpec'[p] = SpecLoaded(sizeVenue[p])
  <2>1. DOMAIN sizeSpec = Parties /\ DOMAIN hostStage = Parties
    BY <1>1 DEF VenuesLoaded
  <2>2. CASE ConnectHost(p)
    BY <2>1, <2>2 DEF ConnectHost, HostMoves
  <2>3. CASE LoadSizes(p)
    BY <2>1, <2>3 DEF LoadSizes, HostMoves
  <2> QED
    BY <2>2, <2>3
<1>5. ASSUME NEW q \in Parties
      PROVE  sizeSpec'[q].step \in Nat /\ (hostStage'[q] = "trading" => sizeSpec'[q] = SpecLoaded(sizeVenue[q]))
  <2>1. CASE q # p
    BY <1>1, <1>3, <2>1 DEF VenuesLoaded
  <2>2. CASE q = p
    <3>1. SpecLoaded(sizeVenue[p]).step \in Nat
      BY <1>1, VenueTypes DEF VenuesLoaded, SpecLoaded
    <3> QED
      BY <1>1, <1>3, <2>2, <3>1 DEF VenuesLoaded
  <2> QED
    BY <2>1, <2>2
<1>6. VenuesLoaded'
  BY <1>1, <1>2, <1>3, <1>5 DEF VenuesLoaded
<1>7. VenueTakesSizes'
  BY <1>1 DEF VenueTakesSizes
<1>8. Mirrored'
  <2>1. Clean'
    BY <1>1, <1>2 DEF Clean
  <2> QED
    BY <1>6, <2>1, CleanNext
<1> QED
  BY <1>6, <1>7, <1>8 DEF SizeInv

LEMMA SizeStep == SizeInv /\ [SizingNext]_sizingVars => SizeInv'
<1> SUFFICES ASSUME SizeInv, [SizingNext]_sizingVars PROVE SizeInv'
  OBVIOUS
<1>1. CASE UNCHANGED sizingVars
  BY <1>1 DEF sizingVars, SizeInv, VenuesLoaded, Running, VenueTakesSizes, Mirrored, Follows
<1>2. CASE \E p \in Parties : ConnectHost(p) \/ LoadSizes(p)
  BY <1>2, HostKeeps
<1>3. CASE \E side \in {"BUY", "SELL"}, offset \in {"OPEN", "CLOSE"}, qty \in Asked : LeadSends(side, offset, qty)
  BY <1>3, SendsKeep
<1>4. CASE LeadFlattens
  BY <1>4, FlattenKeeps
<1>5. CASE FollowerActs
  BY <1>5, FollowerKeeps
<1> QED
  BY <1>1, <1>2, <1>3, <1>4, <1>5 DEF SizingNext

LEMMA SizesFit == SizeInv => SizesHold
<1> SUFFICES ASSUME SizeInv, intentsSent = <<>>, ~refusal PROVE
      2 * Size(scaleBy[2] * holding["follower"] - scaleBy[1] * holding["lead"])
        <= scaleBy[2] * sizeSpec["follower"].step * roundings
  BY DEF SizeInv, SizesHold, DriftIsRounding
<1>1. PICK at : Follows(at)
  BY DEF SizeInv, Mirrored
<1>2. at[0] = holding["lead"]
  BY <1>1 DEF Follows
<1> QED
  BY <1>1, <1>2 DEF Follows

-----------------------------------------------------------------------------
(* The theorem.                                                            *)

OrderedInv ==
  /\ part = "risk"   => RiskInv
  /\ part = "sizing" => SizeInv

\* With any workers, rules, venues and scales: the check of the SDK lets no more
\* positions be opened and no more orders be sent than its limits and one for
\* each other worker, although a snapshot is judged later and nothing is reserved
\* (kqsdk/risk_adapter.py); what is sent is a size that the risk allows and the
\* venue takes, and a follower that was refused nothing is off by the roundings
\* alone (resolver.py, order_agent.py).
THEOREM OrdersSizedHolds == Spec => []OrdersSized
<1>1. Init => OrderedInv
  BY RiskStart, SizeStart DEF Init, OrderedInv
<1>2. OrderedInv /\ [Next]_vars => OrderedInv'
  <2> SUFFICES ASSUME OrderedInv, [Next]_vars PROVE OrderedInv'
    OBVIOUS
  <2>1. part' = part
    BY DEF Next, vars
  <2>2. part = "risk" => [RiskNext]_riskVars
    BY DEF Next, vars
  <2>3. part = "sizing" => [SizingNext]_sizingVars
    BY DEF Next, vars
  <2> QED
    BY <2>1, <2>2, <2>3, RiskStep, SizeStep DEF OrderedInv
<1>3. OrderedInv => OrdersSized
  BY RiskLimited, SizesFit DEF OrderedInv, OrdersSized
<1> QED
  BY <1>1, <1>2, <1>3, PTL DEF Spec

-----------------------------------------------------------------------------
(* The backtest engine: a position is what the last signal asked for.      *)
(* Orders go out by the close of a bar and are filled by the open of the   *)
(* next, two at most, one after the other.                                 *)

\* g folds the fills s over the subsets of their places, the last place last.
Folded(g, base, s, D) ==
  g = [t \in SUBSET D |-> IF t = {} THEN base ELSE AfterFill(g[t \ {Max(t)}], s[Max(t)])]

\* What the fold of the fills is by definition.
LEMMA FoldIs ==
  ASSUME NEW base, NEW s
  PROVE  FoldLeft(AfterFill, base, s) = (CHOOSE g : Folded(g, base, s, DOMAIN s))[DOMAIN s]
BY DEF FoldLeft, MapThenFoldSet, Folded

\* The last of at most two places.
LEMMA MaxOfTwoPlaces == Max({1}) = 1 /\ Max({2}) = 2 /\ Max({1, 2}) = 2
<1>1. \A S : \A x \in S : (\A y \in S : y \in Nat /\ x \in Nat /\ y <= x) => Max(S) = x
  <2> SUFFICES ASSUME NEW S, NEW x \in S, \A y \in S : y \in Nat /\ x \in Nat /\ y <= x PROVE Max(S) = x
    OBVIOUS
  <2>1. \A z \in S : (\A y \in S : z >= y) => z = x
    <3> SUFFICES ASSUME NEW z \in S, \A y \in S : z >= y PROVE z = x
      OBVIOUS
    <3>1. z \in Nat /\ x \in Nat /\ z <= x /\ x <= z
      OBVIOUS
    <3> QED BY <3>1
  <2>2. \A y \in S : x >= y
    OBVIOUS
  <2> QED BY <2>1, <2>2 DEF Max
<1> QED BY <1>1

\* Two fills at most, one after the other.
LEMMA FoldOfTwo ==
  ASSUME NEW base, NEW s, NEW n \in 0 .. 2, DOMAIN s = 1 .. n
  PROVE  FoldLeft(AfterFill, base, s) =
           IF n = 0 THEN base ELSE IF n = 1 THEN AfterFill(base, s[1]) ELSE AfterFill(AfterFill(base, s[1]), s[2])
<1>0. SUFFICES ASSUME NEW r, r = FoldLeft(AfterFill, base, s)
               PROVE  r = IF n = 0 THEN base ELSE IF n = 1 THEN AfterFill(base, s[1])
                          ELSE AfterFill(AfterFill(base, s[1]), s[2])
  OBVIOUS
<1> DEFINE D == DOMAIN s
           h == [t \in SUBSET D |-> IF t = {} THEN base
                                    ELSE IF t = {1} THEN AfterFill(base, s[1])
                                    ELSE IF t = {2} THEN AfterFill(base, s[2])
                                    ELSE AfterFill(AfterFill(base, s[1]), s[2])]
<1>1. (n = 0 /\ D = {}) \/ (n = 1 /\ D = {1}) \/ (n = 2 /\ D = {1, 2})
  OBVIOUS
<1>2. \A t \in SUBSET D : t = {} \/ t = {1} \/ t = {2} \/ t = {1, 2}
  BY <1>1
<1>3. {1} \ {1} = {} /\ {2} \ {2} = {} /\ {1, 2} \ {2} = {1} /\ {1} # {} /\ {2} # {} /\ {1, 2} # {}
      /\ {1} # {2} /\ {1} # {1, 2} /\ {2} # {1, 2}
  OBVIOUS
<1>4. Folded(h, base, s, D)
  <2>1. ASSUME NEW t \in SUBSET D
        PROVE  h[t] = IF t = {} THEN base ELSE AfterFill(h[t \ {Max(t)}], s[Max(t)])
    <3>1. CASE t = {}
      BY <3>1
    <3>2. CASE t = {1}
      <4>1. h[t] = AfterFill(base, s[1]) /\ h[{}] = base
        BY <1>3, <3>2
      <4>2. t \ {Max(t)} = {} /\ Max(t) = 1
        BY <1>3, <3>2, MaxOfTwoPlaces
      <4> HIDE DEF h
      <4> QED BY <1>3, <3>2, <4>1, <4>2
    <3>3. CASE t = {2}
      <4>1. h[t] = AfterFill(base, s[2]) /\ h[{}] = base
        BY <1>3, <3>3
      <4>2. t \ {Max(t)} = {} /\ Max(t) = 2
        BY <1>3, <3>3, MaxOfTwoPlaces
      <4> HIDE DEF h
      <4> QED BY <1>3, <3>3, <4>1, <4>2
    <3>4. CASE t = {1, 2}
      <4>1. h[t] = AfterFill(AfterFill(base, s[1]), s[2])
        BY <1>3, <3>4
      <4>3. {1} \in SUBSET D
        BY <3>4
      <4>4. h[{1}] = AfterFill(base, s[1])
        BY <1>3, <4>3
      <4>2. t \ {Max(t)} = {1} /\ Max(t) = 2
        BY <1>3, <3>4, MaxOfTwoPlaces
      <4> HIDE DEF h
      <4> QED BY <1>3, <3>4, <4>1, <4>2, <4>4
    <3> QED BY <1>2, <3>1, <3>2, <3>3, <3>4
  <2>2. h = [t \in SUBSET D |-> h[t]]
    OBVIOUS
  <2> HIDE DEF h, D
  <2>3. h = [t \in SUBSET D |-> IF t = {} THEN base ELSE AfterFill(h[t \ {Max(t)}], s[Max(t)])]
    BY <2>1, <2>2
  <2> QED BY <2>3, Zenon DEF Folded
<1>5. PICK g : Folded(g, base, s, D) /\ r = g[D]
  <2> HIDE DEF h
  <2> QED BY <1>0, <1>4, FoldIs, Zenon
<1>6. ASSUME NEW t \in SUBSET D
      PROVE  g[t] = IF t = {} THEN base ELSE AfterFill(g[t \ {Max(t)}], s[Max(t)])
  <2> HIDE DEF h, D
  <2> QED BY <1>5 DEF Folded
<1> HIDE DEF h
<1>7. g[{}] = base
  BY <1>6
<1>8. CASE n = 0
  BY <1>1, <1>5, <1>7, <1>8
<1>9. CASE n # 0
  <2>1. {1} \in SUBSET D
    BY <1>1, <1>9
  <2>2. g[{1}] = AfterFill(base, s[1])
    <3>1. {1} \ {Max({1})} = {} /\ Max({1}) = 1
      BY MaxOfTwoPlaces
    <3> HIDE DEF D
    <3>2. g[{1}] = AfterFill(g[{1} \ {Max({1})}], s[Max({1})])
      BY <1>3, <1>6, <2>1
    <3> QED BY <1>7, <3>1, <3>2
  <2>3. CASE n = 1
    BY <1>1, <1>5, <2>2, <2>3
  <2>4. CASE n = 2
    <3>1. D = {1, 2} /\ {1, 2} \in SUBSET D
      BY <1>1, <2>4
    <3>2. {1, 2} \ {Max({1, 2})} = {1} /\ Max({1, 2}) = 2
      BY <1>3, MaxOfTwoPlaces
    <3>3. g[{1, 2}] = AfterFill(g[{1, 2} \ {Max({1, 2})}], s[Max({1, 2})])
      <4> HIDE DEF D
      <4> QED BY <1>3, <1>6, <3>1
    <3>4. g[{1, 2}] = AfterFill(AfterFill(base, s[1]), s[2])
      BY <2>2, <3>2, <3>3
    <3>5. r = g[{1, 2}]
      BY <1>5, <3>1
    <3> QED BY <2>4, <3>4, <3>5
  <2> QED BY <1>9, <2>3, <2>4
<1> QED BY <1>8, <1>9

\* All orders of a list, or none.
LEMMA AllPlaces ==
  ASSUME NEW S, NEW s \in Seq(S)
  PROVE  OrdersAt(s, DOMAIN s) = s /\ OrdersAt(s, {}) = <<>>
<1>1. DOMAIN s = 1 .. Len(s) /\ Len(s) \in Nat
  OBVIOUS
<1>2. \A n \in Nat : Cardinality(1 .. n) = n
  BY FS_Interval
<1>3. ASSUME NEW n \in 1 .. Len(s)
      PROVE  (CHOOSE k \in DOMAIN s : Cardinality({j \in DOMAIN s : j <= k}) = n) = n
  <2>1. ASSUME NEW k \in DOMAIN s PROVE Cardinality({j \in DOMAIN s : j <= k}) = k
    <3>1. {j \in DOMAIN s : j <= k} = 1 .. k /\ k \in Nat
      BY <1>1
    <3> QED BY <1>2, <3>1
  <2>2. n \in DOMAIN s
    BY <1>1
  <2> QED BY <2>1, <2>2
<1>4. Cardinality(DOMAIN s) = Len(s)
  BY <1>1, <1>2
<1>5. OrdersAt(s, DOMAIN s) = [n \in 1 .. Len(s) |-> s[n]]
  <2> DEFINE place(n) == CHOOSE k \in DOMAIN s : Cardinality({j \in DOMAIN s : j <= k}) = n
  <2>1. OrdersAt(s, DOMAIN s) = [n \in 1 .. Len(s) |-> s[place(n)]]
    BY <1>4, Zenon DEF OrdersAt
  <2>2. \A n \in 1 .. Len(s) : place(n) = n
    BY <1>3
  <2> HIDE DEF place
  <2> QED BY <2>1, <2>2
<1>6. [n \in 1 .. Len(s) |-> s[n]] = s
  BY <1>1
<1>7. OrdersAt(s, {}) = <<>>
  <2>1. Cardinality({}) = 0
    BY FS_EmptySet
  <2> DEFINE place(n) == CHOOSE k \in {} : Cardinality({j \in {} : j <= k}) = n
  <2>2. OrdersAt(s, {}) = [n \in 1 .. 0 |-> s[place(n)]]
    BY <2>1, Zenon DEF OrdersAt
  <2> HIDE DEF place
  <2> QED BY <2>2
<1> QED BY <1>5, <1>6, <1>7

\* The positions, the orders of a signal and the fills of a bar.
Holdings == [side : {"none", "LONG", "SHORT"}, qty : Int, entry : Int]
BarOrders == [id : {0}, kind : {"market"}, side : {"BUY", "SELL"}, price : {0}, qty : Int, created : Nat]
FillsOfBar == [side : {"BUY", "SELL"}, qty : Int, price : Int, fee : Int]

\* The side of the order that opens a position, and of the one that closes it.
Entry(side) == IF side = "LONG" THEN "BUY" ELSE "SELL"
Against(side) == IF side = "LONG" THEN "SELL" ELSE "BUY"

\* What the orders of the last signal are, given the position it found: none when
\* there is nothing to do, one that opens or closes, two that turn it round.
OrdersAsked ==
  \/ sentOrders = <<>> /\ (~emptyFill => held.side = wanted)
  \/ Len(sentOrders) = 1 /\ wanted = "none" /\ held.side # "none"
     /\ sentOrders[1].side = Against(held.side)
  \/ Len(sentOrders) = 1 /\ wanted # "none" /\ held.side = "none"
     /\ sentOrders[1].side = Entry(wanted)
  \/ Len(sentOrders) = 2 /\ wanted # "none" /\ held.side \notin {"none", wanted}
     /\ sentOrders[1].side = Entry(wanted) /\ sentOrders[2].side = Entry(wanted)

\* What the report is computed from.
AccountInv == capital \in Int /\ profits \in Seq(Int) /\ curve \in Seq(Int) /\ curve # <<>>

\* The invariant: no order is younger than the bar, and the orders that wait
\* for the next bar are those the last signal asks of the position.
EngineInv ==
  /\ bar \in Nat /\ AccountInv /\ held \in Holdings /\ wanted \in {"none", "LONG", "SHORT"}
  /\ emptyFill \in BOOLEAN
  /\ sentOrders \in Seq(BarOrders) /\ Len(sentOrders) \in 0 .. 2
  /\ \A i \in DOMAIN sentOrders : sentOrders[i].created <= bar
  /\ ~emptyFill => held.side = "none" \/ held.qty > 0
  /\ bar < EngineBars => OrdersAsked

\* What a fill makes of a position.
HeldAfter(h, f) ==
  IF h.side = (IF f.side = "BUY" THEN "SHORT" ELSE "LONG") /\ h.qty > 0 THEN NoHolding
  ELSE [side |-> IF f.side = "BUY" THEN "LONG" ELSE "SHORT", qty |-> f.qty, entry |-> f.price]

\* The account while the fills of a bar are taken.
IsAccount(a) ==
  a.held \in Holdings /\ a.capital \in Int /\ a.profits \in Seq(Int)
  /\ a = [held |-> a.held, capital |-> a.capital, profits |-> a.profits]

\* A fill closes the other side of the position, or opens its own.
LEMMA FillEffect ==
  ASSUME NEW a, IsAccount(a), NEW f \in FillsOfBar
  PROVE  IsAccount(AfterFill(a, f)) /\ AfterFill(a, f).held = HeldAfter(a.held, f)
<1>1. PICK h, c, p : a = [held |-> h, capital |-> c, profits |-> p] /\ h \in Holdings /\ c \in Int /\ p \in Seq(Int)
  BY DEF IsAccount
<1>2. f.side \in {"BUY", "SELL"} /\ f.qty \in Int /\ f.price \in Int /\ f.fee \in Int
  BY DEF FillsOfBar
<1>3. h.qty \in Int /\ h.entry \in Int
  BY <1>1 DEF Holdings
<1>4. a.held = h /\ a.capital = c
  BY <1>1
<1>5. PICK gain : gain = ProfitOf(h, f.price) - f.fee
  OBVIOUS
<1>6. gain \in Int
  BY <1>2, <1>3, <1>5 DEF ProfitOf
<1>7. NoHolding \in Holdings
  BY DEF NoHolding, Holdings
<1>8. PICK now : now = [side |-> IF f.side = "BUY" THEN "LONG" ELSE "SHORT", qty |-> f.qty, entry |-> f.price]
  OBVIOUS
<1>9. now \in Holdings
  BY <1>2, <1>8 DEF Holdings
<1>10. CASE h.side = (IF f.side = "BUY" THEN "SHORT" ELSE "LONG") /\ h.qty > 0
  <2>1. AfterFill(a, f) = [held |-> NoHolding, capital |-> c + gain, profits |-> Append(p, gain)]
    BY <1>1, <1>4, <1>5, <1>10 DEF AfterFill
  <2>2. HeldAfter(h, f) = NoHolding
    BY <1>10 DEF HeldAfter
  <2>3. Append(p, gain) \in Seq(Int) /\ c + gain \in Int
    BY <1>1, <1>6
  <2> QED BY <1>4, <1>7, <2>1, <2>2, <2>3 DEF IsAccount
<1>11. CASE ~(h.side = (IF f.side = "BUY" THEN "SHORT" ELSE "LONG") /\ h.qty > 0)
  <2>1. AfterFill(a, f) = [a EXCEPT !.held = now, !.capital = @ - f.fee]
    BY <1>4, <1>8, <1>11 DEF AfterFill
  <2>2. HeldAfter(h, f) = now
    BY <1>8, <1>11 DEF HeldAfter
  <2>3. AfterFill(a, f) = [held |-> now, capital |-> c - f.fee, profits |-> p]
    BY <1>1, <2>1
  <2> QED BY <1>1, <1>2, <1>4, <1>9, <2>2, <2>3 DEF IsAccount
<1> QED BY <1>10, <1>11

\* The orders of a signal.
LEMMA OrdersAre ==
  ASSUME NEW signal, NEW h, NEW q
  PROVE  LET os == OrdersOf(signal, h, q)
             m(side) == MarketOrder(side, q)
         IN /\ <<>> \o os = os
            /\ \/ signal \in {"LONG", "SHORT"} /\ h.side = "none" /\ os = <<m(Entry(signal))>>
               \/ /\ signal \in {"LONG", "SHORT"} /\ h.side \notin {"none", signal}
                  /\ os = <<m(Entry(signal)), m(Entry(signal))>>
               \/ signal = "CLOSE" /\ h.side # "none" /\ os = <<m(Against(h.side))>>
               \/ /\ os = <<>>
                  /\ \/ signal \in {"LONG", "SHORT"} /\ h.side = signal
                     \/ signal = "CLOSE" /\ h.side = "none"
                     \/ signal \notin {"LONG", "SHORT", "CLOSE"}
<1>1. PICK e, a : e = MarketOrder(Entry(signal), q) /\ a = MarketOrder(Against(h.side), q)
  OBVIOUS
<1>2. <<e>> \o <<e>> = <<e, e>> /\ <<>> \o <<e>> = <<e>> /\ <<>> \o <<a>> = <<a>>
      /\ <<>> \o <<e, e>> = <<e, e>> /\ <<>> \o <<>> = <<>>
  <2>1. <<>> \in Seq({e, a}) /\ <<e>> \in Seq({e, a}) /\ <<a>> \in Seq({e, a}) /\ <<e, e>> \in Seq({e, a})
    OBVIOUS
  <2>2. \A s \in Seq({e, a}) : <<>> \o s = s
    OBVIOUS
  <2>3. <<e>> \o <<e>> = <<e, e>>
    <3>1. PICK u, v : u = <<e>> \o <<e>> /\ v = <<e, e>>
      OBVIOUS
    <3>2. u \in Seq({e}) /\ Len(u) = 2 /\ v \in Seq({e}) /\ Len(v) = 2
      <4>1. <<e>> \in Seq({e}) /\ Len(<<e>>) = 1
        OBVIOUS
      <4>2. u \in Seq({e}) /\ Len(u) = 2
        BY <3>1, <4>1, ConcatProperties
      <4> QED BY <3>1, <4>2
    <3>3. \A i \in 1 .. 2 : u[i] = e /\ v[i] = e
      BY <3>2
    <3> QED BY <3>1, <3>2, <3>3, SeqEqual
  <2> QED BY <2>1, <2>2, <2>3
<1>3. CASE signal \in {"LONG", "SHORT"} /\ h.side # signal
  <2>1. OrdersOf(signal, h, q) = (IF h.side # "none" THEN <<e>> ELSE <<>>) \o <<e>>
    BY <1>1, <1>3 DEF OrdersOf, Entry
  <2>2. CASE h.side = "none"
    <3>1. OrdersOf(signal, h, q) = <<e>>
      BY <1>2, <2>1, <2>2
    <3> QED BY <1>1, <1>2, <1>3, <2>2, <3>1
  <2>3. CASE h.side # "none"
    <3>1. OrdersOf(signal, h, q) = <<e, e>>
      BY <1>2, <2>1, <2>3
    <3> QED BY <1>1, <1>2, <1>3, <2>3, <3>1
  <2> QED BY <2>2, <2>3
<1>4. CASE signal = "CLOSE" /\ h.side # "none"
  <2>1. OrdersOf(signal, h, q) = <<a>>
    BY <1>1, <1>4 DEF OrdersOf, Against
  <2> QED BY <1>1, <1>2, <1>4, <2>1
<1>5. CASE ~(signal \in {"LONG", "SHORT"} /\ h.side # signal) /\ ~(signal = "CLOSE" /\ h.side # "none")
  <2>1. OrdersOf(signal, h, q) = <<>>
    BY <1>5 DEF OrdersOf
  <2> QED BY <1>2, <1>5, <2>1
<1> QED BY <1>3, <1>4, <1>5

\* All orders of a signal are filled on the next bar, in their order.
LEMMA BarReplayed ==
  ASSUME EngineInv, NEW open \in EnginePrices, NEW close \in EnginePrices, NEW signal,
         ReplayBar(open, close, signal)
  PROVE  \E fs, q :
           /\ DOMAIN fs = 1 .. Len(sentOrders) /\ q \in Int
           /\ \A i \in DOMAIN fs : fs[i] \in FillsOfBar /\ fs[i].side = sentOrders[i].side
                                   /\ fs[i].qty = sentOrders[i].qty
           /\ held' = (IF Len(sentOrders) = 0 THEN held
                       ELSE IF Len(sentOrders) = 1 THEN HeldAfter(held, fs[1])
                       ELSE HeldAfter(HeldAfter(held, fs[1]), fs[2]))
           /\ held' \in Holdings /\ AccountInv'
           /\ sentOrders' = (IF bar' < EngineBars THEN OrdersOf(signal, held', q) ELSE <<>>)
           /\ emptyFill' = (emptyFill \/ \E i \in DOMAIN sentOrders : sentOrders[i].qty <= 0)
<1> DEFINE b == [open |-> open, high |-> open, low |-> open, close |-> close, volume |-> 1]
           fillOf(o) == [side |-> o.side, qty |-> o.qty, price |-> ExecPrice(o, b, SlipModel),
                         fee |-> FillFee(o, b, SlipModel, FeeModel)]
           filled == FilledBy(sentOrders, b, bar')
           base == [held |-> held, capital |-> capital, profits |-> profits]
           fs == [i \in DOMAIN filled |-> fillOf(filled[i])]
           after == FoldLeft(AfterFill, base, fs)
           n == Len(sentOrders)
<1>1. /\ bar' = bar + 1 /\ held' = after.held /\ capital' = after.capital
      /\ emptyFill' = (emptyFill \/ \E i \in DOMAIN filled : filled[i].qty <= 0)
      /\ sentOrders' = LeftBy(sentOrders, b, bar') \o
           (IF bar' < EngineBars THEN OrdersOf(signal, after.held, Sized(close, after.capital)) ELSE <<>>)
  BY Zenon DEF ReplayBar
<1>0. profits' = after.profits /\ curve' = Append(curve, after.capital + ProfitOf(after.held, close))
  BY Zenon DEF ReplayBar
<1>2. n \in 0 .. 2 /\ DOMAIN sentOrders = 1 .. n /\ bar \in Nat
      /\ \A i \in DOMAIN sentOrders : sentOrders[i] \in BarOrders /\ sentOrders[i].created <= bar
  BY DEF EngineInv
<1>3. \A i \in DOMAIN sentOrders : Matched(sentOrders[i], b, bar')
  <2> SUFFICES ASSUME NEW i \in DOMAIN sentOrders PROVE Matched(sentOrders[i], b, bar')
    OBVIOUS
  <2>1. sentOrders[i].kind = "market" /\ sentOrders[i].created \in Nat
    BY <1>2 DEF BarOrders
  <2>2. sentOrders[i].created < bar'
    <3>1. bar' = bar + 1 /\ bar \in Nat /\ sentOrders[i].created <= bar
      BY <1>1, <1>2
    <3> QED BY <2>1, <3>1
  <2> QED BY <2>1, <2>2 DEF Matched, Touched
<1>4. filled = sentOrders /\ LeftBy(sentOrders, b, bar') = <<>>
  <2>1. {k \in DOMAIN sentOrders : Matched(sentOrders[k], b, bar')} = DOMAIN sentOrders
        /\ {k \in DOMAIN sentOrders : ~Matched(sentOrders[k], b, bar')} = {}
    <3> HIDE DEF b
    <3> QED BY <1>3
  <2>2. OrdersAt(sentOrders, DOMAIN sentOrders) = sentOrders /\ OrdersAt(sentOrders, {}) = <<>>
    BY AllPlaces DEF EngineInv
  <2> QED BY <2>1, <2>2, Zenon DEF FilledBy, LeftBy
<1>5. EngineFee \in Nat /\ SlipBy \in Nat /\ open \in Nat /\ close \in Nat \ {0} /\ SizePercent \in Nat
  BY EngineAssumption
<1>6. ASSUME NEW o \in BarOrders PROVE fillOf(o) \in FillsOfBar
  <2>1. o.side \in {"BUY", "SELL"} /\ o.qty \in Int /\ o.kind = "market"
    BY DEF BarOrders
  <2>2. BasePrice(o, b) = open
    BY <2>1 DEF BasePrice
  <2>3. Slip(SlipModel, open, o.qty, b.volume) = SlipBy
    BY DEF Slip, SlipModel
  <2>4. ExecPrice(o, b, SlipModel) \in Int
    BY <1>5, <2>2, <2>3 DEF ExecPrice, SlippedPrice
  <2>5. FillFee(o, b, SlipModel, FeeModel) = EngineFee
    BY DEF FillFee, FeeOf, FeeModel
  <2> HIDE DEF b
  <2> QED BY <1>5, <2>1, <2>4, <2>5 DEF FillsOfBar
<1>7. DOMAIN fs = 1 .. n /\ \A i \in 1 .. n : fs[i] = fillOf(sentOrders[i])
  <2> HIDE DEF filled, fillOf
  <2> QED BY <1>2, <1>4
<1>8. \A i \in DOMAIN fs : fs[i] \in FillsOfBar /\ fs[i].side = sentOrders[i].side /\ fs[i].qty = sentOrders[i].qty
  <2> SUFFICES ASSUME NEW i \in DOMAIN fs
               PROVE  fs[i] \in FillsOfBar /\ fs[i].side = sentOrders[i].side /\ fs[i].qty = sentOrders[i].qty
    OBVIOUS
  <2>1. fs[i] = fillOf(sentOrders[i]) /\ sentOrders[i] \in BarOrders
    <3> HIDE DEF fs, fillOf
    <3> QED BY <1>2, <1>7
  <2>2. fillOf(sentOrders[i]).side = sentOrders[i].side /\ fillOf(sentOrders[i]).qty = sentOrders[i].qty
    OBVIOUS
  <2> HIDE DEF fs, fillOf
  <2> QED BY <1>6, <2>1, <2>2
<1>9. IsAccount(base) /\ base.held = held
  BY DEF IsAccount, EngineInv, AccountInv, ReplayBar
<1> HIDE DEF fs, fillOf, base, filled, b
<1>10. after = IF n = 0 THEN base ELSE IF n = 1 THEN AfterFill(base, fs[1])
               ELSE AfterFill(AfterFill(base, fs[1]), fs[2])
  BY <1>2, <1>7, FoldOfTwo
<1> HIDE DEF after
<1>11. /\ IsAccount(after)
       /\ after.held = (IF n = 0 THEN held ELSE IF n = 1 THEN HeldAfter(held, fs[1])
                        ELSE HeldAfter(HeldAfter(held, fs[1]), fs[2]))
  <2>1. CASE n = 0
    BY <1>9, <1>10, <2>1
  <2>2. CASE n # 0
    <3>1. 1 \in DOMAIN fs
      BY <1>2, <1>7, <2>2
    <3>2. IsAccount(AfterFill(base, fs[1])) /\ AfterFill(base, fs[1]).held = HeldAfter(held, fs[1])
      BY <1>8, <1>9, <3>1, FillEffect
    <3>3. CASE n = 1
      BY <1>10, <2>2, <3>2, <3>3
    <3>4. CASE n = 2
      <4>1. 2 \in DOMAIN fs
        BY <1>2, <1>7, <3>4
      <4>2. PICK a : a = AfterFill(base, fs[1])
        OBVIOUS
      <4>3. IsAccount(AfterFill(a, fs[2])) /\ AfterFill(a, fs[2]).held = HeldAfter(a.held, fs[2])
        BY <1>8, <3>2, <4>1, <4>2, FillEffect
      <4> QED BY <1>10, <3>2, <3>4, <4>2, <4>3
    <3> QED BY <1>2, <2>2, <3>3, <3>4
  <2> QED BY <2>1, <2>2
<1>12. after.held \in Holdings /\ after.capital \in Int
  BY <1>11 DEF IsAccount
<1>13. Sized(close, after.capital) \in Int
  BY <1>5, <1>12 DEF Sized
<1>14. sentOrders' = IF bar' < EngineBars THEN OrdersOf(signal, held', Sized(close, after.capital)) ELSE <<>>
  <2>1. CASE bar' < EngineBars
    <3>1. PICK os : os = OrdersOf(signal, held', Sized(close, after.capital))
      OBVIOUS
    <3>2. sentOrders' = <<>> \o os
      BY <1>1, <1>4, <2>1, <3>1
    <3>4. <<>> \o os = os
      BY <3>1, OrdersAre
    <3> QED BY <2>1, <3>1, <3>2, <3>4
  <2>2. CASE ~(bar' < EngineBars)
    BY <1>1, <1>4, <2>2
  <2> QED BY <2>1, <2>2
<1>15. emptyFill' = (emptyFill \/ \E i \in DOMAIN sentOrders : sentOrders[i].qty <= 0)
  BY <1>1, <1>4, Zenon
<1>16. held' \in Holdings /\ AccountInv' /\ held' = after.held
  <2>1. profits' = after.profits /\ curve' = Append(curve, after.capital + ProfitOf(after.held, close))
    BY <1>0
  <2>2. PICK x : x = after.capital + ProfitOf(after.held, close)
    OBVIOUS
  <2>3. after.held.qty \in Int /\ after.held.entry \in Int /\ after.capital \in Int
    BY <1>12 DEF Holdings
  <2>4. x \in Int
    BY <1>5, <2>2, <2>3 DEF ProfitOf
  <2>5. curve' = Append(curve, x) /\ curve \in Seq(Int)
    BY <2>1, <2>2 DEF EngineInv, AccountInv
  <2>6. curve' \in Seq(Int) /\ curve' # <<>>
    BY <2>4, <2>5
  <2>7. after.profits \in Seq(Int)
    BY <1>11 DEF IsAccount
  <2> QED BY <1>1, <1>12, <2>1, <2>6, <2>7 DEF AccountInv
<1> QED BY <1>7, <1>8, <1>11, <1>13, <1>14, <1>15, <1>16

\* A bar: where the fills leave the account, and what the next signal asks.
LEMMA BarStep ==
  ASSUME EngineInv, NEW open \in EnginePrices, NEW close \in EnginePrices,
         NEW signal \in {"LONG", "SHORT", "CLOSE", "none"}, ReplayBar(open, close, signal)
  PROVE  /\ EngineInv'
         /\ (\/ ~emptyFill'
             \/ /\ sentOrders # <<>> /\ \A i \in DOMAIN sentOrders : sentOrders[i].qty > 0
                /\ held.side = "none" \/ held.qty > 0) => held'.side = wanted
<1>1. PICK fs, q :
           /\ DOMAIN fs = 1 .. Len(sentOrders) /\ q \in Int
           /\ \A i \in DOMAIN fs : fs[i] \in FillsOfBar /\ fs[i].side = sentOrders[i].side
                                   /\ fs[i].qty = sentOrders[i].qty
           /\ held' = (IF Len(sentOrders) = 0 THEN held
                       ELSE IF Len(sentOrders) = 1 THEN HeldAfter(held, fs[1])
                       ELSE HeldAfter(HeldAfter(held, fs[1]), fs[2]))
           /\ held' \in Holdings /\ AccountInv'
           /\ sentOrders' = (IF bar' < EngineBars THEN OrdersOf(signal, held', q) ELSE <<>>)
           /\ emptyFill' = (emptyFill \/ \E i \in DOMAIN sentOrders : sentOrders[i].qty <= 0)
  BY BarReplayed
<1>0. Len(sentOrders) \in 0 .. 2 /\ held \in Holdings /\ held' \in Holdings /\ wanted \in {"none", "LONG", "SHORT"}
  BY <1>1 DEF EngineInv
<1>2. PICK n \in 0 .. 2, h \in Holdings, after \in Holdings :
        n = Len(sentOrders) /\ h = held /\ after = held' /\ wanted \in {"none", "LONG", "SHORT"}
  BY <1>0
<1>3. after = IF n = 0 THEN h ELSE IF n = 1 THEN HeldAfter(h, fs[1]) ELSE HeldAfter(HeldAfter(h, fs[1]), fs[2])
  BY <1>1, <1>2
<1>4. bar < EngineBars /\ bar' = bar + 1 /\ OrdersAsked /\ bar \in Nat
      /\ wanted' = CASE signal \in {"LONG", "SHORT"} -> signal [] signal = "CLOSE" -> "none" [] OTHER -> wanted
  BY DEF ReplayBar, EngineInv
<1>5. DOMAIN sentOrders = 1 .. n /\ (n = 0 <=> sentOrders = <<>>) /\ \A i \in 1 .. n : sentOrders[i] \in BarOrders
  BY <1>2 DEF EngineInv
<1>6. \A i \in 1 .. n : fs[i].side = sentOrders[i].side /\ fs[i].qty = sentOrders[i].qty /\ fs[i].qty \in Int
                          /\ fs[i].side \in {"BUY", "SELL"}
  BY <1>1, <1>2 DEF FillsOfBar
<1>7. ~emptyFill' => ~emptyFill /\ \A i \in 1 .. n : fs[i].qty > 0
  <2> SUFFICES ASSUME ~emptyFill' PROVE ~emptyFill /\ \A i \in 1 .. n : fs[i].qty > 0
    OBVIOUS
  <2>1. emptyFill' = (emptyFill \/ \E i \in DOMAIN sentOrders : sentOrders[i].qty <= 0)
    BY <1>1
  <2>2. ~emptyFill /\ \A i \in DOMAIN sentOrders : ~(sentOrders[i].qty <= 0)
    BY <2>1, Zenon
  <2>3. \A i \in 1 .. n : ~(fs[i].qty <= 0) /\ fs[i].qty \in Int
    BY <1>5, <1>6, <2>2
  <2> QED BY <2>2, <2>3
<1>8. ~emptyFill => h.side = "none" \/ h.qty > 0
  BY <1>2 DEF EngineInv
<1>9. h.side \in {"none", "LONG", "SHORT"} /\ h.qty \in Int
  BY <1>2 DEF Holdings
\* Where the account is when all that was filled was whole.
<1>10. ASSUME \A i \in 1 .. n : fs[i].qty > 0, h.side = "none" \/ h.qty > 0
       PROVE  (after.side = "none" \/ after.qty > 0) /\ (n > 0 => after.side = wanted)
  <2>1. CASE n = 0
    BY <1>3, <1>10, <2>1
  <2>2. CASE n = 1
    <3>1. after = HeldAfter(h, fs[1]) /\ fs[1].qty > 0 /\ fs[1].side \in {"BUY", "SELL"}
      BY <1>3, <1>6, <1>10, <2>2
    <3>2. \/ wanted = "none" /\ h.side # "none" /\ fs[1].side = Against(h.side)
          \/ wanted # "none" /\ h.side = "none" /\ fs[1].side = Entry(wanted)
      BY <1>2, <1>4, <1>5, <1>6, <2>2 DEF OrdersAsked
    <3>3. CASE wanted = "none" /\ h.side # "none" /\ fs[1].side = Against(h.side)
      <4>1. after = NoHolding
        BY <1>9, <1>10, <3>1, <3>3 DEF HeldAfter, Against
      <4> QED BY <3>3, <4>1 DEF NoHolding
    <3>4. CASE wanted # "none" /\ h.side = "none" /\ fs[1].side = Entry(wanted)
      <4>1. after.side = wanted /\ after.qty = fs[1].qty
        BY <1>2, <3>1, <3>4 DEF HeldAfter, Entry
      <4> QED BY <3>1, <4>1
    <3> QED BY <3>2, <3>3, <3>4
  <2>3. CASE n = 2
    <3>1. /\ after = HeldAfter(HeldAfter(h, fs[1]), fs[2])
          /\ fs[2].qty > 0 /\ fs[1].qty > 0 /\ wanted # "none" /\ h.side \notin {"none", wanted}
          /\ fs[1].side = Entry(wanted) /\ fs[2].side = Entry(wanted)
      BY <1>2, <1>3, <1>4, <1>5, <1>6, <1>10, <2>3 DEF OrdersAsked
    <3>2. HeldAfter(h, fs[1]) = NoHolding
      BY <1>2, <1>9, <1>10, <3>1 DEF HeldAfter, Entry
    <3>3. after.side = wanted /\ after.qty = fs[2].qty
      BY <1>2, <3>1, <3>2 DEF HeldAfter, Entry, NoHolding
    <3> QED BY <3>1, <3>3
  <2> QED BY <1>2, <2>1, <2>2, <2>3
<1>11. ~emptyFill' => after.side = wanted /\ (after.side = "none" \/ after.qty > 0)
  <2> SUFFICES ASSUME ~emptyFill' PROVE after.side = wanted /\ (after.side = "none" \/ after.qty > 0)
    OBVIOUS
  <2>1. (after.side = "none" \/ after.qty > 0) /\ (n > 0 => after.side = wanted)
    BY <1>7, <1>8, <1>10
  <2>2. n = 0 => after.side = wanted
    BY <1>2, <1>3, <1>4, <1>5, <1>7 DEF OrdersAsked
  <2> QED BY <1>2, <2>1, <2>2
<1>12. ASSUME sentOrders # <<>>, \A i \in DOMAIN sentOrders : sentOrders[i].qty > 0, held.side = "none" \/ held.qty > 0
       PROVE  held'.side = wanted
  <2>1. n > 0 /\ \A i \in 1 .. n : fs[i].qty > 0
    BY <1>2, <1>5, <1>6, <1>12
  <2> QED BY <1>2, <1>10, <1>12, <2>1
<1>13. wanted' \in {"none", "LONG", "SHORT"}
  BY <1>2, <1>4
<1>14. emptyFill' \in BOOLEAN
  BY <1>1 DEF EngineInv
<1>15. /\ sentOrders' \in Seq(BarOrders) /\ Len(sentOrders') \in 0 .. 2
       /\ \A i \in DOMAIN sentOrders' : sentOrders'[i].created <= bar'
       /\ bar' < EngineBars => OrdersAsked'
  <2>1. CASE ~(bar' < EngineBars)
    <3>1. sentOrders' = <<>>
      BY <1>1, <2>1
    <3> QED BY <2>1, <3>1
  <2>2. CASE bar' < EngineBars
    <3>1. PICK t : t = sentOrders'
      OBVIOUS
    <3>2. t = OrdersOf(signal, after, q)
      BY <1>1, <1>2, <2>2, <3>1
    <3>3. \A side \in {"BUY", "SELL"} :
             /\ MarketOrder(side, q) \in BarOrders /\ MarketOrder(side, q).created <= bar'
             /\ MarketOrder(side, q).side = side
      BY <1>1, <1>4 DEF MarketOrder, BarOrders
    <3>4. Entry(signal) \in {"BUY", "SELL"} /\ Against(after.side) \in {"BUY", "SELL"}
      BY DEF Entry, Against
    <3>5. PICK e, a : e = MarketOrder(Entry(signal), q) /\ a = MarketOrder(Against(after.side), q)
      OBVIOUS
    <3>6. /\ e \in BarOrders /\ a \in BarOrders /\ e.created <= bar' /\ a.created <= bar'
          /\ e.side = Entry(signal) /\ a.side = Against(after.side)
      BY <3>3, <3>4, <3>5
    <3>7. \/ signal \in {"LONG", "SHORT"} /\ after.side = "none" /\ t = <<e>>
          \/ signal \in {"LONG", "SHORT"} /\ after.side \notin {"none", signal} /\ t = <<e, e>>
          \/ signal = "CLOSE" /\ after.side # "none" /\ t = <<a>>
          \/ /\ t = <<>>
             /\ \/ signal \in {"LONG", "SHORT"} /\ after.side = signal
                \/ signal = "CLOSE" /\ after.side = "none"
                \/ signal \notin {"LONG", "SHORT", "CLOSE"}
      BY <3>2, <3>5, OrdersAre
    <3>8. \/ t = <<>> \/ t = <<e>> \/ t = <<a>> \/ t = <<e, e>>
      BY <3>7
    <3>9. /\ t \in Seq(BarOrders) /\ Len(t) \in 0 .. 2 /\ \A i \in DOMAIN t : t[i].created <= bar'
      <4>1. CASE t = <<>>
        BY <4>1
      <4>2. CASE t = <<e>>
        BY <3>6, <4>2
      <4>3. CASE t = <<a>>
        BY <3>6, <4>3
      <4>4. CASE t = <<e, e>>
        BY <3>6, <4>4
      <4> QED BY <3>8, <4>1, <4>2, <4>3, <4>4
    <3>10. signal = "none" => wanted' = wanted
      BY <1>4
    <3>11. (signal \in {"LONG", "SHORT"} => wanted' = signal) /\ (signal = "CLOSE" => wanted' = "none")
      BY <1>4
    <3>12. \/ t = <<>> /\ (~emptyFill' => after.side = wanted')
           \/ Len(t) = 1 /\ wanted' = "none" /\ after.side # "none" /\ t[1].side = Against(after.side)
           \/ Len(t) = 1 /\ wanted' # "none" /\ after.side = "none" /\ t[1].side = Entry(wanted')
           \/ Len(t) = 2 /\ wanted' # "none" /\ after.side \notin {"none", wanted'}
              /\ t[1].side = Entry(wanted') /\ t[2].side = Entry(wanted')
      <4>1. CASE signal \in {"LONG", "SHORT"} /\ after.side = "none" /\ t = <<e>>
        BY <3>6, <3>11, <4>1
      <4>2. CASE signal \in {"LONG", "SHORT"} /\ after.side \notin {"none", signal} /\ t = <<e, e>>
        BY <3>6, <3>11, <4>2
      <4>3. CASE signal = "CLOSE" /\ after.side # "none" /\ t = <<a>>
        BY <3>6, <3>11, <4>3
      <4>4. CASE t = <<>> /\ signal # "none"
        BY <3>7, <3>11, <4>4
      <4>5. CASE t = <<>> /\ signal = "none"
        BY <1>11, <3>10, <4>5
      <4> QED BY <3>7, <4>1, <4>2, <4>3, <4>4, <4>5
    <3>13. OrdersAsked'
      BY <1>2, <3>1, <3>12 DEF OrdersAsked
    <3> QED BY <3>1, <3>9, <3>13
  <2> QED BY <2>1, <2>2
<1>16. EngineInv'
  <2>1. bar' \in Nat /\ AccountInv' /\ held' \in Holdings
    BY <1>1, <1>4
  <2>2. ~emptyFill' => held'.side = "none" \/ held'.qty > 0
    BY <1>2, <1>11
  <2> QED BY <1>13, <1>14, <1>15, <2>1, <2>2 DEF EngineInv
<1> QED BY <1>2, <1>11, <1>12, <1>16

\* Before the first bar nothing is held and nothing sent.
LEMMA EngineStart == EngineInit => EngineInv
<1> SUFFICES ASSUME EngineInit PROVE EngineInv
  OBVIOUS
<1>1. AccountInv
  <2>1. EngineCapital \in Int
    BY EngineAssumption
  <2> QED BY <2>1 DEF EngineInit, AccountInv
<1>2. held \in Holdings /\ held.side = "none"
  BY DEF EngineInit, NoHolding, Holdings
<1>3. sentOrders = <<>> /\ sentOrders \in Seq(BarOrders) /\ Len(sentOrders) \in 0 .. 2
      /\ \A i \in DOMAIN sentOrders : sentOrders[i].created <= bar
  BY DEF EngineInit
<1>4. OrdersAsked
  BY <1>2, <1>3 DEF EngineInit, OrdersAsked
<1> QED BY <1>1, <1>2, <1>3, <1>4 DEF EngineInit, EngineInv

\* A bar, and the close at the end, keep the invariant.
LEMMA EngineStep ==
  ASSUME EngineInv, [EngineNext]_engineVars
  PROVE  EngineInv'
<1>1. ASSUME NEW open \in EnginePrices, NEW close \in EnginePrices,
             NEW signal \in {"LONG", "SHORT", "CLOSE", "none"}, ReplayBar(open, close, signal)
      PROVE  EngineInv'
  BY <1>1, BarStep
<1>2. CASE EndReplay
  <2>1. UNCHANGED <<bar, sentOrders, held, curve, wanted, emptyFill>> /\ bar = EngineBars
    BY <1>2 DEF EndReplay
  <2>2. ended'
    BY <1>2 DEF EndReplay
  <2>3. ~(bar' < EngineBars)
    BY <2>1 DEF EngineInv
  <2>4. AccountInv'
    <3>1. PICK gain : gain = Last(curve) - capital
      OBVIOUS
    <3>2. Last(curve) \in Int
      BY DEF Last, EngineInv, AccountInv
    <3>3. gain \in Int
      BY <3>1, <3>2 DEF EngineInv, AccountInv
    <3>4. CASE held.qty > 0
      <4>1. capital' = capital + gain /\ profits' = Append(profits, gain)
        BY <1>2, <3>1, <3>4 DEF EndReplay
      <4> QED BY <2>1, <3>3, <4>1 DEF EngineInv, AccountInv
    <3>5. CASE ~(held.qty > 0)
      <4>1. UNCHANGED <<capital, profits>>
        BY <1>2, <3>5 DEF EndReplay
      <4> QED BY <2>1, <4>1 DEF EngineInv, AccountInv
    <3> QED BY <3>4, <3>5
  <2> QED BY <2>1, <2>2, <2>3, <2>4 DEF EngineInv
<1>3. CASE UNCHANGED engineVars
  BY <1>3 DEF engineVars, EngineInv, AccountInv, OrdersAsked
<1> QED BY <1>1, <1>2, <1>3 DEF EngineNext

\* Once the orders of a bar are filled, the position is what the last signal
\* asked for (engine.py: _process_signal, and the fills of run), with any prices,
\* capital, fee and slippage, until a capital that buys no unit has left a
\* position of no unit; and after that for whole positions and whole orders.
THEOREM SignalObeyedHolds == EngineSpec => SignalObeyed
<1>1. ASSUME EngineInv, [EngineNext]_engineVars, bar' > bar
      PROVE  (\/ ~emptyFill'
              \/ /\ sentOrders # <<>> /\ \A i \in DOMAIN sentOrders : sentOrders[i].qty > 0
                 /\ held.side = "none" \/ held.qty > 0) => held'.side = wanted
  <2>1. ASSUME NEW open \in EnginePrices, NEW close \in EnginePrices,
               NEW signal \in {"LONG", "SHORT", "CLOSE", "none"}, ReplayBar(open, close, signal)
        PROVE  (\/ ~emptyFill'
                \/ /\ sentOrders # <<>> /\ \A i \in DOMAIN sentOrders : sentOrders[i].qty > 0
                   /\ held.side = "none" \/ held.qty > 0) => held'.side = wanted
    BY <1>1, <2>1, BarStep
  <2>2. ~(EndReplay \/ UNCHANGED engineVars)
    BY <1>1 DEF EndReplay, engineVars, EngineInv
  <2> QED BY <1>1, <2>1, <2>2 DEF EngineNext
<1> QED
  BY EngineStart, EngineStep, <1>1, PTL DEF EngineSpec, SignalObeyed

-----------------------------------------------------------------------------
(* The order manager over an HTTP exchange.                                *)

\* What an exchange says of an order, an object of the manager and an HTTP call,
\* and the states of an order that an exchange has accepted.
Delivered == {"SUBMITTED", "PARTIAL", "FILLED", "CANCELED", "REJECTED"}
OrderCopy == [status : {"PENDING", "CANCELING", "FAILED"} \cup Delivered, known : BOOLEAN]
HttpRequest == [kind : {"none", "submit", "cancel", "query"}, order : ExchangeOrderIds \cup {"none"}, copy : Nat,
                answer : {"none", "awaited", "done", "error", "refused"} \cup Delivered]
Reached == LiveStates \cup {"FILLED", "CANCELED"}

\* What a status says of the order: an end is the exchange's, a refusal and a
\* failure are those of an order it does not have or that may be there unseen.
TrueStatus(o, status) ==
  /\ status \in {"FILLED", "CANCELED"} => atVenue[o] = status
  /\ status = "REJECTED" => o \in unsure \/ atVenue[o] = "REFUSED"
  /\ status = "FAILED" => o \in unsure

\* The calls that submit an order.
SubmitsOf(o) == {c \in HttpCalls : requests[c].kind = "submit" /\ requests[c].order = o}

\* No object of an order says what is not so, and one that has the exchange's id
\* is of an order that got there.
CopiesTrue ==
  \A o \in ExchangeOrderIds : \A i \in 1 .. Len(copies[o]) :
    /\ TrueStatus(o, copies[o][i].status)
    /\ copies[o][i].known => atVenue[o] \in Reached

\* Nor does an answer on its way; a submit without one leaves its order unsure.
AnswersTrue ==
  \A c \in HttpCalls : requests[c].kind # "none" =>
    /\ requests[c].answer \in Delivered =>
         /\ TrueStatus(requests[c].order, requests[c].answer)
         /\ requests[c].kind # "submit" \/ requests[c].answer # "REJECTED" =>
              atVenue[requests[c].order] \in Reached
    /\ requests[c].kind = "submit" /\ requests[c].answer = "error" => requests[c].order \in unsure

\* An order is submitted by one call, which finds it unknown to the exchange.
SubmittedOnce ==
  \A o \in ExchangeOrderIds :
    /\ \A c, d \in SubmitsOf(o) : c = d
    /\ (\A c \in SubmitsOf(o) : requests[c].answer = "awaited") => atVenue[o] = "none"

\* The types of the manager, with an object for every index that is in use.
ManagerType ==
  /\ copies \in [ExchangeOrderIds -> Seq(OrderCopy)]
  /\ current \in [ExchangeOrderIds -> Nat]
  /\ \A o \in ExchangeOrderIds : current[o] \in 1 .. Len(copies[o])
  /\ atVenue \in [ExchangeOrderIds -> VenueStates]
  /\ unsure \subseteq ExchangeOrderIds
  /\ requests \in [HttpCalls -> HttpRequest]
  /\ \A c \in HttpCalls :
       /\ requests[c].kind # "none" => /\ requests[c].order \in ExchangeOrderIds
                                       /\ requests[c].copy \in 1 .. Len(copies[requests[c].order])
       /\ requests[c].kind = "none" => requests[c].answer = "none"

\* What the order manager keeps.
ManagerInv == ManagerType /\ CopiesTrue /\ AnswersTrue /\ SubmittedOnce

\* An order the exchange has not seen may become anything, a live one may end.
LEMMA TruthKept ==
  ASSUME unsure \subseteq unsure',
         \A o \in ExchangeOrderIds : \/ atVenue'[o] = atVenue[o] \/ atVenue[o] = "none"
                                     \/ atVenue[o] \in LiveStates /\ atVenue'[o] \in Reached
  PROVE  \A o \in ExchangeOrderIds :
           /\ \A status : TrueStatus(o, status) => TrueStatus(o, status)'
           /\ atVenue[o] \in Reached => atVenue'[o] \in Reached
<1> SUFFICES ASSUME NEW o \in ExchangeOrderIds
             PROVE  /\ \A status : TrueStatus(o, status) => TrueStatus(o, status)'
                    /\ atVenue[o] \in Reached => atVenue'[o] \in Reached
  OBVIOUS
<1>1. \/ atVenue'[o] = atVenue[o] \/ atVenue[o] = "none"
      \/ atVenue[o] \in LiveStates /\ atVenue'[o] \in Reached
  OBVIOUS
<1>2. ASSUME NEW status, TrueStatus(o, status) PROVE TrueStatus(o, status)'
  BY <1>1, <1>2 DEF TrueStatus, LiveStates
<1>3. atVenue[o] \in Reached => atVenue'[o] \in Reached
  BY <1>1 DEF Reached, LiveStates
<1> QED BY <1>2, <1>3

\* The exchange answers a call, and does to the order what the answer says.
LEMMA AnswerKeeps ==
  ASSUME ManagerInv, NEW c \in HttpCalls, NEW o, NEW k, NEW a,
         o = requests[c].order, k = requests[c].kind, k # "none", requests[c].answer = "awaited",
         a \in {"error", "refused"} \cup Delivered, HttpAnswer(c, a), UNCHANGED <<copies, current>>,
         unsure \subseteq unsure', unsure' \subseteq ExchangeOrderIds,
         atVenue' \in [ExchangeOrderIds -> VenueStates],
         \A p \in ExchangeOrderIds : p # o => atVenue'[p] = atVenue[p],
         \/ atVenue'[o] = atVenue[o] \/ k = "submit"
         \/ atVenue[o] \in LiveStates /\ atVenue'[o] \in Reached,
         a \in Delivered => TrueStatus(o, a)' /\ (k # "submit" \/ a # "REJECTED" => atVenue'[o] \in Reached),
         k = "submit" /\ a = "error" => o \in unsure'
  PROVE  ManagerInv'
<1>0. ManagerType /\ CopiesTrue /\ AnswersTrue /\ SubmittedOnce
  BY DEF ManagerInv
<1>1. o \in ExchangeOrderIds /\ requests[c] \in HttpRequest
  BY <1>0 DEF ManagerType
<1>2. requests' = [requests EXCEPT ![c].answer = a]
  BY DEF HttpAnswer
<1>3. /\ requests' \in [HttpCalls -> HttpRequest]
      /\ \A d \in HttpCalls : /\ requests'[d].kind = requests[d].kind /\ requests'[d].order = requests[d].order
                              /\ requests'[d].copy = requests[d].copy
                              /\ requests'[d].answer = IF d = c THEN a ELSE requests[d].answer
  <2>1. requests \in [HttpCalls -> HttpRequest]
    BY <1>0 DEF ManagerType
  <2>2. requests' \in [HttpCalls -> HttpRequest]
    BY <1>2, <2>1 DEF HttpRequest
  <2> QED BY <1>2, <2>1, <2>2 DEF HttpRequest
<1>4. k = "submit" => atVenue[o] = "none"
  <2> SUFFICES ASSUME k = "submit" PROVE atVenue[o] = "none"
    OBVIOUS
  <2>1. c \in SubmitsOf(o)
    BY DEF SubmitsOf
  <2> QED BY <1>0, <1>1, <2>1 DEF SubmittedOnce
<1>5. \A p \in ExchangeOrderIds : \/ atVenue'[p] = atVenue[p] \/ atVenue[p] = "none"
                                  \/ atVenue[p] \in LiveStates /\ atVenue'[p] \in Reached
  BY <1>4
<1>6. \A p \in ExchangeOrderIds :
        /\ \A status : TrueStatus(p, status) => TrueStatus(p, status)'
        /\ atVenue[p] \in Reached => atVenue'[p] \in Reached
  BY <1>5, TruthKept
<1>7. ManagerType'
  BY <1>0, <1>3 DEF ManagerType
<1>8. CopiesTrue'
  <2>1. ASSUME NEW p \in ExchangeOrderIds, NEW i \in 1 .. Len(copies[p])
        PROVE  TrueStatus(p, copies[p][i].status)' /\ (copies[p][i].known => atVenue'[p] \in Reached)
    <3>1. PICK status : status = copies[p][i].status
      OBVIOUS
    <3>2. TrueStatus(p, status)' /\ (copies[p][i].known => atVenue'[p] \in Reached)
      BY <1>0, <1>6, <2>1, <3>1 DEF CopiesTrue
    <3> QED BY <3>1, <3>2 DEF TrueStatus
  <2> QED BY <2>1 DEF CopiesTrue
<1>9. AnswersTrue'
  <2>1. ASSUME NEW d \in HttpCalls, requests[d].kind # "none", d # c
        PROVE  /\ requests[d].answer \in Delivered =>
                    /\ TrueStatus(requests[d].order, requests[d].answer)'
                    /\ requests[d].kind # "submit" \/ requests[d].answer # "REJECTED" =>
                         atVenue'[requests[d].order] \in Reached
               /\ requests[d].kind = "submit" /\ requests[d].answer = "error" => requests[d].order \in unsure'
    <3>1. PICK p, status : p = requests[d].order /\ status = requests[d].answer /\ p \in ExchangeOrderIds
      BY <1>0, <2>1 DEF ManagerType
    <3>2. /\ status \in Delivered =>
                    /\ TrueStatus(p, status)
                    /\ requests[d].kind # "submit" \/ status # "REJECTED" => atVenue[p] \in Reached
          /\ requests[d].kind = "submit" /\ status = "error" => p \in unsure
      BY <1>0, <2>1, <3>1 DEF AnswersTrue
    <3>3. TrueStatus(p, status) => TrueStatus(p, status)'
      BY <1>6, <3>1
    <3>4. requests'[d].order = p /\ requests'[d].answer = status
      BY <1>3, <2>1, <3>1
    <3> QED BY <1>6, <3>1, <3>2, <3>3, <3>4 DEF TrueStatus
  <2>2. ASSUME NEW d \in HttpCalls, requests'[d].kind # "none"
        PROVE  /\ requests'[d].answer \in Delivered =>
                    /\ TrueStatus(requests[d].order, requests[d].answer)'
                    /\ requests'[d].kind # "submit" \/ requests'[d].answer # "REJECTED" =>
                         atVenue'[requests'[d].order] \in Reached
               /\ requests'[d].kind = "submit" /\ requests'[d].answer = "error" => requests'[d].order \in unsure'
    <3>1. CASE d = c
      BY <1>3, <3>1 DEF TrueStatus
    <3>2. CASE d # c
      BY <1>3, <2>1, <2>2, <3>2
    <3> QED BY <3>1, <3>2
  <2> QED BY <2>2 DEF AnswersTrue
<1>10. SubmittedOnce'
  <2>1. \A p : SubmitsOf(p)' = SubmitsOf(p)
    BY <1>3 DEF SubmitsOf
  <2>2. ASSUME NEW p \in ExchangeOrderIds, \A d \in SubmitsOf(p) : requests'[d].answer = "awaited"
        PROVE  atVenue'[p] = "none"
    <3>1. c \notin SubmitsOf(p)
      BY <1>3, <2>2 DEF Delivered
    <3>2. \A d \in SubmitsOf(p) : requests[d].answer = "awaited"
      BY <1>3, <2>2, <3>1 DEF SubmitsOf
    <3>3. atVenue[p] = "none"
      BY <1>0, <3>2 DEF SubmittedOnce
    <3>4. p = o => k # "submit"
      BY <3>1 DEF SubmitsOf
    <3> QED BY <3>3, <3>4 DEF LiveStates
  <2> QED BY <1>0, <2>1, <2>2 DEF SubmittedOnce
<1> QED BY <1>7, <1>8, <1>9, <1>10 DEF ManagerInv

\* The status of one object is set to one the exchange agrees with.
LEMMA CopyMarked ==
  ASSUME ManagerType, CopiesTrue, NEW o \in ExchangeOrderIds, NEW i \in 1 .. Len(copies[o]),
         NEW s \in {"CANCELING", "FAILED"}, TrueStatus(o, s),
         copies' = [copies EXCEPT ![o][i].status = s], UNCHANGED <<atVenue, unsure>>
  PROVE  /\ copies' \in [ExchangeOrderIds -> Seq(OrderCopy)] /\ CopiesTrue'
         /\ \A p \in ExchangeOrderIds : Len(copies'[p]) = Len(copies[p])
<1> DEFINE f == copies[o]
           v == [f[i] EXCEPT !.status = s]
           g == [f EXCEPT ![i] = v]
<1>1. f \in Seq(OrderCopy) /\ i \in 1 .. Len(f) /\ copies \in [ExchangeOrderIds -> Seq(OrderCopy)]
  BY DEF ManagerType
<1>2. f[i] \in OrderCopy
  BY <1>1
<1>3. v \in OrderCopy /\ v.status = s /\ v.known = f[i].known
  <2> HIDE DEF f
  <2> QED BY <1>2 DEF OrderCopy
<1>4. copies' = [copies EXCEPT ![o] = g]
  OBVIOUS
<1> HIDE DEF f, v
<1>5. /\ g \in Seq(OrderCopy) /\ Len(g) = Len(f) /\ \A j \in 1 .. Len(f) : g[j] = IF j = i THEN v ELSE f[j]
  BY <1>1, <1>3
<1> HIDE DEF g
<1>6. copies'[o] = g /\ \A p \in ExchangeOrderIds : p # o => copies'[p] = copies[p]
  BY <1>1, <1>4
<1>7. copies' \in [ExchangeOrderIds -> Seq(OrderCopy)]
  BY <1>1, <1>4, <1>5
<1>8. \A p \in ExchangeOrderIds : Len(copies'[p]) = Len(copies[p])
  BY <1>5, <1>6 DEF f
<1>9. ASSUME NEW p \in ExchangeOrderIds, NEW j \in 1 .. Len(copies'[p])
      PROVE  TrueStatus(p, copies[p][j].status)' /\ (copies'[p][j].known => atVenue'[p] \in Reached)
  <2>1. j \in 1 .. Len(copies[p])
    BY <1>8
  <2>2. PICK status, seen : status = copies'[p][j].status /\ seen = copies'[p][j].known
    OBVIOUS
  <2>3. TrueStatus(p, copies[p][j].status) /\ (copies[p][j].known => atVenue[p] \in Reached)
    BY <2>1 DEF CopiesTrue
  <2>4. CASE p = o /\ j = i
    <3>1. status = s /\ seen = copies[p][j].known
      BY <1>3, <1>5, <1>6, <2>2, <2>4, <1>1 DEF f
    <3> QED BY <2>2, <2>3, <3>1 DEF TrueStatus
  <2>5. CASE ~(p = o /\ j = i)
    <3>1. copies'[p][j] = copies[p][j]
      BY <1>5, <1>6, <2>1, <2>5 DEF f
    <3> QED BY <2>3, <3>1 DEF TrueStatus
  <2> QED BY <2>4, <2>5
<1>10. CopiesTrue'
  BY <1>9 DEF CopiesTrue
<1> QED BY <1>7, <1>8, <1>10

\* A call begins; of an order that was submitted, no second submit does.
LEMMA CallStarts ==
  ASSUME ManagerInv, NEW c \in HttpCalls, NEW o \in ExchangeOrderIds, NEW k \in {"submit", "cancel", "query"},
         requests[c] = NoCall, StartCall(c, k, o), UNCHANGED <<current, atVenue, unsure>>,
         k = "submit" => SubmitsOf(o) = {},
         copies' \in [ExchangeOrderIds -> Seq(OrderCopy)], CopiesTrue',
         \A p \in ExchangeOrderIds : Len(copies'[p]) = Len(copies[p])
  PROVE  ManagerInv'
<1>0. ManagerType /\ CopiesTrue /\ AnswersTrue /\ SubmittedOnce
  BY DEF ManagerInv
<1>1. requests \in [HttpCalls -> HttpRequest] /\ current[o] \in 1 .. Len(copies[o]) /\ current[o] \in Nat
      /\ requests[c].kind = "none"
  BY <1>0 DEF ManagerType, NoCall
<1> DEFINE r == [kind |-> k, order |-> o, copy |-> current[o], answer |-> "awaited"]
<1>2. requests' = [requests EXCEPT ![c] = r]
  BY DEF StartCall
<1>3. r \in HttpRequest /\ r.kind = k /\ r.order = o /\ r.copy = current[o] /\ r.answer = "awaited"
  BY <1>1 DEF HttpRequest
<1> HIDE DEF r
<1>4. /\ requests' \in [HttpCalls -> HttpRequest]
      /\ requests'[c] = r /\ \A d \in HttpCalls : d # c => requests'[d] = requests[d]
  BY <1>1, <1>2, <1>3
<1>5. ManagerType'
  <2>1. \A d \in HttpCalls :
       /\ requests'[d].kind # "none" => /\ requests'[d].order \in ExchangeOrderIds
                                       /\ requests'[d].copy \in 1 .. Len(copies'[requests'[d].order])
       /\ requests'[d].kind = "none" => requests'[d].answer = "none"
    <3> SUFFICES ASSUME NEW d \in HttpCalls
          PROVE  /\ requests'[d].kind # "none" => /\ requests'[d].order \in ExchangeOrderIds
                                                  /\ requests'[d].copy \in 1 .. Len(copies'[requests'[d].order])
                 /\ requests'[d].kind = "none" => requests'[d].answer = "none"
      OBVIOUS
    <3>1. CASE d = c
      <4>1. requests'[d] = r /\ Len(copies'[o]) = Len(copies[o])
        BY <1>4, <3>1
      <4> QED BY <1>1, <1>3, <4>1
    <3>2. CASE d # c
      <4>1. requests'[d] = requests[d]
        BY <1>4, <3>2
      <4>2. requests[d].kind # "none" => /\ requests[d].order \in ExchangeOrderIds
                                         /\ requests[d].copy \in 1 .. Len(copies[requests[d].order])
        BY <1>0 DEF ManagerType
      <4>3. requests[d].kind # "none" => Len(copies'[requests[d].order]) = Len(copies[requests[d].order])
        BY <4>2
      <4>4. requests[d].kind = "none" => requests[d].answer = "none"
        BY <1>0 DEF ManagerType
      <4> QED BY <4>1, <4>2, <4>3, <4>4
    <3> QED BY <3>1, <3>2
  <2>2. \A p \in ExchangeOrderIds : current'[p] \in 1 .. Len(copies'[p])
    BY <1>0 DEF ManagerType
  <2> QED BY <1>0, <1>4, <2>1, <2>2 DEF ManagerType
<1>6. AnswersTrue'
  <2> SUFFICES ASSUME NEW d \in HttpCalls, requests'[d].kind # "none"
        PROVE  /\ requests'[d].answer \in Delivered =>
                    /\ TrueStatus(requests[d].order, requests[d].answer)'
                    /\ requests'[d].kind # "submit" \/ requests'[d].answer # "REJECTED" =>
                         atVenue'[requests'[d].order] \in Reached
               /\ requests'[d].kind = "submit" /\ requests'[d].answer = "error" => requests'[d].order \in unsure'
    BY DEF AnswersTrue
  <2>1. CASE d = c
    BY <1>3, <1>4, <2>1 DEF Delivered
  <2>2. CASE d # c
    <3>1. requests'[d] = requests[d] /\ requests[d].kind # "none"
      BY <1>4, <2>2
    <3> QED BY <1>0, <3>1 DEF AnswersTrue, TrueStatus
  <2> QED BY <2>1, <2>2
<1>7. SubmittedOnce'
  <2>1. ASSUME NEW p \in ExchangeOrderIds
        PROVE  SubmitsOf(p)' = IF k = "submit" /\ p = o THEN SubmitsOf(p) \cup {c} ELSE SubmitsOf(p)
    BY <1>1, <1>3, <1>4 DEF SubmitsOf
  <2>2. ASSUME NEW p \in ExchangeOrderIds PROVE \A d, e \in SubmitsOf(p)' : d = e
    BY <1>0, <2>1 DEF SubmittedOnce
  <2>3. ASSUME NEW p \in ExchangeOrderIds, \A d \in SubmitsOf(p)' : requests'[d].answer = "awaited"
        PROVE  atVenue'[p] = "none"
    <3>1. c \notin SubmitsOf(p)
      BY <1>1 DEF SubmitsOf
    <3>2. \A d \in SubmitsOf(p) : requests[d].answer = "awaited"
      <4> SUFFICES ASSUME NEW d \in SubmitsOf(p) PROVE requests[d].answer = "awaited"
        OBVIOUS
      <4>1. d \in SubmitsOf(p)' /\ d # c /\ d \in HttpCalls
        BY <2>1, <3>1 DEF SubmitsOf
      <4> QED BY <1>4, <2>3, <4>1
    <3> QED BY <1>0, <3>2 DEF SubmittedOnce
  <2> QED BY <2>2, <2>3 DEF SubmittedOnce
<1> QED BY <1>5, <1>6, <1>7 DEF ManagerInv

\* The manager takes an answer: the order gets a copy of its own that says what
\* the exchange said, an old one, or the one that was passed is marked.
LEMMA DeliverKeeps == ASSUME ManagerInv, NEW c \in HttpCalls, Deliver(c) PROVE ManagerInv'
<1>0. ManagerType /\ CopiesTrue /\ AnswersTrue /\ SubmittedOnce
  BY DEF ManagerInv
<1>1. PICK o, k, i, a : o = requests[c].order /\ k = requests[c].kind /\ i = requests[c].copy /\ a = requests[c].answer
  OBVIOUS
<1>2. a \notin {"none", "awaited", "done"} /\ UNCHANGED <<exchange, atVenue, unsure>>
      /\ requests' = [requests EXCEPT ![c].answer = "done"]
  BY <1>1 DEF Deliver, HttpAnswer
<1>3. /\ k # "none" /\ o \in ExchangeOrderIds /\ i \in 1 .. Len(copies[o]) /\ requests[c] \in HttpRequest
      /\ a \in {"error", "refused"} \cup Delivered /\ k \in {"submit", "cancel", "query"}
  <2>1. requests[c] \in HttpRequest
    BY <1>0 DEF ManagerType
  <2>2. a \in {"none", "awaited", "done", "error", "refused"} \cup Delivered /\ k \in {"none", "submit", "cancel", "query"}
    BY <1>1, <2>1 DEF HttpRequest
  <2>3. k # "none"
    BY <1>0, <1>1, <1>2 DEF ManagerType
  <2> QED BY <1>0, <1>1, <1>2, <2>1, <2>2, <2>3 DEF ManagerType
<1>4. /\ requests' \in [HttpCalls -> HttpRequest]
      /\ \A d \in HttpCalls : /\ requests'[d].kind = requests[d].kind /\ requests'[d].order = requests[d].order
                              /\ requests'[d].copy = requests[d].copy
                              /\ requests'[d].answer = IF d = c THEN "done" ELSE requests[d].answer
  <2>1. requests \in [HttpCalls -> HttpRequest]
    BY <1>0 DEF ManagerType
  <2>2. requests' \in [HttpCalls -> HttpRequest]
    BY <1>2, <2>1 DEF HttpRequest
  <2> QED BY <1>2, <2>1, <2>2 DEF HttpRequest
<1>5. AnswersTrue'
  <2> SUFFICES ASSUME NEW d \in HttpCalls, requests'[d].kind # "none"
        PROVE  /\ requests'[d].answer \in Delivered =>
                    /\ TrueStatus(requests[d].order, requests[d].answer)'
                    /\ requests'[d].kind # "submit" \/ requests'[d].answer # "REJECTED" =>
                         atVenue'[requests'[d].order] \in Reached
               /\ requests'[d].kind = "submit" /\ requests'[d].answer = "error" => requests'[d].order \in unsure'
    BY DEF AnswersTrue
  <2>1. CASE d = c
    BY <1>4, <2>1 DEF Delivered
  <2>2. CASE d # c
    BY <1>0, <1>2, <1>4, <2>2 DEF AnswersTrue, TrueStatus
  <2> QED BY <2>1, <2>2
<1>6. SubmittedOnce'
  <2>1. \A p : SubmitsOf(p)' = SubmitsOf(p)
    BY <1>4 DEF SubmitsOf
  <2>2. ASSUME NEW p \in ExchangeOrderIds, \A d \in SubmitsOf(p) : requests'[d].answer = "awaited"
        PROVE  atVenue'[p] = "none"
    <3>1. \A d \in SubmitsOf(p) : requests[d].answer = "awaited"
      BY <1>4, <2>2 DEF SubmitsOf
    <3> QED BY <1>0, <1>2, <3>1 DEF SubmittedOnce
  <2> QED BY <1>0, <2>1, <2>2 DEF SubmittedOnce
<1>7. ASSUME copies' \in [ExchangeOrderIds -> Seq(OrderCopy)], CopiesTrue',
             \A p \in ExchangeOrderIds : Len(copies'[p]) >= Len(copies[p]),
             current' \in [ExchangeOrderIds -> Nat],
             \A p \in ExchangeOrderIds : current'[p] \in 1 .. Len(copies'[p])
      PROVE  ManagerInv'
  <2>1. \A d \in HttpCalls :
       /\ requests'[d].kind # "none" => /\ requests'[d].order \in ExchangeOrderIds
                                       /\ requests'[d].copy \in 1 .. Len(copies'[requests'[d].order])
       /\ requests'[d].kind = "none" => requests'[d].answer = "none"
    <3> SUFFICES ASSUME NEW d \in HttpCalls
                 PROVE /\ requests'[d].kind # "none" => /\ requests'[d].order \in ExchangeOrderIds
                                       /\ requests'[d].copy \in 1 .. Len(copies'[requests'[d].order])
                       /\ requests'[d].kind = "none" => requests'[d].answer = "none"
      OBVIOUS
    <3>1. requests[d].kind # "none" => /\ requests[d].order \in ExchangeOrderIds
                                       /\ requests[d].copy \in 1 .. Len(copies[requests[d].order])
      BY <1>0 DEF ManagerType
    <3>2. \A p \in ExchangeOrderIds : Len(copies'[p]) \in Nat /\ Len(copies[p]) \in Nat
      BY <1>0, <1>7 DEF ManagerType
    <3>3. requests[d].kind = "none" => requests[d].answer = "none" /\ d # c
      BY <1>0, <1>1, <1>3 DEF ManagerType
    <3> QED BY <1>4, <1>7, <3>1, <3>2, <3>3
  <2>2. ManagerType'
    BY <1>0, <1>2, <1>4, <1>7, <2>1 DEF ManagerType
  <2> QED BY <1>5, <1>6, <1>7, <2>2 DEF ManagerInv
<1>8. CASE a \notin {"error", "refused"}
  <2> DEFINE kn == k # "submit" \/ a # "REJECTED"
             n == [status |-> a, known |-> kn]
             f == copies[o]
             g == Append(f, n)
  <2>1. copies' = [copies EXCEPT ![o] = g] /\ current' = [current EXCEPT ![o] = Len(copies'[o])]
    BY <1>1, <1>8 DEF Deliver
  <2>2. a \in Delivered /\ kn \in BOOLEAN
    BY <1>3, <1>8
  <2>3. n \in OrderCopy /\ n.status = a /\ n.known = kn
    <3> HIDE DEF kn
    <3> QED BY <2>2 DEF OrderCopy
  <2>4. f \in Seq(OrderCopy) /\ copies \in [ExchangeOrderIds -> Seq(OrderCopy)] /\ current \in [ExchangeOrderIds -> Nat]
    BY <1>0, <1>3 DEF ManagerType
  <2>5. TrueStatus(o, a) /\ (kn => atVenue[o] \in Reached)
    BY <1>0, <1>1, <1>3, <2>2 DEF AnswersTrue
  <2> HIDE DEF f, n, kn
  <2>6. g \in Seq(OrderCopy) /\ Len(g) = Len(f) + 1 /\ g[Len(f) + 1] = n /\ \A j \in 1 .. Len(f) : g[j] = f[j]
    BY <2>3, <2>4
  <2> HIDE DEF g
  <2>7. copies'[o] = g /\ \A p \in ExchangeOrderIds : p # o => copies'[p] = copies[p] /\ current'[p] = current[p]
    BY <1>3, <2>1, <2>4
  <2>8. copies' \in [ExchangeOrderIds -> Seq(OrderCopy)]
    BY <2>1, <2>4, <2>6
  <2>9. Len(f) \in Nat /\ current'[o] = Len(f) + 1
    BY <1>3, <2>1, <2>4, <2>6, <2>7
  <2>10. \A p \in ExchangeOrderIds : Len(copies'[p]) >= Len(copies[p]) /\ current'[p] \in 1 .. Len(copies'[p])
    <3> SUFFICES ASSUME NEW p \in ExchangeOrderIds PROVE Len(copies'[p]) >= Len(copies[p]) /\ current'[p] \in 1 .. Len(copies'[p])
      OBVIOUS
    <3>1. CASE p = o
      BY <2>6, <2>7, <2>9, <3>1 DEF f
    <3>2. CASE p # o
      BY <1>0, <2>7, <2>4, <3>2 DEF ManagerType
    <3> QED BY <3>1, <3>2
  <2>11. current' \in [ExchangeOrderIds -> Nat]
    <3>1. Len(copies'[o]) \in Nat
      BY <2>6, <2>7
    <3> QED BY <2>1, <2>4, <3>1
  <2>12. CopiesTrue'
    <3>1. ASSUME NEW p \in ExchangeOrderIds, NEW j \in 1 .. Len(copies'[p])
          PROVE  TrueStatus(p, copies[p][j].status)' /\ (copies'[p][j].known => atVenue'[p] \in Reached)
      <4>1. CASE p = o /\ j = Len(f) + 1
        <5>1. copies'[p][j].status = a /\ copies'[p][j].known = kn
          BY <2>3, <2>6, <2>7, <4>1
        <5> QED BY <1>2, <2>5, <4>1, <5>1 DEF TrueStatus
      <4>2. CASE ~(p = o /\ j = Len(f) + 1)
        <5>1. j \in 1 .. Len(copies[p]) /\ copies'[p][j] = copies[p][j]
          BY <2>6, <2>7, <2>9, <4>2 DEF f
        <5>2. TrueStatus(p, copies[p][j].status) /\ (copies[p][j].known => atVenue[p] \in Reached)
          BY <1>0, <5>1 DEF CopiesTrue
        <5> QED BY <1>2, <5>1, <5>2 DEF TrueStatus
      <4> QED BY <4>1, <4>2
    <3> QED BY <3>1 DEF CopiesTrue
  <2> QED BY <1>7, <2>8, <2>10, <2>11, <2>12
<1>9. CASE a = "refused"
  <2>1. current' = [current EXCEPT ![o] = i] /\ UNCHANGED copies
    BY <1>1, <1>9 DEF Deliver
  <2>2. CopiesTrue'
    BY <1>0, <1>2, <2>1 DEF CopiesTrue, TrueStatus
  <2>3. current' \in [ExchangeOrderIds -> Nat] /\ \A p \in ExchangeOrderIds : current'[p] \in 1 .. Len(copies[p])
    BY <1>0, <1>3, <2>1 DEF ManagerType
  <2>4. copies \in [ExchangeOrderIds -> Seq(OrderCopy)]
    BY <1>0 DEF ManagerType
  <2>5. \A p \in ExchangeOrderIds : Len(copies[p]) >= Len(copies[p])
    BY <2>4
  <2> QED BY <1>7, <2>1, <2>2, <2>3, <2>4, <2>5
<1>10. CASE a = "error"
  <2>1. UNCHANGED current /\ copies' = IF k = "submit" THEN [copies EXCEPT ![o][i].status = "FAILED"] ELSE copies
    BY <1>1, <1>10 DEF Deliver
  <2>2. copies \in [ExchangeOrderIds -> Seq(OrderCopy)] /\ current \in [ExchangeOrderIds -> Nat]
        /\ \A p \in ExchangeOrderIds : current[p] \in 1 .. Len(copies[p])
    BY <1>0 DEF ManagerType
  <2>3. copies' \in [ExchangeOrderIds -> Seq(OrderCopy)] /\ CopiesTrue'
        /\ \A p \in ExchangeOrderIds : Len(copies'[p]) = Len(copies[p])
    <3>1. CASE k = "submit"
      <4>1. TrueStatus(o, "FAILED")
        BY <1>0, <1>1, <1>3, <1>10, <3>1 DEF AnswersTrue, TrueStatus
      <4>2. copies' = [copies EXCEPT ![o][i].status = "FAILED"] /\ UNCHANGED <<atVenue, unsure>>
        BY <1>2, <2>1, <3>1
      <4> QED BY <1>0, <1>3, <4>1, <4>2, CopyMarked
    <3>2. CASE k # "submit"
      BY <1>0, <1>2, <2>1, <2>2, <3>2 DEF CopiesTrue, TrueStatus
    <3> QED BY <3>1, <3>2
  <2>4. \A p \in ExchangeOrderIds : Len(copies'[p]) >= Len(copies[p])
    BY <2>2, <2>3
  <2> QED BY <1>7, <2>1, <2>2, <2>3, <2>4
<1> QED BY <1>8, <1>9, <1>10

\* Every order has an object and no call is out at first.
LEMMA ManagerStart == ExchangeInit => ManagerInv
<1> SUFFICES ASSUME ExchangeInit PROVE ManagerInv
  OBVIOUS
<1> DEFINE n == [status |-> "PENDING", known |-> FALSE]
<1>1. n \in OrderCopy /\ n.status = "PENDING" /\ n.known = FALSE
  BY DEF OrderCopy
<1>2. copies = [o \in ExchangeOrderIds |-> <<n>>]
  BY DEF ExchangeInit
<1> HIDE DEF n
<1>3. <<n>> \in Seq(OrderCopy) /\ Len(<<n>>) = 1 /\ <<n>>[1] = n
  BY <1>1
<1>4. /\ NoCall \in HttpRequest /\ NoCall.kind = "none" /\ NoCall.answer = "none"
      /\ requests = [c \in HttpCalls |-> NoCall]
  BY DEF NoCall, HttpRequest, ExchangeInit
<1>5. \A o \in ExchangeOrderIds : copies[o] = <<n>> /\ current[o] = 1 /\ atVenue[o] = "none"
  BY <1>2 DEF ExchangeInit
<1>6. copies \in [ExchangeOrderIds -> Seq(OrderCopy)]
  BY <1>2, <1>3
<1>7. ManagerType
  BY <1>3, <1>4, <1>5, <1>6 DEF ExchangeInit, ManagerType, VenueStates
<1>8. CopiesTrue
  BY <1>1, <1>3, <1>5 DEF CopiesTrue, TrueStatus
<1>9. AnswersTrue /\ SubmittedOnce
  BY <1>4, <1>5 DEF AnswersTrue, SubmittedOnce, SubmitsOf
<1> QED BY <1>7, <1>8, <1>9 DEF ManagerInv

\* Every step of the calls, of the answers and of the exchange keeps it.
LEMMA ManagerStep == ManagerInv /\ [ExchangeNext]_exchangeVars => ManagerInv'
<1> SUFFICES ASSUME ManagerInv, [ExchangeNext]_exchangeVars PROVE ManagerInv'
  OBVIOUS
<1>0. ManagerType /\ CopiesTrue /\ AnswersTrue /\ SubmittedOnce
  BY DEF ManagerInv
<1>a. /\ copies \in [ExchangeOrderIds -> Seq(OrderCopy)] /\ atVenue \in [ExchangeOrderIds -> VenueStates]
      /\ unsure \subseteq ExchangeOrderIds /\ requests \in [HttpCalls -> HttpRequest]
  BY <1>0 DEF ManagerType
<1>b. ASSUME NEW c \in HttpCalls, requests[c].kind # "none" PROVE requests[c].order \in ExchangeOrderIds
  BY <1>0, <1>b DEF ManagerType
<1>c. ASSUME UNCHANGED <<copies, atVenue, unsure>> PROVE CopiesTrue'
  BY <1>0, <1>c DEF CopiesTrue, TrueStatus
<1>1. ASSUME NEW c \in HttpCalls, NEW o \in ExchangeOrderIds, StartSubmit(c, o) PROVE ManagerInv'
  <2>1. requests[c] = NoCall /\ StartCall(c, "submit", o) /\ UNCHANGED <<copies, current, atVenue, unsure>>
    BY <1>1 DEF StartSubmit, FreeCall
  <2>2. SubmitsOf(o) = {}
    BY <1>1 DEF StartSubmit, SubmitsOf
  <2> QED BY <1>a, <1>c, <2>1, <2>2, CallStarts
<1>2. ASSUME NEW c \in HttpCalls, NEW o \in ExchangeOrderIds, StartCancel(c, o) PROVE ManagerInv'
  <2>1. requests[c] = NoCall /\ StartCall(c, "cancel", o) /\ UNCHANGED <<current, atVenue, unsure>>
    BY <1>2 DEF StartCancel, FreeCall
  <2>2. copies' \in [ExchangeOrderIds -> Seq(OrderCopy)] /\ CopiesTrue'
        /\ \A p \in ExchangeOrderIds : Len(copies'[p]) = Len(copies[p])
    <3>1. CASE copies' = copies
      BY <1>a, <1>c, <2>1, <3>1
    <3>2. CASE copies' # copies
      <4>1. copies' = [copies EXCEPT ![o][current[o]].status = "CANCELING"]
        BY <1>2, <3>2 DEF StartCancel
      <4>2. TrueStatus(o, "CANCELING") /\ current[o] \in 1 .. Len(copies[o])
        BY <1>0 DEF TrueStatus, ManagerType
      <4>3. PICK i \in 1 .. Len(copies[o]) : i = current[o]
        BY <4>2
      <4>4. copies' = [copies EXCEPT ![o][i].status = "CANCELING"]
        BY <4>1, <4>3
      <4> QED BY <1>0, <2>1, <4>2, <4>4, CopyMarked
    <3> QED BY <3>1, <3>2
  <2> QED BY <2>1, <2>2, CallStarts
<1>3. ASSUME NEW c \in HttpCalls, NEW o \in ExchangeOrderIds, StartSync(c, o) PROVE ManagerInv'
  <2>1. requests[c] = NoCall /\ StartCall(c, "query", o) /\ UNCHANGED <<copies, current, atVenue, unsure>>
    BY <1>3 DEF StartSync, FreeCall
  <2> QED BY <1>a, <1>c, <2>1, CallStarts
<1>4. ASSUME NEW c \in HttpCalls, AcceptOrder(c) PROVE ManagerInv'
  <2>1. requests[c].kind = "submit" /\ requests[c].answer = "awaited" /\ UNCHANGED <<copies, current>>
    BY <1>4 DEF AcceptOrder, Awaited
  <2>2. PICK o \in ExchangeOrderIds : o = requests[c].order
    BY <1>b, <2>1
  <2>3. PICK fate \in {"NEW", "FILLED"}, a \in {"SUBMITTED", "FILLED", "REJECTED", "error"} :
          /\ atVenue' = [atVenue EXCEPT ![o] = fate] /\ HttpAnswer(c, a)
          /\ a = "FILLED" => fate = "FILLED"
          /\ \/ a \in {"SUBMITTED", "FILLED"} /\ UNCHANGED unsure
             \/ a \in {"REJECTED", "error"} /\ unsure' = unsure \cup {o}
    BY <1>4, <2>2 DEF AcceptOrder, OkxSubmit, FuturesSubmit, Mapped
  <2>4. atVenue' \in [ExchangeOrderIds -> VenueStates] /\ atVenue'[o] = fate
        /\ \A p \in ExchangeOrderIds : p # o => atVenue'[p] = atVenue[p]
    BY <1>a, <2>3 DEF VenueStates
  <2>5. unsure \subseteq unsure' /\ unsure' \subseteq ExchangeOrderIds
    BY <1>a, <2>3
  <2>6. a \in Delivered => TrueStatus(o, a)' /\ (a # "REJECTED" => atVenue'[o] \in Reached)
    BY <2>3, <2>4 DEF TrueStatus, Reached, LiveStates
  <2>7. a = "error" => o \in unsure'
    BY <2>3
  <2>8. a \in {"error", "refused"} \cup Delivered
    BY DEF Delivered
  <2> QED BY <2>1, <2>2, <2>3, <2>4, <2>5, <2>6, <2>7, <2>8, AnswerKeeps
<1>5. ASSUME NEW c \in HttpCalls, RefuseOrder(c) PROVE ManagerInv'
  <2>1. requests[c].kind = "submit" /\ requests[c].answer = "awaited" /\ UNCHANGED <<copies, current>>
    BY <1>5 DEF RefuseOrder, Awaited
  <2>2. PICK o \in ExchangeOrderIds : o = requests[c].order
    BY <1>b, <2>1
  <2>3. PICK a \in {"REJECTED", "error"} :
          /\ atVenue' = [atVenue EXCEPT ![o] = "REFUSED"] /\ HttpAnswer(c, a)
          /\ \/ a = "REJECTED" /\ UNCHANGED unsure
             \/ a = "error" /\ unsure' = unsure \cup {o}
    BY <1>5, <2>2 DEF RefuseOrder
  <2>4. atVenue' \in [ExchangeOrderIds -> VenueStates] /\ atVenue'[o] = "REFUSED"
        /\ \A p \in ExchangeOrderIds : p # o => atVenue'[p] = atVenue[p]
    BY <1>a, <2>3 DEF VenueStates
  <2>5. unsure \subseteq unsure' /\ unsure' \subseteq ExchangeOrderIds
    BY <1>a, <2>3
  <2>6. a \in Delivered => TrueStatus(o, a)' /\ a = "REJECTED"
    BY <2>3, <2>4 DEF TrueStatus, Delivered
  <2>7. a = "error" => o \in unsure'
    BY <2>3
  <2>8. a \in {"error", "refused"} \cup Delivered
    BY DEF Delivered
  <2> QED BY <2>1, <2>2, <2>3, <2>4, <2>5, <2>6, <2>7, <2>8, AnswerKeeps
<1>6. ASSUME NEW c \in HttpCalls, AnswerCancel(c) PROVE ManagerInv'
  <2>1. requests[c].kind = "cancel" /\ requests[c].answer = "awaited" /\ UNCHANGED <<copies, current, unsure>>
    BY <1>6 DEF AnswerCancel, Awaited
  <2>2. PICK o \in ExchangeOrderIds : o = requests[c].order
    BY <1>b, <2>1
  <2>3. PICK a \in {"CANCELED", "error", "refused"} :
          /\ HttpAnswer(c, a)
          /\ \/ a # "refused" /\ atVenue[o] \in LiveStates /\ atVenue' = [atVenue EXCEPT ![o] = "CANCELED"]
             \/ a # "CANCELED" /\ UNCHANGED atVenue
    BY <1>6, <2>2 DEF AnswerCancel
  <2>4. atVenue' \in [ExchangeOrderIds -> VenueStates]
        /\ \A p \in ExchangeOrderIds : p # o => atVenue'[p] = atVenue[p]
    BY <1>a, <2>3 DEF VenueStates
  <2>5. atVenue'[o] = atVenue[o] \/ (atVenue[o] \in LiveStates /\ atVenue'[o] \in Reached)
    BY <1>a, <2>3 DEF Reached
  <2>6. a \in Delivered => TrueStatus(o, a)' /\ atVenue'[o] \in Reached
    BY <1>a, <2>3 DEF TrueStatus, Delivered, Reached
  <2>7. a \in {"error", "refused"} \cup Delivered
    BY DEF Delivered
  <2>8. "cancel" # "none" /\ "cancel" # "submit" /\ unsure \subseteq unsure' /\ unsure' \subseteq ExchangeOrderIds
    BY <1>a, <2>1
  <2> QED BY <2>1, <2>2, <2>3, <2>4, <2>5, <2>6, <2>7, <2>8, AnswerKeeps
<1>7. ASSUME NEW c \in HttpCalls, AnswerQuery(c) PROVE ManagerInv'
  <2>1. requests[c].kind = "query" /\ requests[c].answer = "awaited" /\ UNCHANGED <<copies, current, unsure, atVenue>>
    BY <1>7 DEF AnswerQuery, Awaited
  <2>2. PICK o \in ExchangeOrderIds : o = requests[c].order
    BY <1>b, <2>1
  <2>3. Named(c) => atVenue[o] \in Reached
    <3>1. requests[c].copy \in 1 .. Len(copies[o])
      BY <1>0, <2>1, <2>2 DEF ManagerType
    <3> QED BY <1>0, <2>2, <3>1 DEF CopiesTrue, Named
  <2>4. PICK a : /\ HttpAnswer(c, a)
                 /\ \/ a \in {"error", "refused"}
                    \/ atVenue[o] \in Reached /\ a = Mapped(atVenue[o])
    BY <1>7, <2>2, <2>3 DEF AnswerQuery
  <2>5. a \in {"error", "refused"} \cup Delivered
        /\ (a \in Delivered => atVenue[o] \in Reached /\ (a \in {"FILLED", "CANCELED"} => atVenue[o] = a) /\ a # "REJECTED")
    BY <2>4 DEF Delivered, Reached, LiveStates, Mapped
  <2>6. a \in Delivered => TrueStatus(o, a)' /\ atVenue'[o] \in Reached
    BY <2>1, <2>5 DEF TrueStatus, Delivered
  <2>7. "query" # "none" /\ "query" # "submit" /\ unsure \subseteq unsure' /\ unsure' \subseteq ExchangeOrderIds
        /\ atVenue' \in [ExchangeOrderIds -> VenueStates] /\ \A p \in ExchangeOrderIds : atVenue'[p] = atVenue[p]
    BY <1>a, <2>1
  <2> QED BY <2>1, <2>2, <2>4, <2>5, <2>6, <2>7, AnswerKeeps
<1>8. ASSUME NEW c \in HttpCalls, Deliver(c) PROVE ManagerInv'
  BY <1>8, DeliverKeeps
<1>9. ASSUME NEW o \in ExchangeOrderIds, VenueFills(o) PROVE ManagerInv'
  <2>1. UNCHANGED <<copies, current, requests, unsure>> /\ atVenue[o] \in LiveStates
    BY <1>9 DEF VenueFills
  <2>2. PICK s \in {"PARTIAL", "FILLED"} : atVenue' = [atVenue EXCEPT ![o] = s]
    BY <1>9 DEF VenueFills
  <2>3. atVenue' \in [ExchangeOrderIds -> VenueStates]
    BY <1>a, <2>2 DEF VenueStates
  <2>4. \A p \in ExchangeOrderIds : \/ atVenue'[p] = atVenue[p] \/ atVenue[p] = "none"
                                    \/ atVenue[p] \in LiveStates /\ atVenue'[p] \in Reached
    BY <1>a, <2>1, <2>2 DEF Reached, LiveStates
  <2>5. \A p \in ExchangeOrderIds : /\ \A status : TrueStatus(p, status) => TrueStatus(p, status)'
                                    /\ atVenue[p] \in Reached => atVenue'[p] \in Reached
    BY <2>1, <2>4, TruthKept
  <2>6. ManagerType'
    BY <1>0, <2>1, <2>3 DEF ManagerType
  <2>7. CopiesTrue'
    <3>1. ASSUME NEW p \in ExchangeOrderIds, NEW i \in 1 .. Len(copies[p])
          PROVE  TrueStatus(p, copies[p][i].status)' /\ (copies[p][i].known => atVenue'[p] \in Reached)
      <4>1. PICK status : status = copies[p][i].status
        OBVIOUS
      <4>2. TrueStatus(p, status)' /\ (copies[p][i].known => atVenue'[p] \in Reached)
        BY <1>0, <2>5, <4>1 DEF CopiesTrue
      <4> QED BY <2>1, <4>1, <4>2 DEF TrueStatus
    <3> QED BY <2>1, <3>1 DEF CopiesTrue
  <2>8. AnswersTrue'
    <3>1. ASSUME NEW d \in HttpCalls, requests[d].kind # "none"
          PROVE  /\ requests[d].answer \in Delivered =>
                      /\ TrueStatus(requests[d].order, requests[d].answer)'
                      /\ requests[d].kind # "submit" \/ requests[d].answer # "REJECTED" =>
                           atVenue'[requests[d].order] \in Reached
                 /\ requests[d].kind = "submit" /\ requests[d].answer = "error" => requests[d].order \in unsure'
      <4>1. PICK p, status : p = requests[d].order /\ status = requests[d].answer /\ p \in ExchangeOrderIds
        BY <1>b, <3>1
      <4>2. TrueStatus(p, status) => TrueStatus(p, status)'
        BY <2>5, <4>1
      <4> QED BY <1>0, <2>1, <2>5, <3>1, <4>1, <4>2 DEF AnswersTrue, TrueStatus
    <3> QED BY <2>1, <3>1 DEF AnswersTrue
  <2>9. SubmittedOnce'
    <3>1. \A p : SubmitsOf(p)' = SubmitsOf(p)
      BY <2>1 DEF SubmitsOf
    <3>2. \A p \in ExchangeOrderIds : atVenue[p] = "none" => atVenue'[p] = "none"
      BY <1>a, <2>1, <2>2 DEF LiveStates
    <3> QED BY <1>0, <2>1, <3>1, <3>2 DEF SubmittedOnce
  <2> QED BY <2>6, <2>7, <2>8, <2>9 DEF ManagerInv
<1>10. CASE UNCHANGED exchangeVars
  BY <1>0, <1>10 DEF exchangeVars, ManagerInv, ManagerType, CopiesTrue, AnswersTrue, TrueStatus, SubmittedOnce, SubmitsOf
<1> QED
  BY <1>1, <1>2, <1>3, <1>4, <1>5, <1>6, <1>7, <1>8, <1>9, <1>10 DEF ExchangeNext

\* What is true of all objects is true of the one the manager has.
LEMMA ManagerTruthful == ManagerInv => RecordsTruthful
<1> SUFFICES ASSUME ManagerInv, NEW o \in ExchangeOrderIds
             PROVE  /\ Record(o).status \in {"FILLED", "CANCELED"} => atVenue[o] = Record(o).status
                    /\ (atVenue[o] \in LiveStates /\ Submitted(o) /\ o \notin unsure)
                         => Record(o).status \in ActiveStatuses
  BY DEF RecordsTruthful
<1>1. current[o] \in 1 .. Len(copies[o]) /\ copies[o] \in Seq(OrderCopy)
  BY DEF ManagerInv, ManagerType
<1>2. Record(o) \in OrderCopy /\ TrueStatus(o, Record(o).status)
  BY <1>1 DEF ManagerInv, CopiesTrue, Record
<1> QED BY <1>2 DEF OrderCopy, Delivered, TrueStatus, ActiveStatuses, LiveStates

\* With any orders and calls under way, answers lost or out of order: a record says
\* FILLED or CANCELED only of an order that is so at the exchange, and an order that
\* is live there and was submitted without an error is active in the manager
\* (OrderManager.submit_order, cancel_order, query_order over awaits).
THEOREM RecordsTruthfulHolds == ExchangeSpec => []RecordsTruthful
  BY ManagerStart, ManagerStep, ManagerTruthful, PTL DEF ExchangeSpec

-----------------------------------------------------------------------------
(* The books of the paper account.                                         *)

\* A position without a quantity is flat; an order has a side and a quantity.
PaperBooks  == {b \in [side : {"FLAT", "LONG", "SHORT"}, qty : Nat, avg : Int] : (b.side = "FLAT") <=> (b.qty = 0)}
PaperOrders == [side : Sides, qty : Nat \ {0}, limit : Nat, status : {"SUBMITTED"} \cup Terminal]

\* A part and the rest of a cost.
LEMMA CostSplit ==
  ASSUME NEW t \in Int, NEW n \in Nat, n # 0
  PROVE  t \div n \in Int /\ t % n \in Int /\ t = n * (t \div n) + (t % n)
<1>1. t \div n \in Int
  OBVIOUS
<1>2. t % n \in Int
  OBVIOUS
<1>3. n > 0
  OBVIOUS
<1>4. t = n * (t \div n) + (t % n)
  BY <1>3
<1> QED BY <1>1, <1>2, <1>4

\* Whatever a fill does to the position, what it costs is what the position is
\* worth more, less the gain, but for what the average cuts off.
LEMMA FillBalances ==
  ASSUME NEW pos \in PaperBooks, NEW side \in Sides, NEW price \in Nat, NEW q \in Nat \ {0}
  PROVE  /\ Filled(pos, side, price, q) \in PaperBooks
         /\ Signed(Filled(pos, side, price, q)) = Signed(pos) + (IF side = "BUY" THEN q ELSE 0 - q)
         /\ {Outlay(side, price, q), Gain(pos, side, price, q), CutOff(pos, side, price, q)} \subseteq Int
         /\ Outlay(side, price, q) = Signed(Filled(pos, side, price, q)) * Filled(pos, side, price, q).avg
                                     - Signed(pos) * pos.avg - Gain(pos, side, price, q) + CutOff(pos, side, price, q)
<1> DEFINE n == pos.qty
           a == pos.avg
           new == Filled(pos, side, price, q)
           gain == Gain(pos, side, price, q)
           cut == CutOff(pos, side, price, q)
           paid == price * q
           now == Signed(new) * new.avg
           old == Signed(pos) * a
<1>1. n \in Nat /\ a \in Int /\ q \in Nat /\ q # 0 /\ side \in {"BUY", "SELL"} /\ price \in Int /\ paid \in Int
      /\ pos.side \in {"FLAT", "LONG", "SHORT"} /\ ((pos.side = "FLAT") <=> (n = 0))
  BY DEF PaperBooks, Sides
<1>2. Outlay(side, price, q) = (IF side = "BUY" THEN paid ELSE 0 - paid)
  BY DEF Outlay
<1>3. Signed(pos) = (IF pos.side = "SHORT" THEN 0 - n ELSE n)
  BY DEF Signed
<1>4. Opposes(side, pos) <=> (side = "BUY" /\ pos.side = "SHORT") \/ (side = "SELL" /\ pos.side = "LONG")
  BY DEF Opposes
<1>5. gain = IF Opposes(side, pos)
             THEN (IF side = "SELL" THEN price - a ELSE a - price) * (IF q < n THEN q ELSE n) ELSE 0
  BY DEF Gain
<1>6. cut = IF n = 0 \/ Opposes(side, pos) THEN 0
            ELSE IF side = "BUY" THEN (a * n + paid) % (n + q) ELSE 0 - ((a * n + paid) % (n + q))
  BY Zenon DEF CutOff
<1> DEFINE Goal == /\ new \in PaperBooks
                   /\ Signed(new) = Signed(pos) + (IF side = "BUY" THEN q ELSE 0 - q)
                   /\ gain \in Int /\ cut \in Int
                   /\ (IF side = "BUY" THEN paid ELSE 0 - paid)
                        = now - old - gain + cut
<1>7. ASSUME n = 0 PROVE Goal
  <2>1. ~Opposes(side, pos)
    BY <1>1, <1>4, <1>7
  <2>2. new = [side |-> Held(side), qty |-> q, avg |-> price]
    BY <1>7 DEF Filled
  <2>3. new \in PaperBooks /\ new.avg = price /\ Signed(new) = (IF side = "BUY" THEN q ELSE 0 - q)
    BY <1>1, <2>2 DEF PaperBooks, Held, Signed
  <2>4. gain = 0 /\ cut = 0 /\ Signed(pos) = 0
    BY <1>3, <1>5, <1>6, <1>7, <2>1
  <2>5. now = (IF side = "BUY" THEN paid ELSE 0 - paid)
    BY <1>1, <2>3
  <2>6. old = 0
    BY <1>1, <2>4
  <2>7. gain \in Int /\ cut \in Int
    BY <2>4
  <2>9. (IF side = "BUY" THEN paid ELSE 0 - paid) = now - old - gain + cut
    <3> HIDE DEF now, old, new, gain, cut, paid, n, a
    <3> QED BY <1>1, <2>4, <2>5, <2>6
  <2>10. Signed(new) = Signed(pos) + (IF side = "BUY" THEN q ELSE 0 - q)
    <3> HIDE DEF new
    <3> QED BY <1>1, <2>3, <2>4
  <2> HIDE DEF now, old, new, gain, cut, paid, n, a
  <2> QED BY <2>3, <2>7, <2>9, <2>10
<1>8. ASSUME n # 0 /\ ~Opposes(side, pos) PROVE Goal
  <2> DEFINE t == a * n + paid
             m == t \div (n + q)
             k == n + q
  <2>1. t \in Int /\ k \in Nat /\ k # 0
    BY <1>1
  <2>2. m \in Int /\ t % k \in Int /\ t = k * m + (t % k)
    <3> HIDE DEF t
    <3> QED BY <2>1, CostSplit
  <2>3. new = [pos EXCEPT !.qty = k, !.avg = m]
    BY <1>8 DEF Filled
  <2>4. new \in PaperBooks /\ new.avg = m /\ Signed(new) = IF pos.side = "SHORT" THEN 0 - k ELSE k
    <3> HIDE DEF m, k
    <3> QED BY <1>1, <1>8, <2>1, <2>2, <2>3 DEF PaperBooks, Signed
  <2>5. (side = "BUY" /\ pos.side = "LONG") \/ (side = "SELL" /\ pos.side = "SHORT")
    BY <1>1, <1>4, <1>8
  <2>6. gain = 0 /\ cut = IF side = "BUY" THEN t % k ELSE 0 - (t % k)
    BY <1>5, <1>6, <1>8
  <2>7. now = IF side = "BUY" THEN k * m ELSE 0 - k * m
    <3> HIDE DEF new, m, k
    <3> QED BY <2>1, <2>2, <2>4, <2>5
  <2>8. old = IF side = "BUY" THEN a * n ELSE 0 - a * n
    <3> HIDE DEF a, n
    <3> QED BY <1>1, <1>3, <2>5
  <2>9. a * n \in Int /\ k * m \in Int
    <3>1. a * n \in Int
      BY <1>1
    <3>2. k * m \in Int
      <4> HIDE DEF k, m
      <4> QED BY <2>1, <2>2
    <3> QED BY <3>1, <3>2
  <2>10. Signed(new) = Signed(pos) + (IF side = "BUY" THEN q ELSE 0 - q)
    <3> HIDE DEF new, m
    <3> QED BY <1>1, <1>3, <2>4, <2>5
  <2>11. t = a * n + paid
    OBVIOUS
  <2>12. PICK x, y, z : x = a * n /\ y = k * m /\ z = t % k
    OBVIOUS
  <2>13. x \in Int /\ y \in Int /\ z \in Int /\ x + paid = y + z
    <3> HIDE DEF k, m, t, a, n, paid
    <3> QED BY <2>2, <2>9, <2>11, <2>12
  <2>14. gain \in Int /\ cut \in Int
    <3> HIDE DEF gain, cut, k, t
    <3> QED BY <2>6, <2>12, <2>13
  <2>16. (IF side = "BUY" THEN paid ELSE 0 - paid) = now - old - gain + cut
    <3> HIDE DEF now, old, new, gain, cut, paid, n, a, m, k, t
    <3>1. gain = 0 /\ cut = (IF side = "BUY" THEN z ELSE 0 - z)
      BY <2>6, <2>12
    <3>2. now = (IF side = "BUY" THEN y ELSE 0 - y)
      BY <2>7, <2>12, <2>13
    <3>3. old = (IF side = "BUY" THEN x ELSE 0 - x)
      BY <2>8, <2>12, <2>13
    <3> QED BY <1>1, <2>13, <3>1, <3>2, <3>3
  <2> HIDE DEF now, old, new, gain, cut, paid, n, a, m, k, t
  <2> QED BY <2>4, <2>10, <2>14, <2>16
<1>9. ASSUME Opposes(side, pos) /\ q < n PROVE Goal
  <2>1. new = [pos EXCEPT !.qty = n - q]
    BY <1>1, <1>9 DEF Filled
  <2>2. n - q \in Nat /\ n - q # 0
    BY <1>1, <1>9
  <2>3. new \in PaperBooks /\ new.avg = a /\ Signed(new) = IF pos.side = "SHORT" THEN 0 - (n - q) ELSE n - q
    BY <1>1, <1>9, <2>1, <2>2 DEF PaperBooks, Signed
  <2>4. cut = 0 /\ gain = (IF side = "SELL" THEN price - a ELSE a - price) * q
    BY <1>5, <1>6, <1>9
  <2>5. (side = "BUY" /\ pos.side = "SHORT") \/ (side = "SELL" /\ pos.side = "LONG")
    BY <1>4, <1>9
  <2>6. gain = IF side = "SELL" THEN paid - a * q ELSE a * q - paid
    <3> HIDE DEF a, gain
    <3> QED BY <1>1, <2>4, <2>5
  <2>7. now = IF side = "SELL" THEN a * n - a * q ELSE a * q - a * n
    <3> HIDE DEF new, a, n
    <3> QED BY <1>1, <2>3, <2>5
  <2>8. old = IF side = "SELL" THEN a * n ELSE 0 - a * n
    <3> HIDE DEF a, n
    <3> QED BY <1>1, <1>3, <2>5
  <2>9. PICK x, y : x = a * n /\ y = a * q /\ x \in Int /\ y \in Int
    BY <1>1
  <2>10. Signed(new) = Signed(pos) + (IF side = "BUY" THEN q ELSE 0 - q)
    <3> HIDE DEF new
    <3> QED BY <1>1, <1>3, <2>3, <2>5
  <2>11. gain \in Int /\ cut \in Int
    <3> HIDE DEF gain, cut, paid, a
    <3> QED BY <1>1, <2>4, <2>6, <2>9
  <2>13. (IF side = "BUY" THEN paid ELSE 0 - paid) = now - old - gain + cut
    <3>1. cut = 0
      BY <2>4
    <3> HIDE DEF now, old, new, gain, cut, paid, n, a
    <3> QED BY <1>1, <2>5, <2>6, <2>7, <2>8, <2>9, <3>1
  <2> HIDE DEF now, old, new, gain, cut, paid, n, a
  <2> QED BY <2>3, <2>10, <2>11, <2>13
<1>10. ASSUME Opposes(side, pos) /\ ~(q < n) PROVE Goal
  <2> DEFINE r == q - n
  <2>1. r \in Nat /\ n # 0 /\ q = n + r /\ ((r = 0) <=> ~(q > n))
    BY <1>1, <1>4, <1>10
  <2>2. new = IF r = 0 THEN Flat ELSE [side |-> Held(side), qty |-> r, avg |-> price]
    BY <1>1, <1>10, <2>1 DEF Filled
  <2>3. new \in PaperBooks /\ Signed(new) = (IF side = "BUY" THEN r ELSE 0 - r) /\ (r # 0 => new.avg = price) /\ new.avg \in Int
    <3> HIDE DEF r
    <3> QED BY <1>1, <2>1, <2>2 DEF PaperBooks, Signed, Flat, Held
  <2>4. cut = 0 /\ gain = (IF side = "SELL" THEN price - a ELSE a - price) * n
    BY <1>5, <1>6, <1>10
  <2>5. (side = "BUY" /\ pos.side = "SHORT") \/ (side = "SELL" /\ pos.side = "LONG")
    BY <1>4, <1>10
  <2>6. gain = IF side = "SELL" THEN price * n - a * n ELSE a * n - price * n
    <3> HIDE DEF a, n, gain
    <3> QED BY <1>1, <2>4, <2>5
  <2>7. now = IF side = "SELL" THEN 0 - price * r ELSE price * r
    <3> HIDE DEF new, r
    <3> QED BY <1>1, <2>1, <2>3, <2>5
  <2>8. old = IF side = "SELL" THEN a * n ELSE 0 - a * n
    <3> HIDE DEF a, n
    <3> QED BY <1>1, <1>3, <2>5
  <2>9. paid = price * n + price * r
    <3> HIDE DEF n, r
    <3> QED BY <1>1, <2>1
  <2>10. PICK x, y, z : x = a * n /\ y = price * n /\ z = price * r /\ x \in Int /\ y \in Int /\ z \in Int
    <3>1. a * n \in Int /\ price * n \in Int
      BY <1>1
    <3>2. price * r \in Int
      <4> HIDE DEF r
      <4> QED BY <1>1, <2>1
    <3> QED BY <3>1, <3>2
  <2>11. Signed(new) = Signed(pos) + (IF side = "BUY" THEN q ELSE 0 - q)
    <3> HIDE DEF new, r
    <3> QED BY <1>1, <1>3, <2>1, <2>3, <2>5
  <2>12. gain \in Int /\ cut \in Int /\ cut = 0
    <3> HIDE DEF gain, cut, a, n
    <3> QED BY <2>4, <2>6, <2>10
  <2>14. (IF side = "BUY" THEN paid ELSE 0 - paid) = now - old - gain + cut
    <3> HIDE DEF now, old, new, gain, cut, paid, n, a, r
    <3> QED BY <1>1, <2>5, <2>6, <2>7, <2>8, <2>9, <2>10, <2>12
  <2> HIDE DEF now, old, new, gain, cut, paid, n, a, r
  <2> QED BY <2>3, <2>11, <2>12, <2>14
<1>11. Goal
  BY <1>7, <1>8, <1>9, <1>10
<1> QED BY <1>1, <1>2, <1>11

\* What an order adds to the position once it is filled.
AmountOf(o)   == IF o = NoOrder \/ o.status # "FILLED" THEN 0
                 ELSE IF o.side = "BUY" THEN o.qty ELSE 0 - o.qty
\* The amounts of a book of orders, such books, and the orders that rest in one.
AmountsOf(os) == [i \in OrderIds |-> AmountOf(os[i])]
OrderBooks    == [OrderIds -> PaperOrders \cup {NoOrder}]
RestingIn(os)    == {i \in OrderIds : os[i].status = "SUBMITTED"}

\* The money side: what a position, a balance and a profit have in common.
MoneyKept(pos, money, profit, cut) ==
  /\ pos \in PaperBooks /\ money \in Int /\ profit \in Int /\ cut \in Int
  /\ money - Balance = profit - Signed(pos) * pos.avg - cut

\* There are finitely many orders.
LEMMA OrderIdsFinite == IsFiniteSet(OrderIds) /\ MaxOrders \in Nat /\ Balance \in Int
<1>1. MaxOrders \in Nat /\ Balance \in Int
  BY PaperAssumption
<1>2. IsFiniteSet(1 .. MaxOrders)
  BY <1>1, FS_Interval
<1> QED BY <1>1, <1>2 DEF OrderIds

\* An order's amount is a number, and nothing unless it is filled.
LEMMA AmountIs ==
  ASSUME NEW o \in PaperOrders \cup {NoOrder}
  PROVE  /\ AmountOf(o) \in Int
         /\ o.status # "FILLED" => AmountOf(o) = 0
         /\ (o.status = "FILLED" /\ o.side = "BUY") => AmountOf(o) = o.qty
         /\ (o.status = "FILLED" /\ o.side # "BUY") => AmountOf(o) = 0 - o.qty
         /\ o = NoOrder \/ o.status # "none"
         /\ NoOrder.status = "none"
  BY DEF AmountOf, PaperOrders, NoOrder, Terminal

\* One order of the book replaced by another.
LEMMA OrderPut ==
  ASSUME NEW os \in OrderBooks, NEW i \in OrderIds, NEW o \in PaperOrders
  PROVE  /\ [os EXCEPT ![i] = o] \in OrderBooks
         /\ ValueSum(AmountsOf([os EXCEPT ![i] = o]), OrderIds)
              = ValueSum(AmountsOf(os), OrderIds) - AmountOf(os[i]) + AmountOf(o)
         /\ RestingIn([os EXCEPT ![i] = o]) = (RestingIn(os) \ {i}) \cup (IF o.status = "SUBMITTED" THEN {i} ELSE {})
         /\ ValueSum(AmountsOf(os), OrderIds) \in Int
         /\ AmountOf(os[i]) \in Int /\ AmountOf(o) \in Int
<1> DEFINE new == [os EXCEPT ![i] = o]
           f == AmountsOf(os)
           g == AmountsOf(new)
<1>1. new \in OrderBooks /\ new[i] = o /\ \A j \in OrderIds : j # i => new[j] = os[j]
  BY DEF OrderBooks
<1>2. \A j \in OrderIds : os[j] \in PaperOrders \cup {NoOrder} /\ new[j] \in PaperOrders \cup {NoOrder}
  BY <1>1 DEF OrderBooks
<1>3. RestingIn(new) = (RestingIn(os) \ {i}) \cup (IF o.status = "SUBMITTED" THEN {i} ELSE {})
  <2> HIDE DEF new
  <2> QED BY <1>1 DEF RestingIn
<1>4. \A j \in OrderIds : f[j] = AmountOf(os[j]) /\ g[j] = AmountOf(new[j])
  BY DEF AmountsOf
<1> HIDE DEF f, g, new
<1>5. \A j \in OrderIds : AmountOf(os[j]) \in Int /\ AmountOf(new[j]) \in Int
  BY <1>2, AmountIs
<1>6. \A j \in OrderIds : f[j] \in Int /\ g[j] \in Int /\ (j # i => g[j] = f[j])
  BY <1>1, <1>4, <1>5
<1>7. ValueSum(g, OrderIds) = ValueSum(f, OrderIds) - f[i] + g[i]
  <2>1. \A j \in OrderIds : f[j] \in Int /\ g[j] \in Int
    BY <1>6
  <2>2. \A j \in OrderIds : j # i => g[j] = f[j]
    BY <1>6
  <2>3. IsFiniteSet(OrderIds)
    BY OrderIdsFinite
  <2> QED BY <2>1, <2>2, <2>3, ValueSumChange
<1>8. ValueSum(f, OrderIds) \in Int
  BY <1>6, OrderIdsFinite, ValueSumInt
<1> QED BY <1>1, <1>3, <1>4, <1>5, <1>7, <1>8 DEF f, g, new

\* A fill keeps the money.
LEMMA FillKeepsMoney ==
  ASSUME NEW pos, NEW money, NEW profit, NEW cut, MoneyKept(pos, money, profit, cut),
         NEW side \in Sides, NEW price \in Nat, NEW q \in Nat \ {0}
  PROVE  /\ MoneyKept(Filled(pos, side, price, q), money - Outlay(side, price, q),
                      profit + Gain(pos, side, price, q), cut + CutOff(pos, side, price, q))
         /\ Signed(pos) \in Int
         /\ Signed(Filled(pos, side, price, q)) = Signed(pos) + (IF side = "BUY" THEN q ELSE 0 - q)
<1>1. pos \in PaperBooks /\ money \in Int /\ profit \in Int /\ cut \in Int
      /\ money - Balance = profit - Signed(pos) * pos.avg - cut
  BY DEF MoneyKept
<1> DEFINE new == Filled(pos, side, price, q)
           paid == Outlay(side, price, q)
           gain == Gain(pos, side, price, q)
           c == CutOff(pos, side, price, q)
<1>2. /\ new \in PaperBooks /\ paid \in Int /\ gain \in Int /\ c \in Int
      /\ Signed(new) = Signed(pos) + (IF side = "BUY" THEN q ELSE 0 - q)
      /\ paid = Signed(new) * new.avg - Signed(pos) * pos.avg - gain + c
  BY <1>1, FillBalances
<1>3. Signed(pos) \in Int /\ pos.avg \in Int
  BY <1>1 DEF PaperBooks, Signed
<1> HIDE DEF new, paid, gain, c
<1>4. Signed(new) \in Int /\ new.avg \in Int
  BY <1>2 DEF PaperBooks, Signed
<1>5. PICK x, y : x = Signed(pos) * pos.avg /\ y = Signed(new) * new.avg /\ x \in Int /\ y \in Int
  <2>1. \A a, b \in Int : a * b \in Int
    OBVIOUS
  <2> QED BY <1>3, <1>4, <2>1
<1>6. (money - paid) - Balance = (profit + gain) - y - (cut + c)
  BY <1>1, <1>2, <1>5, OrderIdsFinite
<1>7. MoneyKept(new, money - paid, profit + gain, cut + c)
  BY <1>1, <1>2, <1>5, <1>6 DEF MoneyKept
<1> QED BY <1>2, <1>3, <1>7 DEF new, paid, gain, c

\* Everything the paper account keeps.
PaperSound(os, rs, pos, money, profit, cut) ==
  /\ os \in OrderBooks
  /\ rs = RestingIn(os)
  /\ MoneyKept(pos, money, profit, cut)
  /\ Signed(pos) = ValueSum(AmountsOf(os), OrderIds)
\* It, and a price to fill market orders at.
PaperInv == market \in Nat /\ PaperSound(orders, resting, book, cash, realized, remainders)

\* A new order that is not filled changes nothing but the order book.
LEMMA PutKeeps ==
  ASSUME NEW os, NEW rs, NEW pos, NEW money, NEW profit, NEW cut, PaperSound(os, rs, pos, money, profit, cut),
         NEW i \in OrderIds, os[i].status # "FILLED", NEW o \in PaperOrders, o.status # "FILLED"
  PROVE  PaperSound([os EXCEPT ![i] = o], (rs \ {i}) \cup (IF o.status = "SUBMITTED" THEN {i} ELSE {}),
                    pos, money, profit, cut)
<1>1. os \in OrderBooks /\ rs = RestingIn(os) /\ os[i] \in PaperOrders \cup {NoOrder}
  BY DEF PaperSound, OrderBooks
<1>2. AmountOf(os[i]) = 0 /\ AmountOf(o) = 0
  BY <1>1, AmountIs
<1> DEFINE new == [os EXCEPT ![i] = o]
<1>3. /\ new \in OrderBooks
      /\ ValueSum(AmountsOf(new), OrderIds) = ValueSum(AmountsOf(os), OrderIds) - AmountOf(os[i]) + AmountOf(o)
      /\ RestingIn(new) = (RestingIn(os) \ {i}) \cup (IF o.status = "SUBMITTED" THEN {i} ELSE {})
      /\ ValueSum(AmountsOf(os), OrderIds) \in Int
  BY <1>1, OrderPut
<1> HIDE DEF new
<1>4. ValueSum(AmountsOf(new), OrderIds) = ValueSum(AmountsOf(os), OrderIds)
  BY <1>2, <1>3
<1>5. PaperSound(new, (rs \ {i}) \cup (IF o.status = "SUBMITTED" THEN {i} ELSE {}), pos, money, profit, cut)
  BY <1>1, <1>3, <1>4 DEF PaperSound
<1> QED BY <1>5 DEF new

\* A new order that fills at once.
LEMMA FillKeeps ==
  ASSUME NEW os, NEW rs, NEW pos, NEW money, NEW profit, NEW cut, PaperSound(os, rs, pos, money, profit, cut),
         NEW i \in OrderIds, os[i] = NoOrder, NEW o \in PaperOrders, o.status = "FILLED", NEW price \in Nat
  PROVE  PaperSound([os EXCEPT ![i] = o], rs, Filled(pos, o.side, price, o.qty), money - Outlay(o.side, price, o.qty),
                    profit + Gain(pos, o.side, price, o.qty), cut + CutOff(pos, o.side, price, o.qty))
<1>1. os \in OrderBooks /\ rs = RestingIn(os) /\ os[i] \in PaperOrders \cup {NoOrder}
      /\ MoneyKept(pos, money, profit, cut) /\ Signed(pos) = ValueSum(AmountsOf(os), OrderIds)
  BY DEF PaperSound, OrderBooks
<1>2. os[i].status = "none" /\ AmountOf(os[i]) = 0
  BY <1>1, AmountIs
<1>3. o.side \in Sides /\ o.qty \in Nat \ {0}
  BY DEF PaperOrders
<1>4. AmountOf(o) = IF o.side = "BUY" THEN o.qty ELSE 0 - o.qty
  BY AmountIs
<1> DEFINE new == [os EXCEPT ![i] = o]
           p == Filled(pos, o.side, price, o.qty)
           m == money - Outlay(o.side, price, o.qty)
           r == profit + Gain(pos, o.side, price, o.qty)
           c == cut + CutOff(pos, o.side, price, o.qty)
<1>5. /\ new \in OrderBooks
      /\ ValueSum(AmountsOf(new), OrderIds) = ValueSum(AmountsOf(os), OrderIds) - AmountOf(os[i]) + AmountOf(o)
      /\ RestingIn(new) = (RestingIn(os) \ {i}) \cup (IF o.status = "SUBMITTED" THEN {i} ELSE {})
      /\ ValueSum(AmountsOf(os), OrderIds) \in Int
  BY <1>1, OrderPut
<1>6. /\ MoneyKept(p, m, r, c)
      /\ Signed(p) = Signed(pos) + (IF o.side = "BUY" THEN o.qty ELSE 0 - o.qty)
  BY <1>1, <1>3, FillKeepsMoney
<1>7. i \notin RestingIn(os)
  BY <1>2 DEF RestingIn
<1> HIDE DEF new, p, m, r, c
<1>8. RestingIn(new) = rs
  BY <1>1, <1>5, <1>7
<1>9. Signed(p) = ValueSum(AmountsOf(new), OrderIds)
  BY <1>1, <1>2, <1>3, <1>4, <1>5, <1>6
<1>10. PaperSound(new, rs, p, m, r, c)
  BY <1>5, <1>6, <1>8, <1>9 DEF PaperSound
<1> QED BY <1>10 DEF new, p, m, r, c

\* The books before the orders that are hit, and what each of them does.
BookBase == [book |-> book, known |-> known, cash |-> cash, realized |-> realized, remainders |-> remainders]
\* One of the orders, if it is hit.
BookStep(hit, s, k) == IF k \in hit THEN FillOne(s, k) ELSE s
\* f holds the books after each of the orders up to n.
BooksUpTo(hit, f, n) ==
  f = [k \in 0 .. n |-> IF k = 0 THEN BookBase ELSE BookStep(hit, f[k - 1], k)]

\* The books can be followed through any number of orders.
LEMMA BooksExist ==
  ASSUME NEW hit, NEW m \in Nat
  PROVE  \E f : BooksUpTo(hit, f, m)
<1> DEFINE Bad == {n \in Nat : ~ \E f : BooksUpTo(hit, f, n)}
<1>1. SUFFICES ASSUME Bad # {} PROVE FALSE
  OBVIOUS
<1>2. PICK n \in Bad : n \in Nat /\ (n # 0 => (n - 1 \in Nat /\ n - 1 \notin Bad))
  <2>1. Bad \subseteq Nat
    OBVIOUS
  <2> HIDE DEF Bad
  <2> QED BY <1>1, <2>1, LeastBad
<1>3. CASE n = 0
  <2> DEFINE f == [k \in 0 .. 0 |-> BookBase]
  <2>1. BooksUpTo(hit, f, 0)
    BY DEF BooksUpTo
  <2> QED BY <1>2, <1>3, <2>1
<1>4. CASE n # 0
  <2>1. PICK f : BooksUpTo(hit, f, n - 1)
    BY <1>2, <1>4
  <2> DEFINE last == BookStep(hit, f[n - 1], n)
             g == [k \in 0 .. n |-> IF k = n THEN last ELSE f[k]]
  <2>2. \A k \in 0 .. n - 1 : f[k] = IF k = 0 THEN BookBase ELSE BookStep(hit, f[k - 1], k)
    <3> DEFINE h == [k \in 0 .. n - 1 |-> IF k = 0 THEN BookBase ELSE BookStep(hit, f[k - 1], k)]
    <3>1. f = h
      BY <2>1 DEF BooksUpTo
    <3>2. \A k \in 0 .. n - 1 : h[k] = IF k = 0 THEN BookBase ELSE BookStep(hit, f[k - 1], k)
      OBVIOUS
    <3> HIDE DEF h
    <3> QED BY <3>1, <3>2
  <2>3. n \in Nat /\ n # 0 /\ n - 1 \in 0 .. n - 1
    BY <1>2, <1>4
  <2>4. ASSUME NEW k \in 0 .. n
        PROVE  (IF k = n THEN last ELSE f[k]) = (IF k = 0 THEN BookBase ELSE BookStep(hit, g[k - 1], k))
    <3>1. CASE k = n
      <4>1. k # 0 /\ k - 1 = n - 1 /\ n - 1 \in 0 .. n /\ n - 1 # n
        BY <2>3, <3>1
      <4>2. g[n - 1] = f[n - 1]
        BY <4>1
      <4> HIDE DEF g
      <4>3. BookStep(hit, g[k - 1], k) = last
        BY <3>1, <4>1, <4>2
      <4> HIDE DEF last
      <4> QED BY <3>1, <4>1, <4>3
    <3>2. CASE k # n
      <4>1. k \in 0 .. n - 1 /\ k \in Nat
        BY <2>3, <3>2
      <4>2. f[k] = IF k = 0 THEN BookBase ELSE BookStep(hit, f[k - 1], k)
        BY <2>2, <4>1
      <4>3. CASE k = 0
        BY <3>2, <4>2, <4>3
      <4>4. CASE k # 0
        <5>1. k - 1 \in 0 .. n /\ k - 1 # n
          BY <2>3, <4>1, <4>4
        <5>2. g[k - 1] = f[k - 1]
          BY <5>1
        <5> HIDE DEF g, last
        <5> QED BY <3>2, <4>2, <4>4, <5>2
      <4> QED BY <4>3, <4>4
    <3> QED BY <3>1, <3>2
  <2>5. g = [k \in 0 .. n |-> IF k = 0 THEN BookBase ELSE BookStep(hit, g[k - 1], k)]
    <3> DEFINE e(k) == IF k = 0 THEN BookBase ELSE BookStep(hit, g[k - 1], k)
               d(k) == IF k = n THEN last ELSE f[k]
    <3>1. \A k \in 0 .. n : d(k) = e(k)
      BY <2>4
    <3>2. g = [k \in 0 .. n |-> d(k)]
      OBVIOUS
    <3> HIDE DEF g, e, d
    <3>3. g = [k \in 0 .. n |-> e(k)]
      BY <3>1, <3>2
    <3> QED BY <3>3 DEF e
  <2>6. BooksUpTo(hit, g, n)
    <3> HIDE DEF g
    <3> QED BY <2>5 DEF BooksUpTo
  <2> QED BY <1>2, <2>6
<1> QED BY <1>3, <1>4

\* The books of the code's loop.
LEMMA BooksAfterIs ==
  ASSUME NEW hit
  PROVE  /\ BooksAfter(hit)[0] = BookBase
         /\ \A k \in 1 .. MaxOrders : BooksAfter(hit)[k] = BookStep(hit, BooksAfter(hit)[k - 1], k)
<1>0. MaxOrders \in Nat
  BY PaperAssumption
<1> DEFINE b == BooksAfter(hit)
<1>1. b = CHOOSE f : f = [k \in 0 .. MaxOrders |->
                           IF k = 0 THEN BookBase ELSE IF k \in hit THEN FillOne(f[k - 1], k) ELSE f[k - 1]]
  BY DEF BooksAfter, BookBase
<1> HIDE DEF b
<1>2. PICK f : BooksUpTo(hit, f, MaxOrders)
  BY <1>0, BooksExist
<1>3. f = [k \in 0 .. MaxOrders |->
            IF k = 0 THEN BookBase ELSE IF k \in hit THEN FillOne(f[k - 1], k) ELSE f[k - 1]]
  BY <1>2 DEF BooksUpTo, BookStep
<1>4. b = [k \in 0 .. MaxOrders |->
            IF k = 0 THEN BookBase ELSE IF k \in hit THEN FillOne(b[k - 1], k) ELSE b[k - 1]]
  BY <1>1, <1>3
<1> DEFINE e(k) == IF k = 0 THEN BookBase ELSE IF k \in hit THEN FillOne(b[k - 1], k) ELSE b[k - 1]
<1>5. b = [k \in 0 .. MaxOrders |-> e(k)]
  BY <1>4
<1> HIDE DEF e
<1>6. \A k \in 0 .. MaxOrders : b[k] = e(k)
  BY <1>5
<1>7. b[0] = BookBase
  BY <1>0, <1>6 DEF e
<1>8. ASSUME NEW k \in 1 .. MaxOrders PROVE b[k] = BookStep(hit, b[k - 1], k)
  <2>1. k \in 0 .. MaxOrders /\ k # 0
    BY <1>0
  <2> QED BY <1>6, <2>1 DEF e, BookStep
<1> QED BY <1>7, <1>8 DEF b

\* The order book once the orders up to k that are hit are filled.
FilledOrder(o) == [o EXCEPT !.status = "FILLED"]
\* The book of orders then.
OrdersUpTo(hit, k) ==
  [i \in OrderIds |-> IF i \in hit /\ i <= k THEN FilledOrder(orders[i]) ELSE orders[i]]

\* The books after k of the orders are those of that order book.
LoopSound(hit, k) ==
  /\ OrdersUpTo(hit, k) \in OrderBooks
  /\ MoneyKept(BooksAfter(hit)[k].book, BooksAfter(hit)[k].cash, BooksAfter(hit)[k].realized, BooksAfter(hit)[k].remainders)
  /\ Signed(BooksAfter(hit)[k].book) = ValueSum(AmountsOf(OrdersUpTo(hit, k)), OrderIds)

\* One order of the loop.
LEMMA LoopStep ==
  ASSUME PaperInv, NEW hit, hit \subseteq RestingIn(orders), NEW k \in 1 .. MaxOrders, LoopSound(hit, k - 1)
  PROVE  LoopSound(hit, k)
<1> DEFINE old == OrdersUpTo(hit, k - 1)
           new == OrdersUpTo(hit, k)
           s   == BooksAfter(hit)[k - 1]
           t   == BooksAfter(hit)[k]
           o   == orders[k]
<1>0. MaxOrders \in Nat /\ k \in Int /\ k \in OrderIds
  BY PaperAssumption DEF OrderIds
<1>1. /\ old \in OrderBooks /\ MoneyKept(s.book, s.cash, s.realized, s.remainders)
      /\ Signed(s.book) = ValueSum(AmountsOf(old), OrderIds)
  BY DEF LoopSound
<1>2. t = BookStep(hit, s, k)
  BY BooksAfterIs
<1>3. \A i \in OrderIds : i \in Int
  BY DEF OrderIds
<1>4. orders \in OrderBooks
  BY DEF PaperInv, PaperSound
<1>5. CASE k \notin hit
  <2>1. \A i \in OrderIds : (i \in hit /\ i <= k - 1) <=> (i \in hit /\ i <= k)
    BY <1>0, <1>3, <1>5
  <2>2. new = old
    BY <2>1 DEF OrdersUpTo
  <2>3. t = s
    BY <1>2, <1>5 DEF BookStep
  <2> HIDE DEF t, s, new, old
  <2>4. /\ new \in OrderBooks /\ MoneyKept(t.book, t.cash, t.realized, t.remainders)
        /\ Signed(t.book) = ValueSum(AmountsOf(new), OrderIds)
    BY <1>1, <2>2, <2>3
  <2> QED BY <2>4 DEF LoopSound, t, new
<1>6. CASE k \in hit
  <2> DEFINE f == FilledOrder(o)
  <2>1. o \in PaperOrders /\ o.status = "SUBMITTED"
    <3>1. o.status = "SUBMITTED" /\ o \in PaperOrders \cup {NoOrder}
      BY <1>0, <1>4, <1>6 DEF RestingIn, OrderBooks
    <3> QED BY <3>1 DEF NoOrder
  <2>2. /\ f \in PaperOrders /\ f.status = "FILLED" /\ f.side = o.side /\ f.qty = o.qty /\ f.limit = o.limit
        /\ o.side \in Sides /\ o.qty \in Nat \ {0} /\ o.limit \in Nat
    BY <2>1 DEF PaperOrders, FilledOrder, Terminal
  <2>3. old[k] = o
    BY <1>0 DEF OrdersUpTo
  <2>4. new = [old EXCEPT ![k] = f]
    <3>1. \A i \in OrderIds : i # k => ((i \in hit /\ i <= k - 1) <=> (i \in hit /\ i <= k))
      BY <1>0, <1>3
    <3>2. k \in hit /\ k <= k
      BY <1>0, <1>6
    <3> HIDE DEF f
    <3>3. new = [i \in OrderIds |-> IF i = k THEN f ELSE old[i]]
      BY <3>1, <3>2 DEF OrdersUpTo, f
    <3>4. DOMAIN old = OrderIds
      BY DEF OrdersUpTo
    <3> HIDE DEF new, old
    <3> QED BY <3>3, <3>4
  <2>5. t = FillOne(s, k)
    BY <1>2, <1>6 DEF BookStep
  <2>6. /\ t.book = Filled(s.book, o.side, o.limit, o.qty)
        /\ t.cash = s.cash - Outlay(o.side, o.limit, o.qty)
        /\ t.realized = s.realized + Gain(s.book, o.side, o.limit, o.qty)
        /\ t.remainders = s.remainders + CutOff(s.book, o.side, o.limit, o.qty)
    <3> HIDE DEF s, t
    <3> QED BY <2>5 DEF FillOne
  <2> HIDE DEF s, t, o, f, new, old
  <2>7. /\ MoneyKept(t.book, t.cash, t.realized, t.remainders)
        /\ Signed(t.book) = Signed(s.book) + (IF o.side = "BUY" THEN o.qty ELSE 0 - o.qty)
    BY <1>1, <2>2, <2>6, FillKeepsMoney
  <2>8. /\ new \in OrderBooks
        /\ ValueSum(AmountsOf(new), OrderIds) = ValueSum(AmountsOf(old), OrderIds) - AmountOf(old[k]) + AmountOf(f)
        /\ ValueSum(AmountsOf(old), OrderIds) \in Int
    BY <1>0, <1>1, <2>2, <2>4, OrderPut
  <2>9. AmountOf(old[k]) = 0
    BY <2>1, <2>3, AmountIs
  <2>10. AmountOf(f) = IF o.side = "BUY" THEN o.qty ELSE 0 - o.qty
    BY <2>2, AmountIs
  <2>11. Signed(t.book) = ValueSum(AmountsOf(new), OrderIds)
    BY <1>1, <2>2, <2>7, <2>8, <2>9, <2>10
  <2> QED BY <2>7, <2>8, <2>11 DEF LoopSound, t, new
<1> QED BY <1>5, <1>6

\* The whole loop.
LEMMA LoopKeeps ==
  ASSUME PaperInv, NEW hit, hit \subseteq RestingIn(orders)
  PROVE  LoopSound(hit, MaxOrders)
<1>0. MaxOrders \in Nat
  BY PaperAssumption
<1> DEFINE Bad == {k \in Nat : k <= MaxOrders /\ ~LoopSound(hit, k)}
<1>1. LoopSound(hit, 0)
  <2>1. \A i \in OrderIds : ~(i <= 0)
    BY DEF OrderIds
  <2>2. orders \in OrderBooks /\ MoneyKept(book, cash, realized, remainders)
        /\ Signed(book) = ValueSum(AmountsOf(orders), OrderIds)
    BY DEF PaperInv, PaperSound
  <2>3. orders = [i \in OrderIds |-> orders[i]]
    BY <2>2 DEF OrderBooks
  <2>4. OrdersUpTo(hit, 0) = orders
    BY <2>1, <2>3 DEF OrdersUpTo
  <2>5. BooksAfter(hit)[0] = BookBase
    BY BooksAfterIs
  <2>6. BookBase.book = book /\ BookBase.cash = cash /\ BookBase.realized = realized /\ BookBase.remainders = remainders
    BY DEF BookBase
  <2> QED BY <2>2, <2>4, <2>5, <2>6 DEF LoopSound
<1>2. SUFFICES ASSUME Bad # {} PROVE FALSE
  BY <1>0
<1>3. PICK k \in Bad : k \in Nat /\ (k # 0 => (k - 1 \in Nat /\ k - 1 \notin Bad))
  <2>1. Bad \subseteq Nat
    OBVIOUS
  <2> HIDE DEF Bad
  <2> QED BY <1>2, <2>1, LeastBad
<1>4. k \in Nat /\ k <= MaxOrders /\ ~LoopSound(hit, k)
  OBVIOUS
<1>5. k # 0
  BY <1>1, <1>4
<1>6. k \in 1 .. MaxOrders /\ k - 1 \in Nat /\ k - 1 <= MaxOrders
  BY <1>0, <1>4, <1>5
<1>7. LoopSound(hit, k - 1)
  BY <1>3, <1>5, <1>6
<1> QED BY <1>4, <1>6, <1>7, LoopStep

\* A new price fills the orders it reaches, and the books follow.
LEMMA PriceKeeps ==
  ASSUME PaperInv, UpdatePrice
  PROVE  PaperInv'
<1>1. PICK p \in Prices \ {market} :
        LET hit == {i \in resting : Fillable(orders[i].side, orders[i].limit, p)}
            end == BooksAfter(hit)[MaxOrders]
        IN /\ market' = p
           /\ resting' = resting \ hit
           /\ orders' = [i \in OrderIds |-> IF i \in hit THEN [orders[i] EXCEPT !.status = "FILLED"] ELSE orders[i]]
           /\ book' = end.book /\ known' = end.known
           /\ cash' = end.cash /\ realized' = end.realized /\ remainders' = end.remainders
           /\ UNCHANGED <<engineUp, account>>
  BY DEF UpdatePrice
<1> DEFINE hit == {i \in resting : Fillable(orders[i].side, orders[i].limit, p)}
           end == BooksAfter(hit)[MaxOrders]
<1>2. /\ market' = p /\ resting' = resting \ hit
      /\ orders' = [i \in OrderIds |-> IF i \in hit THEN FilledOrder(orders[i]) ELSE orders[i]]
      /\ book' = end.book /\ cash' = end.cash /\ realized' = end.realized /\ remainders' = end.remainders
  BY <1>1 DEF FilledOrder
<1>3. hit \subseteq resting
  OBVIOUS
<1> HIDE DEF hit
<1>4. /\ orders \in OrderBooks /\ resting = RestingIn(orders)
  BY DEF PaperInv, PaperSound
<1>5. LoopSound(hit, MaxOrders)
  BY <1>3, <1>4, LoopKeeps
<1>6. \A i \in OrderIds : i <= MaxOrders
  BY PaperAssumption DEF OrderIds
<1>7. orders' = OrdersUpTo(hit, MaxOrders)
  BY <1>2, <1>6 DEF OrdersUpTo
<1>8. resting' = {i \in OrderIds : orders'[i].status = "SUBMITTED"}
  <2>1. \A i \in OrderIds : orders'[i] = IF i \in hit THEN FilledOrder(orders[i]) ELSE orders[i]
    BY <1>2
  <2>2. \A i \in hit : i \in OrderIds /\ orders[i].status = "SUBMITTED"
    BY <1>3, <1>4 DEF RestingIn
  <2>3. \A i \in hit : FilledOrder(orders[i]).status = "FILLED"
    <3>1. ASSUME NEW i \in hit PROVE orders[i] \in PaperOrders
      <4>1. orders[i].status = "SUBMITTED" /\ orders[i] \in PaperOrders \cup {NoOrder}
        BY <1>4, <2>2 DEF OrderBooks
      <4> QED BY <4>1 DEF NoOrder
    <3> QED BY <3>1 DEF FilledOrder, PaperOrders
  <2>4. \A i \in OrderIds : orders'[i].status = "SUBMITTED" <=> (orders[i].status = "SUBMITTED" /\ i \notin hit)
    BY <2>1, <2>2, <2>3
  <2> QED BY <1>2, <1>4, <2>4 DEF RestingIn
<1>9. p \in Nat
  BY PaperAssumption
<1>10. PaperSound(orders', resting', book', cash', realized', remainders')
  <2>1. resting' = RestingIn(orders')
    BY <1>8 DEF RestingIn
  <2>2. /\ OrdersUpTo(hit, MaxOrders) \in OrderBooks
        /\ MoneyKept(end.book, end.cash, end.realized, end.remainders)
        /\ Signed(end.book) = ValueSum(AmountsOf(OrdersUpTo(hit, MaxOrders)), OrderIds)
    BY <1>5 DEF LoopSound
  <2> HIDE DEF end
  <2> QED BY <1>2, <1>7, <2>1, <2>2 DEF PaperSound
<1> QED BY <1>2, <1>9, <1>10 DEF PaperInv

\* A replaced order in the book, as the code writes it.
LEMMA FreshOrders ==
  ASSUME PaperInv, NEW i \in NewOrders
  PROVE  i \in OrderIds /\ orders[i] = NoOrder /\ orders[i].status # "FILLED" /\ i \notin resting
<1>1. i \in OrderIds /\ orders[i] = NoOrder
  BY DEF NewOrders
<1>2. resting = RestingIn(orders)
  BY DEF PaperInv, PaperSound
<1> QED BY <1>1, <1>2 DEF RestingIn, NoOrder

\* An order is what it is made of.
LEMMA OrderIs ==
  ASSUME NEW side \in Sides, NEW q \in Nat \ {0}, NEW limit \in Nat, NEW status \in {"SUBMITTED"} \cup Terminal
  PROVE  /\ Order(side, q, limit, status) \in PaperOrders
         /\ Order(side, q, limit, status).status = status
         /\ Order(side, q, limit, status).side = side
         /\ Order(side, q, limit, status).qty = q
  BY DEF Order, PaperOrders

\* An order that is refused.
LEMMA RejectKeeps ==
  ASSUME PaperInv, NEW i \in NewOrders, NEW side \in Sides, NEW q \in Nat \ {0}, NEW limit \in Nat,
         Reject(i, side, q, limit), UNCHANGED market
  PROVE  PaperInv'
<1> DEFINE o == Order(side, q, limit, "REJECTED")
<1>1. /\ orders' = [orders EXCEPT ![i] = o]
      /\ resting' = resting /\ book' = book /\ cash' = cash /\ realized' = realized /\ remainders' = remainders
  BY DEF Reject
<1>2. o \in PaperOrders /\ o.status = "REJECTED"
  BY OrderIs DEF Terminal
<1> HIDE DEF o
<1>3. PaperSound(orders, resting, book, cash, realized, remainders) /\ market' \in Nat
  BY DEF PaperInv
<1>4. i \in OrderIds /\ orders[i].status # "FILLED" /\ i \notin resting
  BY FreshOrders
<1>5. PaperSound([orders EXCEPT ![i] = o], (resting \ {i}) \cup (IF o.status = "SUBMITTED" THEN {i} ELSE {}),
                 book, cash, realized, remainders)
  BY <1>2, <1>3, <1>4, PutKeeps
<1>6. (resting \ {i}) \cup (IF o.status = "SUBMITTED" THEN {i} ELSE {}) = resting
  BY <1>2, <1>4
<1>7. PaperSound(orders', resting', book', cash', realized', remainders')
  BY <1>1, <1>5, <1>6
<1> QED BY <1>3, <1>7 DEF PaperInv

\* An order that fills inside of submit.
LEMMA FillNowKeeps ==
  ASSUME PaperInv, NEW i \in NewOrders, NEW side \in Sides, NEW q \in Nat \ {0}, NEW limit \in Nat, NEW price \in Nat,
         FillNow(i, side, q, limit, price), UNCHANGED market
  PROVE  PaperInv'
<1> DEFINE o == Order(side, q, limit, "FILLED")
<1>1. /\ orders' = [orders EXCEPT ![i] = o]
      /\ resting' = resting /\ book' = Filled(book, side, price, q)
      /\ cash' = cash - Outlay(side, price, q)
      /\ realized' = realized + Gain(book, side, price, q) /\ remainders' = remainders + CutOff(book, side, price, q)
  BY DEF FillNow
<1>2. o \in PaperOrders /\ o.status = "FILLED" /\ o.side = side /\ o.qty = q
  BY OrderIs DEF Terminal
<1> HIDE DEF o
<1>3. PaperSound(orders, resting, book, cash, realized, remainders) /\ market' \in Nat
  BY DEF PaperInv
<1>4. i \in OrderIds /\ orders[i] = NoOrder
  BY FreshOrders
<1>5. PaperSound([orders EXCEPT ![i] = o], resting, Filled(book, o.side, price, o.qty), cash - Outlay(o.side, price, o.qty),
                 realized + Gain(book, o.side, price, o.qty), remainders + CutOff(book, o.side, price, o.qty))
  BY <1>2, <1>3, <1>4, FillKeeps
<1>6. PaperSound(orders', resting', book', cash', realized', remainders')
  BY <1>1, <1>2, <1>5
<1> QED BY <1>3, <1>6 DEF PaperInv

\* A market order is refused or fills.
LEMMA SubmitMarketKeeps ==
  ASSUME PaperInv, NEW i \in NewOrders, NEW side \in Sides, NEW q \in Nat \ {0},
         SubmitMarket(i, side, q), UNCHANGED market
  PROVE  PaperInv'
<1>1. market \in Nat /\ 0 \in Nat
  BY DEF PaperInv
<1>2. CASE Reject(i, side, q, 0)
  BY <1>1, <1>2, RejectKeeps
<1>3. CASE FillNow(i, side, q, 0, market)
  BY <1>1, <1>3, FillNowKeeps
<1> QED BY <1>2, <1>3 DEF SubmitMarket

\* A limit order fills or rests.
LEMMA SubmitLimitKeeps ==
  ASSUME PaperInv, NEW i \in NewOrders, NEW side \in Sides, NEW q \in Nat \ {0}, NEW limit \in Nat,
         SubmitLimit(i, side, q, limit), UNCHANGED market
  PROVE  PaperInv'
<1>1. CASE FillNow(i, side, q, limit, limit)
  BY <1>1, FillNowKeeps
<1>2. CASE /\ orders' = [orders EXCEPT ![i] = Order(side, q, limit, "SUBMITTED")]
           /\ resting' = resting \cup {i}
           /\ UNCHANGED <<book, known, cash, realized, remainders>>
  <2> DEFINE o == Order(side, q, limit, "SUBMITTED")
  <2>1. /\ orders' = [orders EXCEPT ![i] = o] /\ resting' = resting \cup {i}
        /\ book' = book /\ cash' = cash /\ realized' = realized /\ remainders' = remainders
    BY <1>2
  <2>2. o \in PaperOrders /\ o.status = "SUBMITTED"
    BY OrderIs
  <2> HIDE DEF o
  <2>3. PaperSound(orders, resting, book, cash, realized, remainders) /\ market' \in Nat
    BY DEF PaperInv
  <2>4. i \in OrderIds /\ orders[i].status # "FILLED"
    BY FreshOrders
  <2>5. o.status # "FILLED"
    BY <2>2
  <2>6. PaperSound([orders EXCEPT ![i] = o], (resting \ {i}) \cup (IF o.status = "SUBMITTED" THEN {i} ELSE {}),
                   book, cash, realized, remainders)
    BY <2>2, <2>3, <2>4, <2>5, PutKeeps
  <2>7. (resting \ {i}) \cup (IF o.status = "SUBMITTED" THEN {i} ELSE {}) = resting \cup {i}
    BY <2>2
  <2>8. PaperSound(orders', resting', book', cash', realized', remainders')
    BY <2>1, <2>6, <2>7
  <2> QED BY <2>3, <2>8 DEF PaperInv
<1> QED BY <1>1, <1>2 DEF SubmitLimit

\* A cancel leaves a filled order as it is and takes any other from the book.
LEMMA CancelKeeps ==
  ASSUME PaperInv, NEW i \in OrderIds, CancelOrder(i)
  PROVE  PaperInv'
<1>1. /\ orders[i] # NoOrder /\ resting' = resting \ {i} /\ market' = market
      /\ book' = book /\ cash' = cash /\ realized' = realized /\ remainders' = remainders
      /\ orders' = [orders EXCEPT ![i].status = IF @ = "FILLED" THEN @ ELSE "CANCELED"]
  BY DEF CancelOrder
<1>2. /\ PaperSound(orders, resting, book, cash, realized, remainders)
      /\ orders \in OrderBooks /\ resting = RestingIn(orders)
      /\ orders[i] \in PaperOrders
  BY <1>1 DEF PaperInv, PaperSound, OrderBooks
<1>3. CASE orders[i].status = "FILLED"
  <2>1. orders' = orders
    BY <1>1, <1>2, <1>3 DEF OrderBooks, PaperOrders
  <2>2. resting' = resting
    BY <1>1, <1>2, <1>3 DEF RestingIn
  <2> QED BY <1>1, <1>2, <2>1, <2>2 DEF PaperInv
<1>4. CASE orders[i].status # "FILLED"
  <2> DEFINE o == [orders[i] EXCEPT !.status = "CANCELED"]
  <2>1. o \in PaperOrders /\ o.status = "CANCELED"
    BY <1>2 DEF PaperOrders, Terminal
  <2>2. orders' = [orders EXCEPT ![i] = o]
    BY <1>1, <1>4
  <2> HIDE DEF o
  <2>3. o.status # "FILLED" /\ (IF o.status = "SUBMITTED" THEN {i} ELSE {}) = {}
    BY <2>1
  <2>4. PaperSound([orders EXCEPT ![i] = o], (resting \ {i}) \cup (IF o.status = "SUBMITTED" THEN {i} ELSE {}),
                   book, cash, realized, remainders)
    BY <1>2, <1>4, <2>1, <2>3, PutKeeps
  <2>5. (resting \ {i}) \cup (IF o.status = "SUBMITTED" THEN {i} ELSE {}) = resting'
    BY <1>1, <2>3
  <2>6. PaperSound(orders', resting', book', cash', realized', remainders')
    BY <1>1, <2>2, <2>4, <2>5
  <2> QED BY <1>1, <2>6 DEF PaperInv
<1> QED BY <1>3, <1>4

\* There is no order, no position and the whole balance at first.
LEMMA PaperStart == PaperInit => PaperInv
<1> SUFFICES ASSUME PaperInit PROVE PaperInv
  OBVIOUS
<1>1. /\ orders = [i \in OrderIds |-> NoOrder] /\ resting = {} /\ book = Flat /\ market = 0
      /\ cash = Balance /\ realized = 0 /\ remainders = 0
  BY DEF PaperInit
<1>2. orders \in OrderBooks
  BY <1>1 DEF OrderBooks
<1>3. resting = RestingIn(orders)
  BY <1>1 DEF RestingIn, NoOrder
<1>4. \A i \in OrderIds : AmountsOf(orders)[i] = 0
  BY <1>1 DEF AmountsOf, AmountOf
<1>5. ValueSum(AmountsOf(orders), OrderIds) = 0
  <2> DEFINE f == AmountsOf(orders)
  <2>1. \A i \in OrderIds : f[i] = 0
    BY <1>4
  <2>2. IsFiniteSet(OrderIds)
    BY OrderIdsFinite
  <2> HIDE DEF f
  <2>3. ValueSum(f, OrderIds) = 0
    BY <2>1, <2>2, ValueSumZero
  <2> QED BY <2>3 DEF f
<1>6. book \in PaperBooks /\ Signed(book) = 0 /\ book.avg = 0
  BY <1>1 DEF Flat, PaperBooks, Signed
<1>7. MoneyKept(book, cash, realized, remainders)
  BY <1>1, <1>6, OrderIdsFinite DEF MoneyKept
<1> QED BY <1>1, <1>2, <1>3, <1>5, <1>6, <1>7 DEF PaperInv, PaperSound

\* Every handler keeps it.
LEMMA PaperStep == PaperInv /\ [PaperNext]_paperVars => PaperInv'
<1> SUFFICES ASSUME PaperInv, [PaperNext]_paperVars PROVE PaperInv'
  OBVIOUS
<1>0. Lots \subseteq Nat \ {0} /\ Prices \subseteq Nat \ {0} /\ market \in Nat
  BY PaperAssumption DEF PaperInv
<1>1. CASE ProcessSignal
  <2>1. PICK i \in NewOrders, direction \in {"LONG", "SHORT", "CLOSE"}, q \in Lots : \E side \in SideOf(direction) :
          IF RiskPasses(side, q, market) THEN SubmitMarket(i, side, q) ELSE Reject(i, side, q, 0)
    BY <1>1 DEF ProcessSignal
  <2>2. PICK side \in SideOf(direction) :
          IF RiskPasses(side, q, market) THEN SubmitMarket(i, side, q) ELSE Reject(i, side, q, 0)
    BY <2>1
  <2>3. side \in Sides /\ q \in Nat \ {0} /\ 0 \in Nat
    BY <1>0 DEF SideOf, Sides
  <2>4. UNCHANGED market
    BY <1>1 DEF ProcessSignal
  <2> QED BY <2>2, <2>3, <2>4, SubmitMarketKeeps, RejectKeeps
<1>2. CASE ManualOrder
  <2>1. PICK i \in NewOrders, side \in Sides, q \in Lots, limit \in Prices \cup {0} :
          CASE ~RiskPasses(side, q, limit) -> Reject(i, side, q, limit)
            [] RiskPasses(side, q, limit) /\ limit = 0 -> SubmitMarket(i, side, q)
            [] OTHER -> SubmitLimit(i, side, q, limit)
    BY <1>2 DEF ManualOrder
  <2>2. q \in Nat \ {0} /\ limit \in Nat
    BY <1>0
  <2>3. UNCHANGED market
    BY <1>2 DEF ManualOrder
  <2>4. Reject(i, side, q, limit) \/ SubmitMarket(i, side, q) \/ SubmitLimit(i, side, q, limit)
    BY <2>1
  <2> QED BY <2>2, <2>3, <2>4, SubmitMarketKeeps, RejectKeeps, SubmitLimitKeeps
<1>3. CASE UpdatePrice
  BY <1>3, PriceKeeps
<1>4. CASE StartEngine
  BY <1>4 DEF StartEngine, PaperInv
<1>5. CASE StopEngine
  BY <1>5 DEF StopEngine, PaperInv
<1>6. CASE \E i \in OrderIds : CancelOrder(i)
  BY <1>6, CancelKeeps
<1>7. CASE UNCHANGED paperVars
  BY <1>7 DEF paperVars, PaperInv
<1> QED
  BY <1>1, <1>2, <1>3, <1>4, <1>5, <1>6, <1>7 DEF PaperNext

\* The library's sum of the filled quantities.
LEMMA FilledTotal ==
  MapThenSumSet(FilledQty, OrderIds) = ValueSum(AmountsOf(orders), OrderIds)
<1> DEFINE w == AmountsOf(orders)
           Step(g, s) == IF s = {} THEN 0 ELSE FilledQty(First(s)) + g[s \ {First(s)}]
           g == CHOOSE f : f = [s \in SUBSET OrderIds |-> Step(f, s)]
<1>1. MapThenSumSet(FilledQty, OrderIds) = g[OrderIds]
  BY DEF First, MapThenSumSet, MapThenFoldSet
<1>2. ASSUME NEW f, NEW s \in SUBSET OrderIds
      PROVE  Step(f, s) = AddUp(w, f, s)
  <2>1. CASE s = {}
    BY <2>1 DEF AddUp
  <2>2. CASE s # {}
    <3>1. First(s) \in OrderIds
      BY <2>2, FirstIn
    <3>2. w[First(s)] = FilledQty(First(s))
      BY <3>1 DEF AmountsOf, AmountOf, FilledQty
    <3> HIDE DEF w
    <3> QED BY <2>2, <3>2 DEF AddUp
  <2> QED BY <2>1, <2>2
<1>0. IsFiniteSet(OrderIds)
  BY OrderIdsFinite
<1> HIDE DEF w, Step
<1>3. PICK h : Sums(w, h, OrderIds)
  BY <1>0, SumsExist
<1>4. h = [s \in SUBSET OrderIds |-> Step(h, s)]
  BY <1>2, <1>3 DEF Sums
<1>5. g = [s \in SUBSET OrderIds |-> Step(g, s)]
  BY <1>4
<1> HIDE DEF g
<1>6. Sums(w, g, OrderIds)
  BY <1>2, <1>5 DEF Sums
<1>7. g[OrderIds] = SumOver(w, OrderIds)
  BY <1>0, <1>6, SumUnique
<1>8. ValueSum(w, OrderIds) = SumOver(w, OrderIds)
  BY <1>0, ValueSumIs
<1> QED BY <1>1, <1>7, <1>8 DEF w

\* The books agree.
LEMMA PaperAgrees == PaperInv => BooksAgree
<1> SUFFICES ASSUME PaperInv PROVE BooksAgree
  OBVIOUS
<1>1. /\ orders \in OrderBooks /\ resting = RestingIn(orders)
      /\ Signed(book) = ValueSum(AmountsOf(orders), OrderIds)
      /\ cash - Balance = realized - Signed(book) * book.avg - remainders
  BY DEF PaperInv, PaperSound, MoneyKept
<1>2. Signed(book) = MapThenSumSet(FilledQty, OrderIds)
  BY <1>1, FilledTotal
<1>3. \A i \in OrderIds : orders[i].status = "SUBMITTED" <=> orders[i].status \notin Terminal \cup {"none"}
  BY <1>1 DEF OrderBooks, PaperOrders, NoOrder, Terminal
<1>4. resting = {i \in OrderIds : orders[i].status \notin Terminal \cup {"none"}}
  BY <1>1, <1>3 DEF RestingIn
<1> QED BY <1>1, <1>2, <1>4 DEF BooksAgree

-----------------------------------------------------------------------------
(* Both accounts.                                                          *)

BooksInv ==
  /\ part = "paper"    => PaperInv
  /\ part = "exchange" => ManagerInv

\* Accounts are kept right, with any orders, prices, limits, calls and answers:
\* position, balance and orders of the paper account agree after every handler
\* (Simulator._fill_order, _update_position, OrderManager.cancel_order), and what
\* the order manager says of an order is what the exchange says or said of it.
THEOREM BooksTrueHolds == Spec => []BooksTrue
<1>1. Init => BooksInv
  BY PaperStart, ManagerStart DEF Init, BooksInv
<1>2. BooksInv /\ [Next]_vars => BooksInv'
  <2> SUFFICES ASSUME BooksInv, [Next]_vars PROVE BooksInv'
    OBVIOUS
  <2>1. part' = part
    BY DEF Next, vars
  <2>2. part = "paper" => [PaperNext]_paperVars
    BY DEF Next, vars
  <2>3. part = "exchange" => [ExchangeNext]_exchangeVars
    BY DEF Next, vars
  <2> QED
    BY <2>1, <2>2, <2>3, PaperStep, ManagerStep DEF BooksInv
<1>3. BooksInv => BooksTrue
  BY PaperAgrees, ManagerTruthful DEF BooksInv, BooksTrue
<1> QED
  BY <1>1, <1>2, <1>3, PTL DEF Spec

-----------------------------------------------------------------------------
(* The figures of a backtest's report: each recursion over the trades or   *)
(* the bars has the values of its steps, and what the report says of a     *)
(* curve follows bar by bar.                                               *)

\* The totals of a sequence are sums that start from nothing.
LEMMA Totals ==
  ASSUME NEW s \in Seq(Int)
  PROVE  \E u \in [0 .. Len(s) -> Int] :
           u[0] = 0 /\ (\A k \in 1 .. Len(s) : u[k] = u[k - 1] + s[k]) /\ SumSeq(s) = u[Len(s)]
<1> DEFINE rec(u) == u = [n \in 0 .. Len(s) |-> IF n = 0 THEN 0 ELSE u[n - 1] + s[n]]
           step == [x \in Int \X (1 .. Len(s)) |-> x[1] + s[x[2]]]
           S == Int
<1>0. PICK m \in Nat : m = Len(s) /\ DOMAIN s = 1 .. m /\ \A k \in 1 .. m : s[k] \in Int
  OBVIOUS
<1>1. step \in [Int \X (1 .. m) -> Int]
  BY <1>0
<1>2. PICK f : TakesSteps(f, S, m, 0, step)
  <2>1. 0 \in S /\ step \in [S \X (1 .. m) -> S]
    BY <1>1
  <2> HIDE DEF step, S
  <2> QED BY <1>0, <2>1, StepsExist
<1>3. f \in [0 .. m -> Int] /\ f[0] = 0 /\ \A k \in 1 .. m : f[k] = f[k - 1] + s[k]
  <2>1. f \in [0 .. m -> Int] /\ f[0] = 0 /\ \A k \in 1 .. m : f[k] = step[<<f[k - 1], k>>]
    <3> HIDE DEF step
    <3> QED BY <1>2 DEF TakesSteps
  <2>2. ASSUME NEW k \in 1 .. m PROVE f[k] = f[k - 1] + s[k]
    <3>1. f[k - 1] \in Int
      BY <2>1
    <3>2. PICK g \in Int : g = f[k - 1]
      BY <3>1
    <3>3. step[<<g, k>>] = g + s[k]
      BY <1>0
    <3> HIDE DEF step
    <3> QED BY <2>1, <3>2, <3>3
  <2> QED BY <2>1, <2>2
<1>4. rec(f)
  <2>1. \A k \in 0 .. m : f[k] = IF k = 0 THEN 0 ELSE f[k - 1] + s[k]
    <3>1. \A k \in 0 .. m : k = 0 \/ k \in 1 .. m
      BY <1>0
    <3> QED BY <1>3, <3>1
  <2>2. f = [k \in 0 .. m |-> f[k]]
    BY <1>3
  <2> QED BY <1>0, <2>1, <2>2
<1>5. PICK u : u = CHOOSE v : rec(v)
  OBVIOUS
<1>6. rec(u)
  <2> HIDE DEF rec
  <2> QED BY <1>4, <1>5
<1>7. u[0] = 0 /\ \A k \in 1 .. m : u[k] = u[k - 1] + s[k]
  <2> DEFINE h == [n \in 0 .. m |-> IF n = 0 THEN 0 ELSE u[n - 1] + s[n]]
  <2>1. u = h
    BY <1>0, <1>6
  <2>2. h[0] = 0 /\ \A k \in 1 .. m : h[k] = u[k - 1] + s[k]
    BY <1>0
  <2> HIDE DEF h
  <2> QED BY <2>1, <2>2
<1>8. \A k \in 0 .. m : u[k] = f[k]
  <2>1. Retraces(u, f, m, step)
    <3> SUFFICES ASSUME NEW k \in 1 .. m, u[k - 1] = f[k - 1] PROVE u[k] = step[<<f[k - 1], k>>]
      <4>1. u[0] = f[0]
        BY <1>3, <1>7
      <4> HIDE DEF step
      <4> QED BY <4>1 DEF Retraces
    <3>1. u[k] = f[k - 1] + s[k] /\ f[k] = f[k - 1] + s[k]
      BY <1>3, <1>7
    <3>2. f[k] = step[<<f[k - 1], k>>]
      <4> HIDE DEF step
      <4> QED BY <1>2 DEF TakesSteps
    <3> HIDE DEF step
    <3> QED BY <3>1, <3>2
  <2> HIDE DEF step, S
  <2> QED BY <1>0, <1>2, <2>1, SameSteps
<1>9. SumSeq(s) = u[m]
  BY <1>0, <1>5 DEF SumSeq
<1>10. u = [n \in 0 .. m |-> u[n]]
  <2> DEFINE h == [n \in 0 .. m |-> IF n = 0 THEN 0 ELSE u[n - 1] + s[n]]
  <2>1. u = h
    BY <1>0, <1>6
  <2>2. h = [n \in 0 .. m |-> h[n]]
    OBVIOUS
  <2> HIDE DEF h
  <2> QED BY <2>1, <2>2
<1> HIDE DEF rec, step
<1>11. u \in [0 .. m -> Int]
  <2>1. \A k \in 0 .. m : u[k] \in Int
    BY <1>3, <1>8
  <2> QED BY <1>10, <2>1
<1> QED BY <1>0, <1>7, <1>9, <1>11

\* What is won less what is lost is the sum of the trades.
LEMMA SumsSplit ==
  ASSUME NEW s \in Seq(Int)
  PROVE  /\ SumSeq(s) \in Int /\ SumSeq(Wins(s)) \in Int /\ SumSeq(Losses(s)) \in Int
         /\ SumSeq(s) = SumSeq(Wins(s)) - SumSeq(Losses(s))
         /\ (\E i \in DOMAIN s : s[i] < 0) => SumSeq(Losses(s)) > 0
<1>0. PICK m \in Nat : m = Len(s) /\ DOMAIN s = 1 .. m /\ \A k \in 1 .. m : s[k] \in Int
  OBVIOUS
<1>1. PICK w \in Seq(Int) : w = Wins(s) /\ Len(w) = m
               /\ \A k \in 1 .. m : w[k] = IF s[k] > 0 THEN s[k] ELSE 0
  <2>1. Wins(s) \in [1 .. m -> Int] /\ \A k \in 1 .. m : Wins(s)[k] = IF s[k] > 0 THEN s[k] ELSE 0
    BY <1>0 DEF Wins
  <2>2. Wins(s) \in Seq(Int)
    BY <1>0, <2>1
  <2> QED BY <1>0, <2>1, <2>2
<1>2. PICK l \in Seq(Int) : l = Losses(s) /\ Len(l) = m
               /\ \A k \in 1 .. m : l[k] = IF s[k] > 0 THEN 0 ELSE -s[k]
  <2>1. \A k \in 1 .. m : (IF s[k] > 0 THEN 0 ELSE -s[k]) \in Int
    BY <1>0
  <2>2. Losses(s) = [i \in 1 .. m |-> IF s[i] > 0 THEN 0 ELSE -s[i]]
    BY <1>0 DEF Losses
  <2>3. PICK t : t = Losses(s)
    OBVIOUS
  <2>4. t \in [1 .. m -> Int] /\ \A k \in 1 .. m : t[k] = IF s[k] > 0 THEN 0 ELSE -s[k]
    BY <2>1, <2>2, <2>3
  <2>5. t \in Seq(Int) /\ Len(t) = m
    BY <1>0, <2>4
  <2> QED BY <2>3, <2>4, <2>5
<1>3. PICK a \in [0 .. m -> Int] : a[0] = 0 /\ (\A k \in 1 .. m : a[k] = a[k - 1] + s[k]) /\ SumSeq(s) = a[m]
  BY <1>0, Totals
<1>4. PICK b \in [0 .. m -> Int] : b[0] = 0 /\ (\A k \in 1 .. m : b[k] = b[k - 1] + w[k]) /\ SumSeq(w) = b[m]
  BY <1>1, Totals
<1>5. PICK c \in [0 .. m -> Int] : c[0] = 0 /\ (\A k \in 1 .. m : c[k] = c[k - 1] + l[k]) /\ SumSeq(l) = c[m]
  BY <1>2, Totals
<1> DEFINE Right(k) == a[k] = b[k] - c[k] /\ c[k] >= 0 /\ ((\E i \in 1 .. k : s[i] < 0) => c[k] > 0)
           Bad == {k \in 0 .. m : ~Right(k)}
<1>6. ASSUME NEW k \in 1 .. m, Right(k - 1) PROVE Right(k)
  <2>1. k \in 0 .. m /\ k - 1 \in 0 .. m
    OBVIOUS
  <2>2. PICK a0 \in Int, b0 \in Int, c0 \in Int, x \in Int :
          a0 = a[k - 1] /\ b0 = b[k - 1] /\ c0 = c[k - 1] /\ x = s[k]
    BY <1>0, <1>3, <1>4, <1>5, <2>1
  <2>3. a[k] = a0 + x /\ b[k] = b0 + (IF x > 0 THEN x ELSE 0) /\ c[k] = c0 + (IF x > 0 THEN 0 ELSE -x)
    BY <1>1, <1>2, <1>3, <1>4, <1>5, <2>2
  <2>4. a0 = b0 - c0 /\ c0 >= 0
    BY <1>6, <2>2
  <2>5. (\E i \in 1 .. k : s[i] < 0) => c[k] > 0
    <3> SUFFICES ASSUME NEW i \in 1 .. k, s[i] < 0 PROVE c[k] > 0
      OBVIOUS
    <3>1. CASE i = k
      <4>1. x < 0
        BY <2>2, <3>1
      <4> QED BY <2>3, <2>4, <4>1
    <3>2. CASE i # k
      <4>1. i \in 1 .. k - 1
        BY <3>2
      <4>2. c0 > 0
        BY <1>6, <2>2, <4>1
      <4> QED BY <2>3, <4>2
    <3> QED BY <3>1, <3>2
  <2>6. a[k] = b[k] - c[k] /\ c[k] >= 0
    BY <2>3, <2>4
  <2> QED BY <2>5, <2>6
<1>7. Right(0)
  BY <1>3, <1>4, <1>5
<1>8. Right(m)
  <2>1. SUFFICES ASSUME Bad # {} PROVE FALSE
    <3>1. m \in 0 .. m
      BY <1>0
    <3> HIDE DEF Right
    <3> QED BY <3>1
  <2>2. PICK k \in Bad : k \in Nat /\ (k # 0 => (k - 1 \in Nat /\ k - 1 \notin Bad))
    <3>1. Bad \subseteq Nat
      OBVIOUS
    <3> HIDE DEF Bad
    <3> QED BY <2>1, <3>1, LeastBad
  <2> HIDE DEF Right
  <2>3. k # 0
    BY <1>7, <2>2
  <2>4. k \in 1 .. m /\ Right(k - 1) /\ ~Right(k)
    BY <2>2, <2>3
  <2> QED BY <1>6, <2>4
<1>9. m \in 0 .. m
  BY <1>0
<1>10. a[m] \in Int /\ b[m] \in Int /\ c[m] \in Int
  BY <1>3, <1>4, <1>5, <1>9
<1> QED BY <1>0, <1>1, <1>2, <1>3, <1>4, <1>5, <1>8, <1>10

\* The profit factor exceeds one when more was won than lost.
LEMMA FactorRight ==
  ASSUME NEW s \in Seq(Int), \E i \in DOMAIN s : s[i] < 0
  PROVE  (ProfitFactor(s)[1] > ProfitFactor(s)[2]) = (SumSeq(s) > 0)
<1>1. PICK t \in Int, w \in Int, l \in Int : t = SumSeq(s) /\ w = SumSeq(Wins(s)) /\ l = SumSeq(Losses(s))
  BY SumsSplit
<1>2. t = w - l /\ l > 0
  BY <1>1, SumsSplit
<1>3. ProfitFactor(s) = <<w, l>>
  BY <1>1, <1>2 DEF ProfitFactor
<1> QED BY <1>1, <1>2, <1>3

\* The trade k counts for the streaks asked for.
Counts(s, win, k) == (s[k] > 0) = win

\* How many trades before and with each one count, and the most that did.
CurrentOf(s, win, m) ==
  CHOOSE v : v = [n \in 0 .. m |-> IF n > 0 /\ Counts(s, win, n) THEN v[n - 1] + 1 ELSE 0]
MostOf(c, m) ==
  CHOOSE v : v = [n \in 0 .. m |-> IF n = 0 THEN 0 ELSE IF c[n] > v[n - 1] THEN c[n] ELSE v[n - 1]]

\* How many trades before and with the last one count.
LEMMA CurrentStreaks ==
  ASSUME NEW s, NEW win, NEW m \in Nat,
         NEW u, u = CurrentOf(s, win, m)
  PROVE  u \in [0 .. m -> Nat] /\ u[0] = 0
         /\ \A k \in 1 .. m : u[k] = IF Counts(s, win, k) THEN u[k - 1] + 1 ELSE 0
<1> DEFINE rec(v) == v = [n \in 0 .. m |-> IF n > 0 /\ Counts(s, win, n) THEN v[n - 1] + 1 ELSE 0]
           S == Nat
           step == [x \in S \X (1 .. m) |-> IF Counts(s, win, x[2]) THEN x[1] + 1 ELSE 0]
<1>2. PICK f : TakesSteps(f, S, m, 0, step)
  <2>1. 0 \in S /\ step \in [S \X (1 .. m) -> S]
    OBVIOUS
  <2> HIDE DEF step, S
  <2> QED BY <2>1, StepsExist
<1>3. f \in [0 .. m -> Nat] /\ f[0] = 0 /\ \A k \in 1 .. m : f[k] = IF Counts(s, win, k) THEN f[k - 1] + 1 ELSE 0
  <2>1. f \in [0 .. m -> Nat] /\ f[0] = 0 /\ \A k \in 1 .. m : f[k] = step[<<f[k - 1], k>>]
    <3> HIDE DEF step
    <3> QED BY <1>2 DEF TakesSteps
  <2>2. ASSUME NEW k \in 1 .. m PROVE f[k] = IF Counts(s, win, k) THEN f[k - 1] + 1 ELSE 0
    <3>1. f[k - 1] \in Nat
      BY <2>1
    <3>2. PICK g \in Nat : g = f[k - 1]
      BY <3>1
    <3>3. step[<<g, k>>] = IF Counts(s, win, k) THEN g + 1 ELSE 0
      OBVIOUS
    <3> HIDE DEF step
    <3> QED BY <2>1, <3>2, <3>3
  <2> QED BY <2>1, <2>2
<1>4. rec(f)
  <2>1. \A k \in 0 .. m : f[k] = IF k > 0 /\ Counts(s, win, k) THEN f[k - 1] + 1 ELSE 0
    <3>1. \A k \in 0 .. m : k = 0 \/ (k \in 1 .. m /\ k > 0)
      OBVIOUS
    <3> QED BY <1>3, <3>1
  <2>2. f = [k \in 0 .. m |-> f[k]]
    BY <1>3
  <2> QED BY <2>1, <2>2
<1>6. rec(u)
  <2>1. u = CHOOSE v : rec(v)
    BY DEF CurrentOf
  <2> HIDE DEF rec
  <2> QED BY <1>4, <2>1
<1> DEFINE h == [n \in 0 .. m |-> IF n > 0 /\ Counts(s, win, n) THEN u[n - 1] + 1 ELSE 0]
<1>7. u = h
  BY <1>6
<1>8. h[0] = 0 /\ (\A k \in 1 .. m : h[k] = IF Counts(s, win, k) THEN u[k - 1] + 1 ELSE 0)
      /\ h = [n \in 0 .. m |-> h[n]]
  OBVIOUS
<1> HIDE DEF h, rec
<1>9. Retraces(u, f, m, step)
  <2> SUFFICES ASSUME NEW k \in 1 .. m, u[k - 1] = f[k - 1] PROVE u[k] = step[<<f[k - 1], k>>]
    <3>1. u[0] = f[0]
      BY <1>3, <1>7, <1>8
    <3> HIDE DEF step
    <3> QED BY <3>1 DEF Retraces
  <2>1. u[k] = f[k]
    BY <1>3, <1>7, <1>8
  <2>2. f[k] = step[<<f[k - 1], k>>]
    <3> HIDE DEF step
    <3> QED BY <1>2 DEF TakesSteps
  <2> HIDE DEF step
  <2> QED BY <2>1, <2>2
<1>10. \A k \in 0 .. m : u[k] = f[k]
  <2> HIDE DEF step, S
  <2> QED BY <1>2, <1>9, SameSteps
<1>11. u \in [0 .. m -> Nat]
  <2>1. \A k \in 0 .. m : u[k] \in Nat
    BY <1>3, <1>10
  <2> QED BY <1>7, <1>8, <2>1
<1> QED BY <1>7, <1>8, <1>11

\* The most a sequence of numbers reaches.
LEMMA MostReached ==
  ASSUME NEW m \in Nat, NEW c, \A k \in 0 .. m : c[k] \in Nat,
         NEW u, u = MostOf(c, m)
  PROVE  u \in [0 .. m -> Nat] /\ u[0] = 0
         /\ \A k \in 1 .. m : u[k] = IF c[k] > u[k - 1] THEN c[k] ELSE u[k - 1]
<1> DEFINE rec(v) == v = [n \in 0 .. m |-> IF n = 0 THEN 0 ELSE IF c[n] > v[n - 1] THEN c[n] ELSE v[n - 1]]
           S == Nat
           step == [x \in S \X (1 .. m) |-> IF c[x[2]] > x[1] THEN c[x[2]] ELSE x[1]]
<1>1. \A k \in 1 .. m : c[k] \in Nat
  OBVIOUS
<1>2. PICK f : TakesSteps(f, S, m, 0, step)
  <2>1. 0 \in S /\ step \in [S \X (1 .. m) -> S]
    BY <1>1
  <2> HIDE DEF step, S
  <2> QED BY <2>1, StepsExist
<1>3. f \in [0 .. m -> Nat] /\ f[0] = 0 /\ \A k \in 1 .. m : f[k] = IF c[k] > f[k - 1] THEN c[k] ELSE f[k - 1]
  <2>1. f \in [0 .. m -> Nat] /\ f[0] = 0 /\ \A k \in 1 .. m : f[k] = step[<<f[k - 1], k>>]
    <3> HIDE DEF step
    <3> QED BY <1>2 DEF TakesSteps
  <2>2. ASSUME NEW k \in 1 .. m PROVE f[k] = IF c[k] > f[k - 1] THEN c[k] ELSE f[k - 1]
    <3>1. f[k - 1] \in Nat
      BY <2>1
    <3>2. PICK g \in Nat : g = f[k - 1]
      BY <3>1
    <3>3. step[<<g, k>>] = IF c[k] > g THEN c[k] ELSE g
      OBVIOUS
    <3> HIDE DEF step
    <3> QED BY <2>1, <3>2, <3>3
  <2> QED BY <2>1, <2>2
<1>4. rec(f)
  <2>1. \A k \in 0 .. m : f[k] = IF k = 0 THEN 0 ELSE IF c[k] > f[k - 1] THEN c[k] ELSE f[k - 1]
    <3>1. \A k \in 0 .. m : k = 0 \/ (k \in 1 .. m /\ k # 0)
      OBVIOUS
    <3> QED BY <1>3, <3>1
  <2>2. f = [k \in 0 .. m |-> f[k]]
    BY <1>3
  <2> QED BY <2>1, <2>2
<1>6. rec(u)
  <2>1. u = CHOOSE v : rec(v)
    BY DEF MostOf
  <2> HIDE DEF rec
  <2> QED BY <1>4, <2>1
<1> DEFINE h == [n \in 0 .. m |-> IF n = 0 THEN 0 ELSE IF c[n] > u[n - 1] THEN c[n] ELSE u[n - 1]]
<1>7. u = h
  BY <1>6
<1>8. h[0] = 0 /\ (\A k \in 1 .. m : h[k] = IF c[k] > u[k - 1] THEN c[k] ELSE u[k - 1])
      /\ h = [n \in 0 .. m |-> h[n]]
  OBVIOUS
<1> HIDE DEF h, rec
<1>9. Retraces(u, f, m, step)
  <2> SUFFICES ASSUME NEW k \in 1 .. m, u[k - 1] = f[k - 1] PROVE u[k] = step[<<f[k - 1], k>>]
    <3>1. u[0] = f[0]
      BY <1>3, <1>7, <1>8
    <3> HIDE DEF step
    <3> QED BY <3>1 DEF Retraces
  <2>1. u[k] = f[k]
    BY <1>3, <1>7, <1>8
  <2>2. f[k] = step[<<f[k - 1], k>>]
    <3> HIDE DEF step
    <3> QED BY <1>2 DEF TakesSteps
  <2> HIDE DEF step
  <2> QED BY <2>1, <2>2
<1>10. \A k \in 0 .. m : u[k] = f[k]
  <2>1. \E T, x, g : TakesSteps(f, T, m, x, g) /\ Retraces(u, f, m, g)
    <3> HIDE DEF step, S
    <3> QED BY <1>2, <1>9
  <2>2. PICK T, x, g : TakesSteps(f, T, m, x, g) /\ Retraces(u, f, m, g)
    BY <2>1
  <2> QED BY <2>2, SameSteps
<1>11. u \in [0 .. m -> Nat]
  <2>1. \A k \in 0 .. m : u[k] \in Nat
    BY <1>3, <1>10
  <2> QED BY <1>7, <1>8, <2>1
<1> QED BY <1>7, <1>8, <1>11

\* The longest streak of the report is the longest run of trades.
LEMMA StreaksRight ==
  ASSUME NEW s \in Seq(Int), NEW win \in BOOLEAN
  PROVE  IsLongestRun(MaxConsecutive(s, win), s, win)
<1>0. PICK m \in Nat : m = Len(s) /\ DOMAIN s = 1 .. m
  OBVIOUS
<1>1. PICK c : c = CurrentOf(s, win, m)
  OBVIOUS
<1>2. PICK t : t = MostOf(c, m)
  OBVIOUS
<1>3. MaxConsecutive(s, win) = t[m]
  BY <1>0, <1>1, <1>2 DEF MaxConsecutive, Counts, CurrentOf, MostOf
<1>4. c \in [0 .. m -> Nat] /\ c[0] = 0 /\ \A k \in 1 .. m : c[k] = IF Counts(s, win, k) THEN c[k - 1] + 1 ELSE 0
  BY <1>1, CurrentStreaks
<1>5. t \in [0 .. m -> Nat] /\ t[0] = 0 /\ \A k \in 1 .. m : t[k] = IF c[k] > t[k - 1] THEN c[k] ELSE t[k - 1]
  BY <1>2, <1>4, MostReached
<1> DEFINE All(a, b) == \A k \in a .. b : Counts(s, win, k)
           Bound(n) == \A a \in 1 .. n : \A b \in 1 .. n : a <= b /\ All(a, b) => b - a + 1 <= t[n]
           Longest(n) == \A a \in 1 .. n : All(a, n) => n - a + 1 <= c[n]
           There(n) == t[n] = 0 \/ \E a \in 1 .. n : \E b \in 1 .. n : a <= b /\ All(a, b) /\ b - a + 1 = t[n]
           Ends(n) == c[n] <= n /\ All(n - c[n] + 1, n)
           Right(n) == Bound(n) /\ Longest(n) /\ There(n) /\ Ends(n)
           Bad == {n \in 0 .. m : ~Right(n)}
<1>6. Right(0)
  BY <1>4, <1>5
<1>7. ASSUME NEW n \in 1 .. m, Right(n - 1) PROVE Right(n)
  <2>1. n - 1 \in 0 .. m /\ n \in 0 .. m /\ n \in Nat
    OBVIOUS
  <2>2. PICK c0 \in Nat, t0 \in Nat, c1 \in Nat, t1 \in Nat :
          c0 = c[n - 1] /\ t0 = t[n - 1] /\ c1 = c[n] /\ t1 = t[n]
    BY <1>4, <1>5, <2>1
  <2>3. c1 = (IF Counts(s, win, n) THEN c0 + 1 ELSE 0) /\ t1 = (IF c1 > t0 THEN c1 ELSE t0)
    BY <1>4, <1>5, <2>2
  <2>4. Bound(n - 1) /\ Longest(n - 1) /\ There(n - 1) /\ Ends(n - 1)
    BY <1>7
  <2>5. t1 >= t0 /\ t1 >= c1
    BY <2>3
  <2>6. Longest(n)
    <3> SUFFICES ASSUME NEW a \in 1 .. n, All(a, n) PROVE n - a + 1 <= c1
      BY <2>2
    <3>1. Counts(s, win, n) /\ c1 = c0 + 1
      BY <2>3
    <3>2. CASE a = n
      BY <3>1, <3>2
    <3>3. CASE a # n
      <4>1. a \in 1 .. n - 1 /\ \A k \in a .. n - 1 : k \in a .. n
        BY <3>3
      <4>2. n - 1 - a + 1 <= c0
        BY <2>2, <2>4, <4>1
      <4> QED BY <3>1, <4>2
    <3> QED BY <3>2, <3>3
  <2>7. Bound(n)
    <3> SUFFICES ASSUME NEW a \in 1 .. n, NEW b \in 1 .. n, a <= b, All(a, b) PROVE b - a + 1 <= t1
      BY <2>2
    <3>1. CASE b = n
      <4>1. n - a + 1 <= c1
        BY <2>2, <2>6, <3>1
      <4> QED BY <2>5, <3>1, <4>1
    <3>2. CASE b # n
      <4>1. a \in 1 .. n - 1 /\ b \in 1 .. n - 1
        BY <3>2
      <4>2. b - a + 1 <= t0
        BY <2>2, <2>4, <4>1
      <4> QED BY <2>5, <4>2
    <3> QED BY <3>1, <3>2
  <2>8. Ends(n)
    <3>1. CASE ~Counts(s, win, n)
      <4>1. c1 = 0
        BY <2>3, <3>1
      <4> QED BY <2>2, <4>1
    <3>2. CASE Counts(s, win, n)
      <4>1. c1 = c0 + 1 /\ c0 <= n - 1
        BY <2>2, <2>3, <2>4, <3>2
      <4>2. \A k \in n - c1 + 1 .. n : k = n \/ k \in n - 1 - c0 + 1 .. n - 1
        BY <4>1
      <4>3. \A k \in n - 1 - c0 + 1 .. n - 1 : Counts(s, win, k)
        BY <2>2, <2>4
      <4>4. All(n - c1 + 1, n)
        BY <3>2, <4>2, <4>3
      <4> HIDE DEF All
      <4> QED BY <2>2, <4>1, <4>4
    <3> QED BY <3>1, <3>2
  <2>9. There(n)
    <3>1. CASE c1 > t0
      <4>1. t1 = c1 /\ c1 <= n /\ c1 >= 1 /\ All(n - c1 + 1, n)
        <5>1. All(n - c1 + 1, n) /\ c1 <= n
          BY <2>2, <2>8
        <5> QED BY <2>3, <3>1, <5>1
      <4>2. PICK a \in Int : a = n - c1 + 1
        OBVIOUS
      <4>3. a \in 1 .. n /\ n \in 1 .. n /\ a <= n /\ n - a + 1 = t1 /\ All(a, n)
        BY <4>1, <4>2
      <4> HIDE DEF All
      <4> QED BY <2>2, <4>3
    <3>2. CASE ~(c1 > t0)
      <4>1. t1 = t0
        BY <2>3, <3>2
      <4> HIDE DEF All
      <4>2. \A a \in 1 .. n - 1 : a \in 1 .. n
        OBVIOUS
      <4> QED BY <2>2, <2>4, <4>1, <4>2
    <3> QED BY <3>1, <3>2
  <2> QED BY <2>6, <2>7, <2>8, <2>9
<1>8. Right(m)
  <2>1. SUFFICES ASSUME Bad # {} PROVE FALSE
    <3>1. m \in 0 .. m
      BY <1>0
    <3> HIDE DEF Right
    <3> QED BY <3>1
  <2>2. PICK k \in Bad : k \in Nat /\ (k # 0 => (k - 1 \in Nat /\ k - 1 \notin Bad))
    <3>1. Bad \subseteq Nat
      OBVIOUS
    <3> HIDE DEF Bad
    <3> QED BY <2>1, <3>1, LeastBad
  <2> HIDE DEF Right
  <2>3. k # 0
    BY <1>6, <2>2
  <2>4. k \in 1 .. m /\ Right(k - 1) /\ ~Right(k)
    BY <2>2, <2>3
  <2> QED BY <1>7, <2>4
<1>9. ASSUME NEW a \in 1 .. m, NEW b \in 1 .. m PROVE IsRun(s, win, a, b) <=> a <= b /\ All(a, b)
  BY DEF IsRun, Counts
<1>10. Bound(m) /\ There(m)
  BY <1>8
<1> HIDE DEF All
<1> QED BY <1>0, <1>3, <1>9, <1>10 DEF IsLongestRun

\* What the loop of the drawdown keeps from bar to bar.
Drawdowns == [peak : Int, worst : Int \X Int, length : Int, down : BOOLEAN, since : Int]

\* What a bar makes of the peak and of the worst drawdown.
LEMMA DrawdownGoes ==
  ASSUME NEW d \in Drawdowns, NEW n \in Int, NEW x \in Int
  PROVE  LET e == DrawdownStep(d, [at |-> n, val |-> x])
         IN /\ e \in Drawdowns
            /\ e.peak = IF x >= d.peak THEN x ELSE d.peak
            /\ e.worst = IF x < d.peak /\ d.peak > 0 THEN Larger(d.worst, <<d.peak - x, d.peak>>) ELSE d.worst
<1>1. PICK p \in Int, w \in Int \X Int, l \in Int, b \in BOOLEAN, s \in Int :
        d = [peak |-> p, worst |-> w, length |-> l, down |-> b, since |-> s]
  BY DEF Drawdowns
<1>2. PICK r : r = Larger(w, <<p - x, p>>)
  OBVIOUS
<1>3. r \in Int \X Int
  BY <1>2 DEF Larger
<1>4. PICK e : e = DrawdownStep(d, [at |-> n, val |-> x])
  OBVIOUS
<1>5. CASE x >= p
  <2>1. PICK k \in Int : k = IF b /\ n - s > l THEN n - s ELSE l
    OBVIOUS
  <2>2. e = [peak |-> x, worst |-> w, length |-> k, down |-> FALSE, since |-> s]
    BY <1>1, <1>4, <1>5, <2>1 DEF DrawdownStep
  <2>3. e \in Drawdowns
    BY <2>2 DEF Drawdowns
  <2> QED BY <1>1, <1>4, <1>5, <2>2, <2>3
<1>6. CASE ~(x >= p)
  <2>1. PICK k \in Int : k = IF b THEN s ELSE n
    OBVIOUS
  <2>2. PICK v \in Int \X Int : v = IF p > 0 THEN r ELSE w
    BY <1>3
  <2>3. e = [peak |-> p, worst |-> v, length |-> l, down |-> TRUE, since |-> k]
    BY <1>1, <1>2, <1>4, <1>6, <2>1, <2>2 DEF DrawdownStep
  <2>4. e \in Drawdowns
    BY <2>3 DEF Drawdowns
  <2>5. e.peak = d.peak
    BY <1>1, <2>3
  <2>6. e.worst = IF x < d.peak /\ d.peak > 0 THEN Larger(d.worst, <<d.peak - x, d.peak>>) ELSE d.worst
    BY <1>1, <1>2, <1>6, <2>2, <2>3
  <2> QED BY <1>1, <1>4, <1>6, <2>4, <2>5, <2>6
<1> QED BY <1>5, <1>6

DrawdownStart(x) == [peak |-> x, worst |-> <<0, 1>>, length |-> 0, down |-> FALSE, since |-> 0]

\* What the loop keeps after each bar.
DrawdownsOf(points, m) ==
  CHOOSE v : v = [n \in 0 .. m |-> IF n = 0 THEN DrawdownStart(points[1])
                                   ELSE DrawdownStep(v[n - 1], [at |-> n - 1, val |-> points[n]])]

LEMMA DrawdownSteps ==
  ASSUME NEW points, NEW m \in Nat \ {0}, \A k \in 1 .. m : points[k] \in Int,
         NEW u, u = DrawdownsOf(points, m)
  PROVE  u \in [0 .. m -> Drawdowns] /\ u[0] = DrawdownStart(points[1])
         /\ \A k \in 1 .. m : u[k] = DrawdownStep(u[k - 1], [at |-> k - 1, val |-> points[k]])
<1> DEFINE rec(v) == v = [n \in 0 .. m |-> IF n = 0 THEN DrawdownStart(points[1])
                                   ELSE DrawdownStep(v[n - 1], [at |-> n - 1, val |-> points[n]])]
           S == Drawdowns
           step == [x \in S \X (1 .. m) |-> DrawdownStep(x[1], [at |-> x[2] - 1, val |-> points[x[2]]])]
           start == DrawdownStart(points[1])
<1>1. \A d \in S : \A k \in 1 .. m : DrawdownStep(d, [at |-> k - 1, val |-> points[k]]) \in S
  <2> SUFFICES ASSUME NEW d \in S, NEW k \in 1 .. m
               PROVE  DrawdownStep(d, [at |-> k - 1, val |-> points[k]]) \in S
    OBVIOUS
  <2>1. PICK n \in Int, x \in Int : n = k - 1 /\ x = points[k]
    OBVIOUS
  <2>2. DrawdownStep(d, [at |-> n, val |-> x]) \in S
    BY DrawdownGoes
  <2> QED BY <2>1, <2>2
<1>2. PICK f : TakesSteps(f, S, m, start, step)
  <2>1. start \in S
    <3>1. points[1] \in Int /\ <<0, 1>> \in Int \X Int
      OBVIOUS
    <3> QED BY <3>1 DEF DrawdownStart, Drawdowns
  <2>2. step \in [S \X (1 .. m) -> S]
    <3> HIDE DEF S
    <3> QED BY <1>1
  <2> HIDE DEF step, S, start
  <2> QED BY <2>1, <2>2, StepsExist
<1> HIDE DEF start
<1>3. f \in [0 .. m -> S] /\ f[0] = start
      /\ \A k \in 1 .. m : f[k] = DrawdownStep(f[k - 1], [at |-> k - 1, val |-> points[k]])
  <2>1. f \in [0 .. m -> S] /\ f[0] = start /\ \A k \in 1 .. m : f[k] = step[<<f[k - 1], k>>]
    <3> HIDE DEF step, S
    <3> QED BY <1>2 DEF TakesSteps
  <2>2. ASSUME NEW k \in 1 .. m PROVE f[k] = DrawdownStep(f[k - 1], [at |-> k - 1, val |-> points[k]])
    <3>1. f[k - 1] \in S
      BY <2>1
    <3>2. PICK g \in S : g = f[k - 1]
      BY <3>1
    <3>3. step[<<g, k>>] = DrawdownStep(g, [at |-> k - 1, val |-> points[k]])
      <4> HIDE DEF S
      <4> QED OBVIOUS
    <3> HIDE DEF step
    <3> QED BY <2>1, <3>2, <3>3
  <2> QED BY <2>1, <2>2
<1>4. rec(f)
  <2>1. \A k \in 0 .. m : f[k] = IF k = 0 THEN start
                                 ELSE DrawdownStep(f[k - 1], [at |-> k - 1, val |-> points[k]])
    <3>1. \A k \in 0 .. m : k = 0 \/ (k \in 1 .. m /\ k # 0)
      OBVIOUS
    <3> QED BY <1>3, <3>1
  <2>2. f = [k \in 0 .. m |-> f[k]]
    BY <1>3
  <2> QED BY <2>1, <2>2 DEF start
<1>6. rec(u)
  <2>1. u = CHOOSE v : rec(v)
    BY DEF DrawdownsOf
  <2> HIDE DEF rec
  <2> QED BY <1>4, <2>1
<1> DEFINE h == [n \in 0 .. m |-> IF n = 0 THEN start
                                  ELSE DrawdownStep(u[n - 1], [at |-> n - 1, val |-> points[n]])]
<1>7. u = h
  BY <1>6 DEF start
<1>8. h[0] = start /\ (\A k \in 1 .. m : h[k] = DrawdownStep(u[k - 1], [at |-> k - 1, val |-> points[k]]))
      /\ h = [n \in 0 .. m |-> h[n]]
  OBVIOUS
<1> HIDE DEF h, rec
<1>9. Retraces(u, f, m, step)
  <2> SUFFICES ASSUME NEW k \in 1 .. m, u[k - 1] = f[k - 1] PROVE u[k] = step[<<f[k - 1], k>>]
    <3>1. u[0] = f[0]
      BY <1>3, <1>7, <1>8
    <3> HIDE DEF step
    <3> QED BY <3>1 DEF Retraces
  <2>1. u[k] = f[k]
    BY <1>3, <1>7, <1>8
  <2>2. f[k] = step[<<f[k - 1], k>>]
    <3> HIDE DEF step, S
    <3> QED BY <1>2 DEF TakesSteps
  <2> HIDE DEF step
  <2> QED BY <2>1, <2>2
<1>10. \A k \in 0 .. m : u[k] = f[k]
  <2>1. \E T, x, g : TakesSteps(f, T, m, x, g) /\ Retraces(u, f, m, g)
    <3> HIDE DEF step, S
    <3> QED BY <1>2, <1>9
  <2>2. PICK T, x, g : TakesSteps(f, T, m, x, g) /\ Retraces(u, f, m, g)
    BY <2>1
  <2> QED BY <2>2, SameSteps
<1>11. u \in [0 .. m -> S]
  <2>1. \A k \in 0 .. m : u[k] \in S
    <3> HIDE DEF S
    <3> QED BY <1>3, <1>10
  <2> HIDE DEF S
  <2> QED BY <1>7, <1>8, <2>1
<1> QED BY <1>7, <1>8, <1>11 DEF start

LEMMA TimesKeeps ==
  ASSUME NEW a \in Int, NEW b \in Int, NEW c \in Nat PROVE (a <= b => a * c <= b * c) /\ (a < b /\ c > 0 => a * c < b * c)
OBVIOUS

\* A share that is not above another is not above a larger one.
LEMMA SharesOrdered ==
  ASSUME NEW a \in Int, NEW b \in Nat \ {0}, NEW c \in Int, NEW d \in Nat \ {0}, NEW e \in Int, NEW f \in Nat \ {0},
         a * d <= c * b, c * f <= e * d
  PROVE  a * f <= e * b
<1>1. (a * d) * f <= (c * b) * f
  BY TimesKeeps
<1>2. (c * f) * b <= (e * d) * b
  BY TimesKeeps
<1>3. (a * f) * d <= (e * b) * d
  <2>1. (a * d) * f = (a * f) * d /\ (c * b) * f = (c * f) * b /\ (e * d) * b = (e * b) * d
    OBVIOUS
  <2> QED BY <1>1, <1>2, <2>1
<1>4. PICK g \in Int, h \in Int : g = a * f /\ h = e * b
  OBVIOUS
<1>5. ~(h < g)
  BY <1>3, <1>4, TimesKeeps
<1> QED BY <1>4, <1>5

\* What fell from a lower bar fell by no larger share.
LEMMA PeakFallsMost ==
  ASSUME NEW p \in Nat, NEW q \in Nat, NEW x \in Nat, p <= q
  PROVE  (p - x) * q <= (q - x) * p
<1>1. p * x <= q * x
  BY TimesKeeps
<1>2. (p - x) * q = p * q - q * x /\ (q - x) * p = p * q - p * x
  OBVIOUS
<1>3. PICK a \in Int, b \in Int, c \in Int : a = p * q /\ b = q * x /\ c = p * x
  OBVIOUS
<1> QED BY <1>1, <1>2, <1>3

\* The worst drawdown w covers the falls of the first n bars, and is one of them.
CoversFalls(s, w, n) ==
  \A i \in 1 .. n : \A j \in 1 .. n : i < j => (s[i] - s[j]) * w[2] <= w[1] * s[i]
IsFall(s, w, n) ==
  w = <<0, 1>> \/ \E i \in 1 .. n : \E j \in 1 .. n : i < j /\ w = <<s[i] - s[j], s[i]>>

\* The peak p is the highest of the first n bars.
IsPeak(s, p, n) ==
  /\ \A i \in 1 .. n : s[i] <= p
  /\ p \in Nat \ {0} /\ \E t \in Nat : p = s[t] /\ t \in 1 .. (IF n = 0 THEN 1 ELSE n)

LEMMA DrawdownRight ==
  ASSUME NEW s \in Seq(Int), s # <<>>, \A i \in DOMAIN s : s[i] > 0
  PROVE  IsWorstFall(MaxDrawdown(s).worst, s)
<1>0. PICK m \in Nat \ {0} : m = Len(s) /\ DOMAIN s = 1 .. m /\ \A k \in 1 .. m : s[k] \in Nat \ {0}
  OBVIOUS
<1>1. PICK u : u = DrawdownsOf(s, m)
  OBVIOUS
<1>2. MaxDrawdown(s).worst = u[m].worst
  BY <1>0, <1>1 DEF MaxDrawdown, DrawdownsOf, DrawdownStart
<1>3. u \in [0 .. m -> Drawdowns] /\ u[0] = DrawdownStart(s[1])
      /\ \A k \in 1 .. m : u[k] = DrawdownStep(u[k - 1], [at |-> k - 1, val |-> s[k]])
  BY <1>0, <1>1, DrawdownSteps
<1> DEFINE Right(n) == /\ u[n].worst[1] >= 0 /\ u[n].worst[2] > 0
                       /\ CoversFalls(s, u[n].worst, n) /\ IsFall(s, u[n].worst, n) /\ IsPeak(s, u[n].peak, n)
           Bad == {n \in 0 .. m : ~Right(n)}
<1>4. Right(0)
  <2>1. u[0].worst = <<0, 1>> /\ u[0].peak = s[1]
    BY <1>3 DEF DrawdownStart
  <2>2. s[1] \in Nat \ {0} /\ 1 \in Nat
    BY <1>0
  <2>3. IsPeak(s, s[1], 0)
    BY <2>2 DEF IsPeak
  <2>4. IsFall(s, <<0, 1>>, 0) /\ CoversFalls(s, <<0, 1>>, 0)
    BY DEF IsFall, CoversFalls
  <2> QED BY <2>1, <2>3, <2>4
<1>5. ASSUME NEW n \in 1 .. m, Right(n - 1) PROVE Right(n)
  <2>1. n - 1 \in 0 .. m /\ n \in Nat /\ n \in Int
    OBVIOUS
  <2>2. PICK d \in Drawdowns : d = u[n - 1]
    BY <1>3, <2>1
  <2>3. PICK x \in Nat \ {0} : x = s[n]
    BY <1>0
  <2>4. PICK p \in Int, a \in Int, b \in Int : p = d.peak /\ d.worst = <<a, b>>
    BY DEF Drawdowns
  <2>5. PICK e : e = u[n]
    OBVIOUS
  <2>6. e.peak = (IF x >= p THEN x ELSE p) /\ e.worst = (IF x < p /\ p > 0 THEN Larger(<<a, b>>, <<p - x, p>>) ELSE <<a, b>>)
    <3>1. PICK k \in Int : k = n - 1
      OBVIOUS
    <3>2. e = DrawdownStep(d, [at |-> k, val |-> x])
      BY <1>3, <2>2, <2>3, <2>5, <3>1
    <3>3. /\ e.peak = IF x >= d.peak THEN x ELSE d.peak
          /\ e.worst = IF x < d.peak /\ d.peak > 0 THEN Larger(d.worst, <<d.peak - x, d.peak>>) ELSE d.worst
      BY <3>2, DrawdownGoes
    <3> QED BY <2>4, <3>3
  <2>7. /\ a >= 0 /\ b > 0 /\ CoversFalls(s, <<a, b>>, n - 1) /\ IsFall(s, <<a, b>>, n - 1)
        /\ IsPeak(s, p, n - 1)
    BY <1>5, <2>2, <2>4
  <2>8. PICK t \in Nat : p = s[t] /\ t \in 1 .. (IF n - 1 = 0 THEN 1 ELSE n - 1)
    BY <2>7 DEF IsPeak
  <2>9. p \in Nat \ {0} /\ \A i \in 1 .. n - 1 : s[i] <= p
    BY <2>7 DEF IsPeak
  <2>10. \A i \in 1 .. n - 1 : \A j \in 1 .. n - 1 : i < j => (s[i] - s[j]) * b <= a * s[i]
    BY <2>7 DEF CoversFalls
  <2>11. \A i \in 1 .. n : s[i] \in Nat \ {0} /\ (i = n \/ i \in 1 .. n - 1)
    BY <1>0
  <2>12. CASE x >= p
    <3>1. e.peak = x /\ e.worst = <<a, b>>
      BY <2>6, <2>12
    <3>2. IsPeak(s, x, n)
      <4>1. \A i \in 1 .. n : s[i] <= x
        BY <2>3, <2>9, <2>11, <2>12
      <4>2. x = s[n] /\ n \in 1 .. (IF n = 0 THEN 1 ELSE n)
        BY <2>3
      <4> QED BY <2>1, <4>1, <4>2 DEF IsPeak
    <3>3. CoversFalls(s, <<a, b>>, n)
      <4> SUFFICES ASSUME NEW i \in 1 .. n, NEW j \in 1 .. n, i < j PROVE (s[i] - s[j]) * b <= a * s[i]
        BY DEF CoversFalls
      <4>1. i \in 1 .. n - 1
        BY <2>11
      <4>2. CASE j = n
        <5>1. PICK v \in Nat \ {0} : v = s[i] /\ v <= x
          BY <2>9, <2>11, <2>12, <4>1
        <5>2. (v - x) * b <= 0 * b
          BY <2>7, <5>1, TimesKeeps
        <5>3. 0 * v <= a * v
          BY <2>7, TimesKeeps
        <5>4. PICK g \in Int, h \in Int : g = (v - x) * b /\ h = a * v
          OBVIOUS
        <5>5. g <= h
          BY <5>2, <5>3, <5>4
        <5> QED BY <2>3, <4>2, <5>1, <5>4, <5>5
      <4>3. CASE j \in 1 .. n - 1
        BY <2>10, <4>1, <4>3
      <4> QED BY <2>11, <4>2, <4>3
    <3>4. IsFall(s, <<a, b>>, n)
      <4>1. \A i \in 1 .. n - 1 : i \in 1 .. n
        OBVIOUS
      <4> QED BY <2>7, <4>1 DEF IsFall
    <3> QED BY <2>5, <2>7, <3>1, <3>2, <3>3, <3>4
  <2>13. CASE ~(x >= p)
    <3>0. x < p /\ p > 0
      BY <2>9, <2>13
    <3>1. t \in 1 .. n - 1 /\ p - x > 0
      <4>1. CASE n - 1 = 0
        <5>1. t = 1 /\ n = 1
          BY <2>8, <4>1
        <5> QED BY <2>3, <2>8, <3>0, <5>1
      <4>2. CASE n - 1 # 0
        BY <2>8, <3>0, <4>2
      <4> QED BY <4>1, <4>2
    <3>2. IsPeak(s, p, n) /\ e.peak = p
      <4>1. \A i \in 1 .. n : s[i] <= p
        BY <2>3, <2>9, <2>11, <3>0
      <4>2. t \in 1 .. (IF n = 0 THEN 1 ELSE n)
        BY <3>1
      <4> QED BY <2>6, <2>8, <2>9, <2>13, <4>1, <4>2 DEF IsPeak
    <3> DEFINE Fits(c, f) == /\ e.worst = <<c, f>> /\ c >= 0
                             /\ a * f <= c * b /\ (p - x) * f <= c * p
                             /\ (c = a /\ f = b) \/ (c = p - x /\ f = p)
    <3>3. PICK c \in Int, f \in Nat \ {0} : Fits(c, f)
      <4>1. e.worst = Larger(<<a, b>>, <<p - x, p>>)
        BY <2>6, <3>0
      <4>2. CASE a * p < (p - x) * b
        <5>1. e.worst = <<p - x, p>>
          BY <4>1, <4>2 DEF Larger, Below
        <5>2. a * p <= (p - x) * b
          <6>1. PICK g \in Int, h \in Int : g = a * p /\ h = (p - x) * b
            OBVIOUS
          <6> QED BY <4>2, <6>1
        <5> QED BY <2>9, <3>1, <5>1, <5>2
      <4>3. CASE ~(a * p < (p - x) * b)
        <5>1. e.worst = <<a, b>>
          BY <4>1, <4>3 DEF Larger, Below
        <5>2. (p - x) * b <= a * p
          <6>1. PICK g \in Int, h \in Int : g = a * p /\ h = (p - x) * b
            OBVIOUS
          <6> QED BY <4>3, <6>1
        <5>3. b \in Nat \ {0} /\ a \in Int /\ a >= 0
          BY <2>7
        <5>4. a * b <= a * b
          <6>1. PICK g \in Int : g = a * b
            OBVIOUS
          <6> QED BY <6>1
        <5>5. Fits(a, b)
          BY <5>1, <5>2, <5>3, <5>4
        <5> HIDE DEF Fits
        <5> QED BY <5>3, <5>5
      <4> QED BY <4>2, <4>3
    <3>4. CoversFalls(s, <<c, f>>, n)
      <4> SUFFICES ASSUME NEW i \in 1 .. n, NEW j \in 1 .. n, i < j PROVE (s[i] - s[j]) * f <= c * s[i]
        BY DEF CoversFalls
      <4>1. i \in 1 .. n - 1
        BY <2>11
      <4>2. PICK v \in Nat \ {0} : v = s[i] /\ v <= p
        BY <2>9, <2>11, <4>1
      <4>3. CASE j = n
        <5>1. (v - x) * p <= (p - x) * v
          BY <2>9, <4>2, PeakFallsMost
        <5>2. PICK g \in Int, h \in Int : g = v - x /\ h = p - x
          OBVIOUS
        <5>3. g * p <= h * v /\ h * f <= c * p
          BY <3>3, <5>1, <5>2
        <5>4. g * f <= c * v
          BY <2>9, <3>3, <4>2, <5>3, SharesOrdered
        <5> QED BY <2>3, <4>2, <4>3, <5>2, <5>4
      <4>4. CASE j \in 1 .. n - 1
        <5>1. PICK g \in Int : g = s[i] - s[j]
          BY <2>11
        <5>2. g * b <= a * v
          BY <2>10, <4>1, <4>2, <4>4, <5>1
        <5>3. b \in Nat \ {0}
          BY <2>7
        <5>4. g * f <= c * v
          BY <3>3, <4>2, <5>2, <5>3, SharesOrdered
        <5> QED BY <4>2, <5>1, <5>4
      <4> QED BY <2>11, <4>3, <4>4
    <3>5. IsFall(s, <<c, f>>, n)
      <4>1. \A i \in 1 .. n - 1 : i \in 1 .. n
        OBVIOUS
      <4>2. CASE c = a /\ f = b
        BY <2>7, <4>1, <4>2 DEF IsFall
      <4>3. CASE c = p - x /\ f = p
        <5>1. t \in 1 .. n /\ n \in 1 .. n /\ t < n
          BY <3>1
        <5>2. <<c, f>> = <<s[t] - s[n], s[t]>>
          BY <2>3, <2>8, <4>3
        <5> QED BY <5>1, <5>2 DEF IsFall
      <4> QED BY <3>3, <4>2, <4>3
    <3> QED BY <2>5, <3>2, <3>3, <3>4, <3>5
  <2> QED BY <2>12, <2>13
<1>6. Right(m)
  <2>1. SUFFICES ASSUME Bad # {} PROVE FALSE
    <3>1. m \in 0 .. m
      BY <1>0
    <3> HIDE DEF Right
    <3> QED BY <3>1
  <2>2. PICK k \in Bad : k \in Nat /\ (k # 0 => (k - 1 \in Nat /\ k - 1 \notin Bad))
    <3>1. Bad \subseteq Nat
      OBVIOUS
    <3> HIDE DEF Bad
    <3> QED BY <2>1, <3>1, LeastBad
  <2> HIDE DEF Right
  <2>3. k # 0
    BY <1>4, <2>2
  <2>4. k \in 1 .. m /\ Right(k - 1) /\ ~Right(k)
    BY <2>2, <2>3
  <2> QED BY <1>5, <2>4
<1>7. PICK w : w = u[m].worst /\ CoversFalls(s, w, m) /\ IsFall(s, w, m)
  BY <1>6
<1>8. PICK a \in Int, b \in Int : w = <<a, b>>
  <2>1. u[m] \in Drawdowns
    BY <1>3
  <2> QED BY <1>7, <2>1 DEF Drawdowns
<1>9. ASSUME NEW i \in DOMAIN s, NEW j \in DOMAIN s, i < j PROVE ~Below(w, Fall(s, i, j))
  <2>1. PICK g \in Int, v \in Int : g = s[i] - s[j] /\ v = s[i]
    BY <1>0
  <2>2. g * b <= a * v
    BY <1>0, <1>7, <1>8, <1>9, <2>1 DEF CoversFalls
  <2>3. Below(w, Fall(s, i, j)) <=> a * v < g * b
    BY <1>8, <2>1 DEF Below, Fall
  <2>4. PICK y \in Int, z \in Int : y = g * b /\ z = a * v
    OBVIOUS
  <2> QED BY <2>2, <2>3, <2>4
<1>10. \/ SameRatio(w, <<0, 1>>)
       \/ \E i \in DOMAIN s : \E j \in DOMAIN s : i < j /\ SameRatio(w, Fall(s, i, j))
  <2>1. CASE w = <<0, 1>>
    BY <2>1 DEF SameRatio
  <2>2. CASE w # <<0, 1>>
    <3>1. PICK i \in 1 .. m, j \in 1 .. m : i < j /\ w = Fall(s, i, j)
      BY <1>7, <2>2 DEF IsFall, Fall
    <3>2. SameRatio(w, Fall(s, i, j))
      BY <3>1 DEF SameRatio
    <3> QED BY <1>0, <3>1, <3>2
  <2> QED BY <2>1, <2>2
<1> QED BY <1>2, <1>7, <1>9, <1>10 DEF IsWorstFall

-----------------------------------------------------------------------------
(* The backtests.                                                          *)

\* The figures of the report are those of the curve and of the trades.
LEMMA FiguresRight == EngineInv => ReportIsRight
<1> SUFFICES ASSUME EngineInv PROVE ReportIsRight
  OBVIOUS
<1>1. profits \in Seq(Int) /\ curve \in Seq(Int) /\ curve # <<>>
  BY DEF EngineInv, AccountInv
<1>2. (\A i \in DOMAIN curve : curve[i] > 0) => IsWorstFall(MaxDrawdown(curve).worst, curve)
  BY <1>1, DrawdownRight
<1>3. \A win \in BOOLEAN : IsLongestRun(MaxConsecutive(profits, win), profits, win)
  BY <1>1, StreaksRight
<1>4. (\E i \in DOMAIN profits : profits[i] < 0)
        => (ProfitFactor(profits)[1] > ProfitFactor(profits)[2]) = (SumSeq(profits) > 0)
  BY <1>1, FactorRight
<1> QED BY <1>2, <1>3, <1>4 DEF ReportIsRight

ReportedInv ==
  /\ part = "matcher"   => RestsInv
  /\ part = "engine"    => EngineInv
  /\ part = "optimizer" => SearchInv
  /\ part = "task"      => TasksInv

\* Backtests report what happened, with any orders, bars, signals, prices,
\* spaces of parameters, failures and polls: an order rests only while no bar has
\* reached its price (Matcher.on_bar), the drawdown, the streaks and the profit
\* factor are those of the curve and of the trades
\* (PerformanceAnalyzer._calc_max_drawdown, _max_consecutive), the results kept
\* of a search are the best of its runs, in order (ParameterOptimizer.optimize),
\* and a task whose end was polled has its report (backtest router).
THEOREM BacktestReportedHolds == Spec => []BacktestReported
<1>1. Init => ReportedInv
  BY RestsStart, EngineStart, SearchStart, TasksStart DEF Init, ReportedInv
<1>2. ReportedInv /\ [Next]_vars => ReportedInv'
  <2> SUFFICES ASSUME ReportedInv, [Next]_vars PROVE ReportedInv'
    OBVIOUS
  <2>1. part' = part
    BY DEF Next, vars
  <2>2. part = "matcher" => [MatcherNext]_matcherVars
    BY DEF Next, vars
  <2>3. part = "engine" => [EngineNext]_engineVars
    BY DEF Next, vars
  <2>4. part = "optimizer" => [OptimizerNext]_optimizerVars
    BY DEF Next, vars
  <2>5. part = "task" => [TasksNext]_taskVars
    BY DEF Next, vars
  <2> QED
    BY <2>1, <2>2, <2>3, <2>4, <2>5, RestsStep, EngineStep, SearchStep, TasksStep DEF ReportedInv
<1>3. ReportedInv => BacktestReported
  BY RestsAgree, FiguresRight, SearchAgrees DEF ReportedInv, TasksInv, BacktestReported
<1> QED
  BY <1>1, <1>2, <1>3, PTL DEF Spec
================================================================================
