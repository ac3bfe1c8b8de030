------------------------- MODULE OrderExposure_proofs -------------------------
(***************************************************************************)
(* What the account holds: a shutdown leaves it flat, and in the first     *)
(* life of a process the ledger knows its position.                        *)
(*                                                                         *)
(* Both are about strategies that open on one side (OneSided): then what   *)
(* is held is what OPEN orders opened and closes have not yet taken, a     *)
(* close of a tag never turns the position round, and the volume of a      *)
(* ledger keeps its direction. OrdersInv says so of the orders and the     *)
(* position; StopInv follows the strategies as _shutdown flattens them one *)
(* by one; Kept ties volume and entries of a ledger to the net.            *)
(***************************************************************************)
EXTENDS OrderPath_proofs

-----------------------------------------------------------------------------
(* One direction: strategies open on one side only.                        *)

\* Every request opens in direction dir or closes against it.
OneSided(dir) == \A r \in Requests : r.offset = "OPEN" <=> r.side = dir

\* The account's position, counted in direction dir.
Lots(dir) == Signed(dir, net)

\* What orders look like, and what the venue made of them: positions are the
\* OPEN orders that filled and were not closed, one lot each.
OrdersInv(dir) ==
  /\ \A o \in Drawn : /\ ord[o].offset = "OPEN" <=> ord[o].side = dir
                      /\ ord[o].offset = "OPEN" => ord[o].qty = 1
                      /\ ord[o].qty > 0
  /\ \A o \in Ids : vst[o] # "filled" => fq[o] = 0
  /\ \A o \in Drawn : fq[o] <= ord[o].qty
  /\ \A o \in held : o \in Drawn /\ ord[o].offset = "OPEN" /\ vst[o] = "filled"
  /\ IF Ticketed THEN Lots(dir) = Cardinality(held) ELSE held = {} /\ Lots(dir) >= 0
  /\ ord = <<>> => net = 0

-----------------------------------------------------------------------------
(* Shutdown.                                                               *)

Flat == held = {} /\ net = 0 /\ OpenAt(Tags) = {}

\* Order o is a close for all there is, alone on its way; once it ended it left
\* the account flat or was cut short.
Closing(dir, o) ==
  /\ ord[o].offset = "CLOSE" /\ wire \subseteq {o} /\ OpenAt(Tags) \subseteq {o}
  /\ vst[o] \in {"none", "open"} => Lots(dir) <= ord[o].qty
  /\ vst[o] \notin {"none", "open"} => Flat \/ fq[o] < ord[o].qty

Ended(dir) == wire = {} /\ (Flat \/ (ord # <<>> /\ Closing(dir, Len(ord))))

\* One strategy flattens at a time, with nothing else on its way.
StopInv(dir) ==
  /\ phase = "stop" =>
       /\ \A t, u \in Tags : pc[t] # "idle" /\ pc[u] # "idle" => t = u
       /\ \A t \in Tags :
            /\ pc[t] # "flatten_own"
            /\ pc[t] = "flatten_all" => OpenAt(Tags) = {} /\ wire = {}
            /\ Calling(t) => cur[t] = Len(ord) /\ Closing(dir, Len(ord))
            /\ pc[t] # "idle" => stopping # Tags
       /\ AllIdle /\ stopping # Tags => Ended(dir)
  /\ phase = "stopped" => Ended(dir)

-----------------------------------------------------------------------------
(* What an execution does to the position.                                 *)

\* Counting a position in a direction keeps zero.
LEMMA SignedZero ==
  ASSUME NEW dir \in Sides, NEW n \in Int
  PROVE  Signed(dir, n) = 0 <=> n = 0
BY DEF Signed

\* The position in direction dir is a number, zero just when the net is.
LEMMA LotsInt ==
  ASSUME TypeInv, NEW dir \in Sides
  PROVE  Lots(dir) \in Int /\ (Lots(dir) = 0 <=> net = 0)
BY DEF Lots, Signed, TypeInv, TypeOK

\* Finitely many positions are held.
LEMMA HeldFinite ==
  ASSUME TypeInv
  PROVE  IsFiniteSet(held) /\ Cardinality(held) \in Nat
<1>1. IsFiniteSet(Ids)
  BY FS_Interval, BoundAssumption DEF Ids
<1> QED BY <1>1, FS_Subset, FS_CardinalityType DEF TypeInv, TypeOK

\* The position never lies against dir.
LEMMA LotsNat ==
  ASSUME TypeInv, NEW dir \in Sides, OrdersInv(dir)
  PROVE  Lots(dir) \in Nat
BY HeldFinite, LotsInt DEF OrdersInv

\* Positions are all in direction dir, so a close may take any of them.
LEMMA AllOpposite ==
  ASSUME TypeInv, NEW dir \in Sides, OrdersInv(dir), NEW o \in Drawn, ord[o].offset = "CLOSE"
  PROVE  ord[o].side # dir /\ ord[o].side \in Sides /\ Opposite(ord[o].side) = held
<1>1. ord[o].side # dir /\ ord[o].side \in Sides
  BY DrawnFacts DEF OrdersInv, TypeInv, OrderRecord
<1>2. \A p \in held : ord[p].side = dir
  BY DEF OrdersInv
<1> QED BY <1>1, <1>2 DEF Opposite

\* An OPEN that executes adds its one lot.
LEMMA OpenExecutes ==
  ASSUME TypeInv, NEW dir \in Sides, OrdersInv(dir), NEW o \in Drawn, ord[o].offset = "OPEN",
         vst[o] # "filled", Execute(o)
  PROVE  /\ vst' = [vst EXCEPT ![o] = "filled"] /\ fq' = [fq EXCEPT ![o] = 1]
         /\ held' = IF Ticketed THEN held \cup {o} ELSE held
         /\ Lots(dir)' = Lots(dir) + 1
         /\ Ticketed => Lots(dir)' = Cardinality(held')
<1>1. ord[o].qty = 1 /\ ord[o].side = dir
  BY DEF OrdersInv
<1>2. /\ vst' = [vst EXCEPT ![o] = "filled"] /\ fq' = [fq EXCEPT ![o] = 1]
      /\ held' = (IF Ticketed THEN held \cup {o} ELSE held) /\ net' = net + Signed(dir, 1)
  BY <1>1 DEF Execute
<1>3. Lots(dir)' = Lots(dir) + 1
  BY <1>2 DEF Lots, Signed, TypeInv, TypeOK
<1>4. o \notin held
  BY DEF OrdersInv
<1>5. Ticketed => Lots(dir)' = Cardinality(held')
  <2>1. Cardinality(held \cup {o}) = Cardinality(held) + 1
    BY <1>4, HeldFinite, FS_AddElement
  <2>2. Ticketed => Lots(dir) = Cardinality(held)
    BY DEF OrdersInv
  <2> QED BY <1>2, <1>3, <2>1, <2>2
<1> QED BY <1>2, <1>3, <1>5

\* A close takes what it executes off the position, and never more than there is.
LEMMA CloseExecutes ==
  ASSUME TypeInv, NEW dir \in Sides, OrdersInv(dir), NEW o \in Drawn, ord[o].offset = "CLOSE",
         Execute(o)
  PROVE  /\ vst' = [vst EXCEPT ![o] = "filled"] /\ held' \subseteq held
         /\ \E k \in Nat :
              /\ k <= ord[o].qty /\ k <= Lots(dir)
              /\ fq' = [fq EXCEPT ![o] = k] /\ Lots(dir)' = Lots(dir) - k
         /\ Ticketed => Lots(dir)' = Cardinality(held')
<1>1. ord[o].side # dir /\ ord[o].side \in Sides /\ Opposite(ord[o].side) = held
  BY AllOpposite
<1>2. Lots(dir) \in Nat /\ net \in Int /\ ord[o].qty \in Nat
  BY LotsNat, DrawnFacts DEF TypeInv, TypeOK, OrderRecord
<1>3. CASE Ticketed
  <2>1. PICK S \in SUBSET held :
          /\ Cardinality(S) <= ord[o].qty
          /\ held' = held \ S /\ fq' = [fq EXCEPT ![o] = Cardinality(S)]
          /\ net' = net + Signed(ord[o].side, Cardinality(S))
    BY <1>1, <1>3 DEF Execute
  <2>2. /\ IsFiniteSet(S) /\ Cardinality(S) \in Nat /\ Cardinality(S) <= Cardinality(held)
        /\ held \cap S = S
    BY HeldFinite, FS_Subset, FS_CardinalityType
  <2>3. Cardinality(held \ S) = Cardinality(held) - Cardinality(S)
    BY <2>2, HeldFinite, FS_Difference
  <2>4. Lots(dir)' = Lots(dir) - Cardinality(S)
    BY <1>1, <1>2, <2>1, <2>2 DEF Lots, Signed, Sides
  <2>5. Lots(dir) = Cardinality(held)
    BY <1>3 DEF OrdersInv
  <2> QED BY <2>1, <2>2, <2>3, <2>4, <2>5 DEF Execute
<1>4. CASE ~Ticketed
  <2> DEFINE k == IF ord[o].qty < Abs(net) THEN ord[o].qty ELSE Abs(net)
  <2>1. /\ Signed(ord[o].side, 1) * net < 0
        /\ fq' = [fq EXCEPT ![o] = k] /\ net' = net + Signed(ord[o].side, k)
        /\ UNCHANGED held
    BY <1>4 DEF Execute
  <2>2. Lots(dir) = Abs(net)
    BY <1>2 DEF Lots, Signed, Abs, Sides
  <2>3. k \in Nat /\ k <= ord[o].qty /\ k <= Lots(dir)
    BY <1>2, <2>2 DEF Abs
  <2> HIDE DEF k
  <2>4. Lots(dir)' = Lots(dir) - k
    BY <1>1, <1>2, <2>1, <2>3 DEF Lots, Signed, Sides
  <2> QED BY <1>4, <2>1, <2>3, <2>4 DEF Execute
<1> QED BY <1>3, <1>4

-----------------------------------------------------------------------------
(* OrdersInv, by what each step changes.                                   *)

\* No step changes a drawn order.
LEMMA OrdersKept ==
  ASSUME TypeInv, NEW dir \in Sides, OrdersInv(dir), UNCHANGED <<ord, fq, held, net>>,
         \A o \in Ids : vst'[o] = "filled" <=> vst[o] = "filled"
  PROVE  OrdersInv(dir)'
<1>1. Drawn' = Drawn /\ Drawn \subseteq Ids /\ Lots(dir)' = Lots(dir)
  BY DrawnFacts DEF Lots, Drawn, TypeInv
<1>2. \A o \in held : o \in Drawn /\ ord[o].offset = "OPEN" /\ vst'[o] = "filled"
  BY <1>1 DEF OrdersInv
<1>3. \A o \in Ids : vst'[o] # "filled" => fq[o] = 0
  BY DEF OrdersInv
<1> QED BY <1>1, <1>2, <1>3 DEF OrdersInv

\* A drawn order keeps to the direction it was asked for.
LEMMA OrdersDraw ==
  ASSUME TypeInv, NEW dir \in Sides, OrdersInv(dir), NEW t \in Tags, NEW side \in Sides,
         NEW offset \in Offsets, NEW kind \in Kinds, NEW qty \in Nat \ {0},
         Draw(t, side, offset, kind, qty), offset = "OPEN" <=> side = dir,
         offset = "OPEN" => qty = 1, UNCHANGED venueVars
  PROVE  OrdersInv(dir)'
<1> DEFINE n == Len(ord) + 1
           r == [tag |-> t, side |-> side, offset |-> offset, kind |-> kind, qty |-> qty]
<1>1. /\ Drawn' = Drawn \cup {n} /\ n \in Ids \ Drawn
      /\ \A o \in Drawn : ord'[o] = ord[o]
  BY DrawStep DEF TypeInv
<1>2. r \in OrderRecord
  BY DEF OrderRecord
<1>3. ord' = Append(ord, r) /\ ord \in Seq(OrderRecord)
  BY DEF Draw, TypeInv, TypeOK
<1>4. ord'[n] = r /\ ord' # <<>>
  BY <1>2, <1>3
<1>5. r.side = side /\ r.offset = offset /\ r.qty = qty
  OBVIOUS
<1> HIDE DEF n, r
<1>6. \A o \in Drawn' :
        /\ ord'[o].offset = "OPEN" <=> ord'[o].side = dir
        /\ ord'[o].offset = "OPEN" => ord'[o].qty = 1
        /\ ord'[o].qty > 0
  BY <1>1, <1>4, <1>5 DEF OrdersInv
<1>7. \A o \in Drawn' : fq'[o] <= ord'[o].qty
  <2>1. vst[n] # "filled"
    BY <1>1 DEF RefsDrawn, TypeInv
  <2>2. fq'[n] = 0 /\ ord'[n].qty \in Nat
    <3>1. fq[n] = 0
      BY <1>1, <2>1 DEF OrdersInv
    <3> QED BY <1>4, <1>5, <3>1 DEF venueVars
  <2>3. \A o \in Drawn : fq'[o] <= ord'[o].qty
    BY <1>1 DEF OrdersInv, venueVars
  <2> QED BY <1>1, <2>2, <2>3
<1> QED BY <1>1, <1>4, <1>6, <1>7 DEF OrdersInv, venueVars, Lots

\* A request opens in direction dir or closes against it.
LEMMA OrdersResolve ==
  ASSUME TypeInv, NEW dir \in Sides, OrdersInv(dir), OneSided(dir), NEW t \in Tags, Resolve(t)
  PROVE  OrdersInv(dir)'
<1>1. PICK r \in Requests, qty \in 1 .. MaxOrders :
        /\ r.offset = "OPEN" => qty = 1
        /\ Draw(t, r.side, r.offset, r.kind, qty)
  BY DEF Resolve
<1>2. /\ r.side \in Sides /\ r.offset \in Offsets /\ r.kind \in Kinds
      /\ r.offset = "OPEN" <=> r.side = dir
  BY RequestAssumption DEF OneSided, Kinds
<1>3. qty \in Nat \ {0}
  BY BoundAssumption
<1> QED BY <1>1, <1>2, <1>3, OrdersDraw DEF Resolve

\* The net of any tags is in direction dir, and that of all tags is the account's.
LEMMA NetSided ==
  ASSUME TypeInv, NEW dir \in Sides, OrdersInv(dir), NEW T \in SUBSET Tags
  PROVE  /\ VenueNet(T) \in Int
         /\ VenueNet(T) > 0 => dir = "BUY"
         /\ VenueNet(T) < 0 => dir = "SELL"
         /\ VenueNet(Tags) = net
<1>1. VenueNet(T) \in Int
  BY VenueNetInt DEF TypeInv
<1>2. CASE Ticketed
  <2>1. \A p \in held : ord[p].side = dir /\ ord[p].tag \in Tags
    BY DrawnFacts DEF OrdersInv, TypeInv, OrderRecord
  <2>2. dir = "BUY" => Shorts(T) = {} /\ Shorts(Tags) = {} /\ Longs(Tags) = held
    BY <2>1 DEF Shorts, Longs
  <2>3. dir = "SELL" => Longs(T) = {} /\ Longs(Tags) = {} /\ Shorts(Tags) = held
    BY <2>1 DEF Shorts, Longs
  <2>4. Cardinality({}) = 0
    BY FS_EmptySet
  <2>5. /\ IsFiniteSet(Longs(T)) /\ IsFiniteSet(Shorts(T))
    BY HeldFinite, FS_Subset DEF Longs, Shorts
  <2>6. Cardinality(Longs(T)) \in Nat /\ Cardinality(Shorts(T)) \in Nat
    BY <2>5, FS_CardinalityType
  <2>7. Lots(dir) = Cardinality(held) /\ Cardinality(held) \in Nat
    BY <1>2, HeldFinite DEF OrdersInv
  <2>8. VenueNet(Tags) = IF dir = "BUY" THEN Cardinality(held) ELSE -Cardinality(held)
    <3>1. VenueNet(Tags) = Cardinality(Longs(Tags)) - Cardinality(Shorts(Tags))
      BY <1>2 DEF VenueNet
    <3>2. CASE dir = "BUY"
      BY <2>2, <2>4, <2>7, <3>1, <3>2
    <3>3. CASE dir = "SELL"
      BY <2>3, <2>4, <2>7, <3>1, <3>3
    <3> QED BY <3>2, <3>3 DEF Sides
  <2>9. net = IF dir = "BUY" THEN Cardinality(held) ELSE -Cardinality(held)
    BY <2>7 DEF Lots, Signed, TypeInv, TypeOK
  <2>10. VenueNet(T) > 0 => dir = "BUY"
    BY <1>2, <2>3, <2>4, <2>6 DEF VenueNet, Sides
  <2>11. VenueNet(T) < 0 => dir = "SELL"
    BY <1>2, <2>2, <2>4, <2>6 DEF VenueNet, Sides
  <2> QED BY <1>1, <2>8, <2>9, <2>10, <2>11
<1>3. CASE ~Ticketed
  <2>1. Lots(dir) >= 0
    BY <1>3 DEF OrdersInv
  <2> QED BY <1>1, <1>3, <2>1 DEF VenueNet, Lots, Signed, TypeInv, TypeOK, Sides
<1> QED BY <1>2, <1>3

\* The close of a flatten is against the net it read.
LEMMA OrdersFlattenPositions ==
  ASSUME TypeInv, NEW dir \in Sides, OrdersInv(dir), NEW t \in Tags, FlattenPositions(t)
  PROVE  OrdersInv(dir)'
<1> DEFINE scope  == IF pc[t] = "flatten_own" THEN "own" ELSE "all"
           netVol == VenueNet(ScopeTags(t, scope))
<1>1. CASE UNCHANGED ord
  BY <1>1, OrdersKept DEF FlattenPositions, venueVars
<1>2. CASE /\ netVol # 0
           /\ Draw(t, IF netVol > 0 THEN "SELL" ELSE "BUY", "CLOSE", "MARKET", Abs(netVol))
  <2>1. ScopeTags(t, scope) \in SUBSET Tags
    BY DEF ScopeTags
  <2>2. /\ netVol \in Int
        /\ netVol > 0 => dir = "BUY"
        /\ netVol < 0 => dir = "SELL"
    BY <2>1, NetSided
  <2> HIDE DEF netVol
  <2> DEFINE side == IF netVol > 0 THEN "SELL" ELSE "BUY"
  <2>6. netVol # 0
    BY <1>2
  <2>3. Abs(netVol) \in Nat \ {0}
    BY <2>2, <2>6 DEF Abs
  <2>4. side # dir
    BY <2>2, <2>6
  <2>5. /\ side \in Sides /\ "CLOSE" \in Offsets
        /\ "MARKET" \in Kinds /\ UNCHANGED venueVars
    BY DEF Sides, Offsets, Kinds, FlattenPositions
  <2> QED BY <1>2, <2>3, <2>4, <2>5, OrdersDraw
<1> QED BY <1>1, <1>2 DEF FlattenPositions

\* The workers and the runner leave the position alone, and cancel what rests.
LEMMA OrdersWorker ==
  ASSUME TypeInv, NEW dir \in Sides, OrdersInv(dir), OneSided(dir),
         (\E t \in Tags : Worker(t)) \/ Runner \/ UNCHANGED vars
  PROVE  OrdersInv(dir)'
<1>1. ASSUME NEW t \in Tags, Cancel(t) \/ StrategyFlatten(t) \/ ShutdownFlatten(t)
      PROVE  OrdersInv(dir)'
  <2>1. UNCHANGED <<ord, fq, held, net>>
    BY <1>1 DEF Cancel, StrategyFlatten, ShutdownFlatten, FlattenCancel, durable, venueVars
  <2>2. \A o \in Ids : vst'[o] = "filled" <=> vst[o] = "filled"
    <3>1. CASE UNCHANGED vst
      BY <3>1
    <3>2. CASE \E S \in SUBSET OpenAt(Tags) : CancelAtVenue(S)
      BY <3>2 DEF CancelAtVenue, OpenAt
    <3> QED BY <1>1, <3>1, <3>2, CancelsResting DEF venueVars
  <2> QED BY <2>1, <2>2, OrdersKept
<1>2. CASE UNCHANGED <<ord, vst, fq, held, net>>
  BY <1>2, OrdersKept
<1>3. ASSUME NEW t \in Tags, Worker(t) PROVE OrdersInv(dir)'
  BY <1>1, <1>2, <1>3, OrdersResolve, OrdersFlattenPositions
     DEF Worker, WorkerStep, Accept, Begin, Submit, Answered, NoAnswer, Finish, Update,
         durable, venueVars
<1>4. CASE Runner
  BY <1>1, <1>2, <1>4
     DEF Runner, Boot, Start, Crash, Shutdown, Stopped, RecoverRow, RecoverFails, RecoverDone,
         RunStrategies, ReconcilePositions, ReconcileOrders, Register, Reconciled,
         durable, venueVars
<1>5. CASE UNCHANGED vars
  BY <1>2, <1>5 DEF vars, durable, venueVars
<1> QED BY <1>3, <1>4, <1>5

\* An execution moves the position by what the order says it filled.
LEMMA OrdersExecute ==
  ASSUME TypeInv, NEW dir \in Sides, OrdersInv(dir), NEW o \in Drawn, vst[o] # "filled",
         Execute(o), UNCHANGED ord
  PROVE  OrdersInv(dir)'
<1>1. /\ o \in Ids /\ Drawn' = Drawn /\ Drawn \subseteq Ids /\ ord # <<>>
  BY DrawnFacts DEF Drawn, TypeInv
<1>2. /\ vst \in [Ids -> {"none", "refused", "open", "filled", "canceled"}]
      /\ fq \in [Ids -> Nat]
  BY DEF TypeInv, TypeOK
<1>3. ord[o].offset \in Offsets /\ Lots(dir) \in Nat
  BY DrawnFacts, LotsNat DEF TypeInv, OrderRecord
<1>4. CASE ord[o].offset = "OPEN"
  <2>1. /\ vst' = [vst EXCEPT ![o] = "filled"] /\ fq' = [fq EXCEPT ![o] = 1]
        /\ held' = IF Ticketed THEN held \cup {o} ELSE held
        /\ Lots(dir)' = Lots(dir) + 1
        /\ Ticketed => Lots(dir)' = Cardinality(held')
    BY <1>4, OpenExecutes
  <2>2. \A p \in held' : p \in Drawn /\ ord[p].offset = "OPEN" /\ vst'[p] = "filled"
    BY <1>1, <1>2, <1>4, <2>1 DEF OrdersInv
  <2>3. \A p \in Ids : vst'[p] # "filled" => fq'[p] = 0
    BY <1>1, <1>2, <2>1 DEF OrdersInv
  <2>4. \A p \in Drawn : fq'[p] <= ord[p].qty
    BY <1>1, <1>2, <1>4, <2>1 DEF OrdersInv
  <2> QED BY <1>1, <1>3, <2>1, <2>2, <2>3, <2>4 DEF OrdersInv
<1>5. CASE ord[o].offset = "CLOSE"
  <2>1. PICK k \in Nat :
          /\ k <= ord[o].qty /\ k <= Lots(dir)
          /\ fq' = [fq EXCEPT ![o] = k] /\ Lots(dir)' = Lots(dir) - k
    BY <1>5, CloseExecutes
  <2>2. /\ vst' = [vst EXCEPT ![o] = "filled"] /\ held' \subseteq held
        /\ Ticketed => Lots(dir)' = Cardinality(held')
    BY <1>5, CloseExecutes
  <2>3. \A p \in held' : p \in Drawn /\ ord[p].offset = "OPEN" /\ vst'[p] = "filled"
    BY <1>1, <1>2, <2>2 DEF OrdersInv
  <2>4. \A p \in Ids : vst'[p] # "filled" => fq'[p] = 0
    BY <1>1, <1>2, <2>1, <2>2 DEF OrdersInv
  <2>5. ~Ticketed => held' = {} /\ Lots(dir)' >= 0
    BY <1>3, <2>1, <2>2 DEF OrdersInv
  <2>6. \A p \in Drawn : fq'[p] <= ord[p].qty
    BY <1>1, <1>2, <2>1 DEF OrdersInv
  <2> QED BY <1>1, <2>2, <2>3, <2>4, <2>5, <2>6 DEF OrdersInv
<1> QED BY <1>3, <1>4, <1>5 DEF Offsets

\* The venue opens in direction dir only, and closes no more than there is.
LEMMA OrdersVenue ==
  ASSUME TypeInv, IntentInv, NEW dir \in Sides, OrdersInv(dir), NEW o \in Ids, VenueStep(o)
  PROVE  OrdersInv(dir)'
<1>1. CASE VenueExecutes(o)
  BY <1>1, OrdersExecute DEF VenueExecutes, IntentInv, TypeInv, RefsDrawn, durable
<1>2. CASE VenueFills(o)
  BY <1>2, OrdersExecute DEF VenueFills, durable
<1>3. CASE VenueRests(o) \/ VenueRefuses(o) \/ VenueExpires(o)
  <2>1. UNCHANGED <<ord, fq, held, net>>
    BY <1>3 DEF VenueRests, VenueRefuses, VenueExpires, durable
  <2>2. vst[o] # "filled"
    BY <1>3 DEF VenueRests, VenueRefuses, VenueExpires, IntentInv
  <2>3. \A p \in Ids : vst'[p] = "filled" <=> vst[p] = "filled"
    BY <1>3, <2>2 DEF VenueRests, VenueRefuses, VenueExpires, TypeInv, TypeOK
  <2> QED BY <2>1, <2>3, OrdersKept
<1>4. CASE VenueFuse(o)
  <2>1. /\ o \in held /\ held' = held \ {o} /\ net' = net - Signed(ord[o].side, 1)
        /\ UNCHANGED <<ord, vst, fq>>
    BY <1>4 DEF VenueFuse, durable
  <2>2. ord[o].side = dir /\ Ticketed /\ Lots(dir) = Cardinality(held) /\ ord # <<>>
    BY <2>1, DrawnFacts DEF OrdersInv, Drawn, TypeInv
  <2>3. Lots(dir)' = Lots(dir) - 1
    BY <2>1, <2>2 DEF Lots, Signed, TypeInv, TypeOK
  <2>4. Cardinality(held') = Cardinality(held) - 1
    BY <2>1, HeldFinite, FS_RemoveElement
  <2>5. Drawn' = Drawn
    BY <2>1 DEF Drawn
  <2> QED BY <2>1, <2>2, <2>3, <2>4, <2>5 DEF OrdersInv
<1> QED BY <1>1, <1>2, <1>3, <1>4 DEF VenueStep, VenueTakes

\* Every step keeps orders and position in one direction.
LEMMA OrdersStep ==
  ASSUME TypeInv, IntentInv, NEW dir \in Sides, OrdersInv(dir), OneSided(dir), [Next]_vars
  PROVE  OrdersInv(dir)'
BY OrdersWorker, OrdersVenue DEF Next

-----------------------------------------------------------------------------
(* StopInv, step by step.                                                  *)

\* A net of zero leaves no position held.
LEMMA NoLotsHeld ==
  ASSUME TypeInv, NEW dir \in Sides, OrdersInv(dir), net = 0
  PROVE  held = {}
<1>1. Lots(dir) = 0
  BY LotsInt
<1> QED BY <1>1, HeldFinite, FS_EmptySet DEF OrdersInv

\* Without calls nothing is on its way to the venue.
LEMMA IdleWire ==
  ASSUME IntentInv, AllIdle
  PROVE  wire = {}
BY DEF IntentInv, AllIdle

\* The last order of all is one of the drawn ones.
LEMMA LastDrawn ==
  ASSUME TypeInv, ord # <<>>
  PROVE  Len(ord) \in Drawn /\ Len(ord) \in Ids
<1>1. Len(ord) \in Nat /\ Len(ord) # 0
  BY DEF TypeInv, TypeOK
<1> QED BY <1>1, DrawnFacts DEF Drawn, TypeInv

\* A close for all there is stays one, or ends with the account flat or short
\* of what was asked.
LEMMA ClosingVenue ==
  ASSUME TypeInv, TypeInv', IntentInv, NEW dir \in Sides, OrdersInv(dir), OrdersInv(dir)',
         NEW o \in Drawn, Closing(dir, o), NEW p \in Ids, VenueStep(p)
  PROVE  Closing(dir, o)'
<1>1. /\ UNCHANGED ord /\ Drawn' = Drawn /\ wire' \subseteq wire /\ o \in Ids
      /\ ord[o].qty \in Nat /\ ord[o].qty > 0 /\ ord[o].offset = "CLOSE"
      /\ Lots(dir) \in Nat /\ fq[o] \in Nat
      /\ \A q \in Drawn : ord[q].tag \in Tags
  <2>1. UNCHANGED ord /\ wire' \subseteq wire
    BY DEF VenueStep, VenueTakes, VenueExecutes, VenueRests, VenueRefuses, VenueFills,
           VenueExpires, VenueFuse, durable
  <2> QED BY <2>1, DrawnFacts, LotsNat
          DEF Drawn, OrdersInv, Closing, TypeInv, TypeOK, OrderRecord
<1>2. CASE VenueExecutes(p) \/ VenueFills(p)
  <2>1. p = o /\ vst[o] \in {"none", "open"} /\ Execute(o)
    BY <1>1, <1>2 DEF VenueExecutes, VenueFills, Closing, IntentInv, OpenAt
  <2>2. PICK k \in Nat :
          /\ k <= ord[o].qty /\ k <= Lots(dir)
          /\ fq' = [fq EXCEPT ![o] = k] /\ Lots(dir)' = Lots(dir) - k
    BY <1>1, <2>1, CloseExecutes
  <2>3. vst' = [vst EXCEPT ![o] = "filled"]
    BY <1>1, <2>1, CloseExecutes
  <2>4. vst'[o] = "filled" /\ fq'[o] = k /\ OpenAt(Tags)' = {}
    BY <1>1, <2>2, <2>3 DEF Closing, OpenAt, TypeInv, TypeOK
  <2>5. Lots(dir) <= ord[o].qty
    BY <2>1 DEF Closing
  <2>6. CASE k < ord[o].qty
    BY <1>1, <2>4, <2>6 DEF Closing
  <2>7. CASE k = ord[o].qty
    <3>1. Lots(dir)' = 0
      BY <1>1, <2>2, <2>5, <2>7
    <3>2. net' = 0
      <4>1. net' \in Int
        BY DEF TypeInv, TypeOK
      <4>2. Signed(dir, net') = 0
        BY <3>1 DEF Lots
      <4> QED BY <4>1, <4>2, SignedZero
    <3>3. held' = {}
      <4>1. Cardinality(held') = 0 \/ held' = {}
        BY <3>1 DEF OrdersInv
      <4>2. IsFiniteSet(held')
        <5>1. held' \subseteq held
          BY <1>1, <2>1, CloseExecutes
        <5> QED BY <5>1, HeldFinite, FS_Subset
      <4> QED BY <4>1, <4>2, FS_EmptySet
    <3> QED BY <1>1, <2>4, <3>2, <3>3 DEF Closing, Flat
  <2> QED BY <1>1, <2>2, <2>6, <2>7
<1>3. CASE VenueRests(p)
  <2>1. /\ p = o /\ vst' = [vst EXCEPT ![o] = "open"] /\ vst[o] = "none" /\ UNCHANGED net
    BY <1>1, <1>3 DEF VenueRests, Closing, IntentInv
  <2>2. vst'[o] = "open" /\ OpenAt(Tags)' \subseteq {o} /\ Lots(dir)' = Lots(dir)
    BY <1>1, <2>1 DEF Closing, OpenAt, Lots, TypeInv, TypeOK
  <2> QED BY <1>1, <2>1, <2>2 DEF Closing
<1>4. CASE VenueRefuses(p) \/ VenueExpires(p)
  <2>1. /\ p = o /\ vst[o] \in {"none", "open"} /\ UNCHANGED fq
        /\ \E f \in {"refused", "canceled"} : vst' = [vst EXCEPT ![o] = f]
    BY <1>1, <1>4 DEF VenueRefuses, VenueExpires, Closing, IntentInv, OpenAt,
                      TypeInv, TypeOK, RefsDrawn
  <2>2. vst'[o] \in {"refused", "canceled"} /\ OpenAt(Tags)' \subseteq {o} /\ fq'[o] = 0
    BY <1>1, <2>1 DEF Closing, OpenAt, OrdersInv, TypeInv, TypeOK
  <2> QED BY <1>1, <2>2 DEF Closing
<1>5. CASE VenueFuse(p)
  <2>1. /\ p \in held /\ held' = held \ {p} /\ net' = net - Signed(ord[p].side, 1)
        /\ UNCHANGED <<vst, fq>>
    BY <1>5 DEF VenueFuse
  <2>2. ord[p].side = dir
    BY <2>1 DEF OrdersInv
  <2>3. Lots(dir)' = Lots(dir) - 1
    BY <2>1, <2>2 DEF Lots, Signed, TypeInv, TypeOK
  <2>4. OpenAt(Tags)' = OpenAt(Tags) /\ ~Flat
    BY <1>1, <2>1 DEF OpenAt, Flat
  <2>5. Lots(dir) <= ord[o].qty => Lots(dir)' <= ord[o].qty
    BY <1>1, <2>3
  <2> QED BY <1>1, <2>1, <2>4, <2>5 DEF Closing
<1> QED BY <1>2, <1>3, <1>4, <1>5 DEF VenueStep, VenueTakes

\* Nothing moves an account that is flat with nothing on its way, and without
\* orders a stop-loss alone moves it.
LEMMA QuietVenue ==
  ASSUME TypeInv, wire = {}, OpenAt(Tags) = {}, NEW p \in Ids, VenueStep(p)
  PROVE  VenueFuse(p) /\ wire' = {} /\ OpenAt(Tags)' = {} /\ held # {}
<1>1. \A q \in Ids : vst[q] # "open"
  BY DrawnFacts DEF TypeInv, RefsDrawn, OpenAt, OrderRecord
<1>2. VenueFuse(p)
  BY <1>1 DEF VenueStep, VenueTakes, VenueExecutes, VenueRests, VenueRefuses, VenueFills,
              VenueExpires
<1> QED BY <1>2 DEF VenueFuse, OpenAt, Drawn, durable

\* What ended stays ended.
LEMMA EndedVenue ==
  ASSUME TypeInv, TypeInv', IntentInv, NEW dir \in Sides, OrdersInv(dir), OrdersInv(dir)',
         Ended(dir), NEW p \in Ids, VenueStep(p)
  PROVE  Ended(dir)'
<1>1. CASE Flat
  BY <1>1, QuietVenue DEF Flat, Ended
<1>2. CASE ord # <<>> /\ Closing(dir, Len(ord))
  <2>1. Closing(dir, Len(ord))'
    <3>1. PICK o \in Drawn : o = Len(ord)
      BY <1>2, LastDrawn
    <3>2. UNCHANGED ord
      BY DEF VenueStep, VenueTakes, VenueExecutes, VenueRests, VenueRefuses, VenueFills,
             VenueExpires, VenueFuse, durable
    <3>3. Closing(dir, o)'
      BY <1>2, <3>1, ClosingVenue
    <3> QED BY <3>1, <3>2, <3>3 DEF Closing, Flat
  <2>2. wire' = {} /\ UNCHANGED ord
    BY DEF VenueStep, VenueTakes, VenueExecutes, VenueRests, VenueRefuses, VenueFills,
           VenueExpires, VenueFuse, durable, Ended
  <2> QED BY <1>2, <2>1, <2>2 DEF Ended
<1> QED BY <1>1, <1>2 DEF Ended

\* A worker in its call leaves the position and every order alone.
LEMMA ClosingCall ==
  ASSUME NEW dir, NEW o, Closing(dir, o), UNCHANGED <<ord, vst, fq, held, net>>,
         wire' \subseteq wire \cup {o}
  PROVE  Closing(dir, o)'
BY DEF Closing, Flat, Lots, OpenAt, Drawn

\* The close of a shutdown goes on its way, alone.
LEMMA StopCall ==
  ASSUME TypeInv, IntentInv', NEW dir \in Sides, StopInv(dir), phase = "stop", NEW t \in Tags,
         Accept(t) \/ Begin(t) \/ Submit(t) \/ Answered(t) \/ NoAnswer(t) \/ Finish(t) \/ Update(t)
  PROVE  StopInv(dir)'
<1>1. Calling(t) /\ UNCHANGED <<phase, stopping, ord, vst, fq, held, net>>
  BY DEF Accept, Begin, Submit, Answered, NoAnswer, Finish, Update, Calling, durable,
         venueVars, procVars
<1>2. /\ cur[t] = Len(ord) /\ Closing(dir, Len(ord)) /\ stopping # Tags
      /\ \A u \in Tags : u # t => pc[u] = "idle"
  BY <1>1 DEF StopInv, Calling
<1>3. /\ \A u \in Tags : u # t => pc'[u] = pc[u] /\ cur'[u] = cur[u]
      /\ wire' \subseteq wire \cup {cur[t]}
      /\ pc'[t] = "idle" \/ (Calling(t)' /\ cur'[t] = cur[t])
  BY DEF Accept, Begin, Submit, Answered, NoAnswer, Finish, Update, Return, Calling, venueVars,
         TypeInv, TypeOK
<1>4. Closing(dir, Len(ord))' /\ Len(ord)' = Len(ord)
  <2> DEFINE o == Len(ord)
  <2>1. PICK n : n = Len(ord)
    OBVIOUS
  <2>2. Closing(dir, n)'
    BY <1>1, <1>2, <1>3, <2>1, ClosingCall
  <2> QED BY <1>1, <2>1, <2>2 DEF Closing, Flat
<1>5. ord # <<>>
  BY <1>1 DEF TypeInv, RefsDrawn, Drawn
<1>6. AllIdle' => Ended(dir)'
  <2>1. AllIdle' => wire' = {}
    BY DEF IntentInv, AllIdle
  <2> QED BY <1>1, <1>4, <1>5, <2>1 DEF Ended
<1> QED BY <1>1, <1>2, <1>3, <1>4, <1>6 DEF StopInv, Calling

\* A shutdown closes the whole net, or finds none.
LEMMA StopFlattenPositions ==
  ASSUME TypeInv, TypeInv', NEW dir \in Sides, OrdersInv(dir), StopInv(dir), Accountable,
         phase = "stop", NEW t \in Tags, FlattenPositions(t)
  PROVE  StopInv(dir)'
<1>1. /\ pc[t] = "flatten_all" /\ OpenAt(Tags) = {} /\ wire = {} /\ stopping # Tags
      /\ \A u \in Tags : u # t => pc[u] = "idle"
      /\ UNCHANGED <<phase, stopping, wire, vst, fq, held, net>>
  BY DEF FlattenPositions, StopInv, procVars, venueVars
<1>2. VenueNet(Tags) = net /\ net \in Int
  BY NetSided DEF TypeInv, TypeOK
<1>3. CASE net = 0 /\ Return(t) /\ UNCHANGED ord
  <2>1. OpenAt(Tags)' = {}
    BY <1>1, <1>3 DEF OpenAt, Drawn
  <2>2. Ended(dir)'
    BY <1>1, <1>3, <2>1, NoLotsHeld DEF Ended, Flat
  <2>3. \A u \in Tags : pc'[u] = "idle"
    BY <1>1, <1>3 DEF Return, TypeInv, TypeOK
  <2> QED BY <1>1, <2>2, <2>3 DEF StopInv, Calling
<1>4. ASSUME net # 0, NEW side \in Sides, Draw(t, side, "CLOSE", "MARKET", Abs(net))
      PROVE  StopInv(dir)'
  <2> DEFINE n == Len(ord) + 1
             r == [tag |-> t, side |-> side, offset |-> "CLOSE", kind |-> "MARKET", qty |-> Abs(net)]
  <2>1. Abs(net) \in Nat /\ Lots(dir) = Abs(net)
    BY <1>2, LotsNat DEF Abs, Lots, Signed, Sides
  <2>2. /\ Len(ord') = n /\ Drawn' = Drawn \cup {n} /\ n \in Ids \ Drawn
    BY <1>4, <2>1, DrawStep DEF TypeInv, Offsets, Kinds
  <2>3. r \in OrderRecord
    BY <2>1 DEF OrderRecord, Offsets, Kinds
  <2>4. ord' = Append(ord, r) /\ ord \in Seq(OrderRecord)
    BY <1>4 DEF Draw, TypeInv, TypeOK
  <2>5. ord'[n] = r /\ \A o \in Drawn : ord'[o] = ord[o]
    BY <2>3, <2>4 DEF Drawn
  <2>6. vst[n] = "none"
    BY <2>2 DEF TypeInv, RefsDrawn
  <2>7. OpenAt(Tags)' = {}
    BY <1>1, <2>2, <2>5, <2>6 DEF OpenAt
  <2>8. ord'[n].offset = "CLOSE" /\ ord'[n].qty = Abs(net)
    BY <2>5
  <2> HIDE DEF n, r
  <2>9. Closing(dir, Len(ord))'
    <3>1. Lots(dir)' = Lots(dir) /\ Lots(dir) <= Abs(net)
      BY <1>1, <2>1 DEF Lots
    <3> QED BY <1>1, <2>2, <2>6, <2>7, <2>8, <3>1 DEF Closing
  <2>10. /\ pc'[t] = "accept" /\ cur'[t] = Len(ord')
         /\ \A u \in Tags : u # t => pc'[u] = pc[u] /\ cur'[u] = cur[u]
    BY <1>4, <2>2 DEF Draw, TypeInv, TypeOK, n
  <2> QED BY <1>1, <2>9, <2>10 DEF StopInv, Calling, AllIdle
<1>5. \/ net = 0 /\ Return(t) /\ UNCHANGED ord
      \/ net # 0 /\ \E side \in Sides : Draw(t, side, "CLOSE", "MARKET", Abs(net))
  <2>1. ScopeTags(t, "all") = Tags
    BY DEF ScopeTags
  <2> QED BY <1>1, <1>2, <2>1 DEF FlattenPositions, Accountable, Sides
<1> QED BY <1>3, <1>4, <1>5

\* A shutdown flattens one strategy after another, and stops after the last.
LEMMA StopRunner ==
  ASSUME TypeInv, IntentInv, NEW dir \in Sides, OrdersInv(dir), StopInv(dir), Accountable, Runner
  PROVE  StopInv(dir)'
<1>1. CASE Start \/ Crash \/ Boot
  <2>1. ~RecoverFails
    BY DEF RecoverFails, Accountable
  <2>2. phase' \notin {"stop", "stopped"}
    BY <1>1, <2>1 DEF Start, Crash, Boot, RecoverRow, RecoverDone, RunStrategies,
                      ReconcilePositions, ReconcileOrders, Register, Reconciled
  <2> QED BY <2>2 DEF StopInv
<1>2. CASE Shutdown
  BY <1>2 DEF Shutdown, StopInv, AllIdle, Calling, callVars
<1>3. ASSUME NEW t \in Tags, ShutdownFlatten(t) PROVE StopInv(dir)'
  <2>1. /\ phase = "stop" /\ phase' = "stop" /\ AllIdle /\ stopping' # Tags
        /\ UNCHANGED <<wire, ord>>
        /\ \A u \in Tags : pc'[u] = IF u = t THEN "flatten_all" ELSE "idle"
        /\ CancelAtVenue(OpenAt(ScopeTags(t, "all")))
    BY <1>3 DEF ShutdownFlatten, FlattenCancel, Accountable, AllIdle, durable, TypeInv, TypeOK
  <2>2. OpenAt(Tags)' = {}
    <3>1. \A o \in Ids : vst'[o] = IF o \in OpenAt(Tags) THEN "canceled" ELSE vst[o]
      BY <2>1 DEF CancelAtVenue, ScopeTags
    <3>2. Drawn' = Drawn /\ Drawn \subseteq Ids
      BY <2>1, DrawnFacts DEF Drawn, TypeInv
    <3> QED BY <2>1, <3>1, <3>2 DEF OpenAt
  <2>3. wire' = {}
    BY <2>1, IdleWire
  <2> QED BY <2>1, <2>2, <2>3 DEF StopInv, Calling, AllIdle
<1>4. CASE Stopped
  <2>1. Ended(dir)
    <3>1. CASE stopping # Tags
      BY <1>4, <3>1 DEF Stopped, StopInv
    <3>2. CASE Tags = {}
      <4>1. ord = <<>>
        BY <3>2, LastDrawn, DrawnFacts DEF TypeInv, OrderRecord
      <4>2. net = 0 /\ Drawn = {}
        BY <4>1 DEF OrdersInv, Drawn
      <4> QED BY <1>4, <4>2, NoLotsHeld, IdleWire DEF Ended, Flat, OpenAt, Stopped
    <3> QED BY <1>4, <3>1, <3>2 DEF Stopped
  <2>2. UNCHANGED <<ord, vst, fq, held, net, wire>> /\ phase' = "stopped"
    BY <1>4 DEF Stopped, durable, venueVars
  <2> QED BY <2>1, <2>2 DEF StopInv, Ended, Closing, Flat, Lots, OpenAt, Drawn
<1> QED BY <1>1, <1>2, <1>3, <1>4 DEF Runner

\* The venue meanwhile executes that one close, or nothing.
LEMMA StopVenue ==
  ASSUME TypeInv, TypeInv', IntentInv, NEW dir \in Sides, OrdersInv(dir), OrdersInv(dir)',
         StopInv(dir), NEW o \in Ids, VenueStep(o)
  PROVE  StopInv(dir)'
<1>1. UNCHANGED <<phase, stopping, pc, cur, ord>>
  BY DEF VenueStep, VenueTakes, VenueExecutes, VenueRests, VenueRefuses, VenueFills,
         VenueExpires, VenueFuse, durable, procVars, callVars
<1>2. OpenAt(Tags) = {} /\ wire = {} => OpenAt(Tags)' = {} /\ wire' = {}
  BY QuietVenue
<1>3. Ended(dir) => Ended(dir)'
  BY EndedVenue
<1>4. ord # <<>> /\ Closing(dir, Len(ord)) => Closing(dir, Len(ord))'
  <2>1. SUFFICES ASSUME ord # <<>>, Closing(dir, Len(ord)) PROVE Closing(dir, Len(ord))'
    OBVIOUS
  <2>2. PICK n \in Drawn : n = Len(ord)
    BY <2>1, LastDrawn
  <2>3. Closing(dir, n)'
    BY <2>1, <2>2, ClosingVenue
  <2> QED BY <1>1, <2>2, <2>3 DEF Closing, Flat
<1>5. \A t \in Tags : Calling(t) => ord # <<>>
  BY DEF TypeInv, RefsDrawn, Drawn
<1> QED BY <1>1, <1>2, <1>3, <1>4, <1>5 DEF StopInv, AllIdle, Calling

\* Every step keeps a shutdown on its way to flat.
LEMMA StopStep ==
  ASSUME TypeInv, TypeInv', IntentInv, IntentInv', NEW dir \in Sides, OrdersInv(dir),
         OrdersInv(dir)', StopInv(dir), Accountable, [Next]_vars
  PROVE  StopInv(dir)'
<1>1. ASSUME NEW t \in Tags, Worker(t) PROVE StopInv(dir)'
  <2>1. CASE phase = "run"
    <3>1. phase' = "run"
      BY <1>1, <2>1 DEF Worker, WorkerStep, Resolve, Cancel, StrategyFlatten, FlattenPositions,
         Accept, Begin, Submit, Answered, NoAnswer, Finish, Update, procVars
    <3> QED BY <3>1 DEF StopInv
  <2>2. CASE phase # "run"
    <3>1. WorkerStep(t) /\ phase = "stop"
      BY <1>1, <2>2 DEF Worker, WorkerStep, Resolve, Cancel, StrategyFlatten, FlattenPositions,
         Accept, Begin, Submit, Answered, NoAnswer, Finish, Update, IntentInv, AllIdle
    <3> QED BY <3>1, StopCall, StopFlattenPositions DEF WorkerStep
  <2> QED BY <2>1, <2>2
<1>2. CASE UNCHANGED vars
  BY <1>2 DEF vars, procVars, callVars, durable, venueVars, StopInv, Ended, Closing, Flat,
              Lots, OpenAt, Drawn, AllIdle, Calling
<1> QED BY <1>1, <1>2, StopRunner, StopVenue DEF Next

\* Where strategies open on one side only, statuses tell the truth, reads are
\* answered and a cancel cancels, a shutdown leaves neither a position nor a
\* resting order, unless the venue refused its last close or cut it short.
THEOREM ShutdownLeavesFlatHolds ==
  ASSUME NEW dir \in Sides, OneSided(dir), Accountable
  PROVE  Spec => []ShutdownLeavesFlat
<1> DEFINE Inv == TypeInv /\ IntentInv
<1>1. Spec => []Inv
  BY IntentInvariant, PTL DEF Accountable
<1>2. ASSUME Init PROVE OrdersInv(dir) /\ StopInv(dir)
  <2>1. ord = <<>> /\ held = {} /\ net = 0 /\ phase = "down" /\ \A o \in Ids : fq[o] = 0
    BY <1>2 DEF Init
  <2>2. Drawn = {} /\ Lots(dir) = 0 /\ Cardinality(held) = 0
    BY <2>1, FS_EmptySet, SignedZero DEF Drawn, Lots
  <2> QED BY <2>1, <2>2 DEF OrdersInv, StopInv
<1>3. Inv /\ Inv' /\ OrdersInv(dir) /\ StopInv(dir) /\ [Next]_vars
        => (OrdersInv(dir) /\ StopInv(dir))'
  BY OrdersStep, StopStep
<1>4. Inv /\ OrdersInv(dir) /\ StopInv(dir) => ShutdownLeavesFlat
  <2>1. SUFFICES ASSUME Inv, OrdersInv(dir), Ended(dir), ~Flat
                 PROVE  /\ ord # <<>> /\ ord[Len(ord)].offset = "CLOSE"
                        /\ fq[Len(ord)] < ord[Len(ord)].qty /\ OpenAt(Tags) \subseteq {Len(ord)}
    BY DEF ShutdownLeavesFlat, StopInv, Flat
  <2>2. ord # <<>> /\ Closing(dir, Len(ord))
    BY <2>1 DEF Ended
  <2>3. Len(ord) \in Drawn /\ Len(ord) \in Ids
    BY <2>1, <2>2, LastDrawn
  <2>4. ord[Len(ord)].qty > 0 /\ (vst[Len(ord)] # "filled" => fq[Len(ord)] = 0)
    BY <2>1, <2>3 DEF OrdersInv
  <2> QED BY <2>1, <2>2, <2>4 DEF Closing
<1> HIDE DEF Inv
<1> QED BY <1>1, <1>2, <1>3, <1>4, PTL DEF Spec

-----------------------------------------------------------------------------
(* Sums of executed lots.                                                  *)

\* The lots the venue executed of the entries S, q giving the lots per order.
Lot(q, e)   == Signed(e.side, q[e.id])
Fills(q, S) == MapThenSumSet(LAMBDA e : Signed(e.side, q[e.id]), S)

\* The sum the library computes is the sum of the weights.
LEMMA FillsTotal ==
  ASSUME NEW S, IsFiniteSet(S), NEW q
  PROVE  Fills(q, S) = SumOver([e \in S |-> Lot(q, e)], S)
<1> DEFINE w == [e \in S |-> Lot(q, e)]
           Step(g, s) == IF s = {} THEN 0
                         ELSE Signed(First(s).side, q[First(s).id]) + g[s \ {First(s)}]
           g == CHOOSE f : f = [s \in SUBSET S |-> Step(f, s)]
<1>1. Fills(q, S) = g[S]
  BY DEF Fills, First, MapThenSumSet, MapThenFoldSet
<1>2. ASSUME NEW f, NEW s \in SUBSET S
      PROVE  Step(f, s) = AddUp(w, f, s)
  <2>1. CASE s = {}
    BY <2>1 DEF AddUp
  <2>2. CASE s # {}
    <3>1. First(s) \in S
      BY <2>2, FirstIn
    <3> QED BY <2>2, <3>1 DEF AddUp, Lot
  <2> QED BY <2>1, <2>2
<1> HIDE DEF w, Step
<1>3. PICK h : Sums(w, h, S)
  BY SumsExist
<1>4. h = [s \in SUBSET S |-> Step(h, s)]
  BY <1>2, <1>3 DEF Sums
<1>5. g = [s \in SUBSET S |-> Step(g, s)]
  BY <1>4
<1> HIDE DEF g
<1>6. Sums(w, g, S)
  BY <1>2, <1>5 DEF Sums
<1> QED BY <1>1, <1>6, SumUnique DEF w

\* Nothing executed, nothing filled.
LEMMA FillsEmpty ==
  ASSUME NEW q
  PROVE  Fills(q, {}) = 0
BY FillsTotal, SumFold, FS_EmptySet

\* Whole lots add up to whole lots.
LEMMA FillsInt ==
  ASSUME NEW S, IsFiniteSet(S), NEW q, \A e \in S : Lot(q, e) \in Int
  PROVE  Fills(q, S) \in Int
<1> DEFINE w == [e \in S |-> Lot(q, e)]
<1>1. \A e \in S : w[e] \in Int
  OBVIOUS
<1> HIDE DEF w
<1>2. SumOver(w, S) \in Int
  BY <1>1, SumInt
<1> QED BY <1>2, FillsTotal DEF w

\* Only the lots of the entries summed matter.
LEMMA FillsSame ==
  ASSUME NEW S, IsFiniteSet(S), NEW q, NEW p, \A e \in S : q[e.id] = p[e.id]
  PROVE  Fills(q, S) = Fills(p, S)
<1> DEFINE w == [e \in S |-> Lot(q, e)]
           v == [e \in S |-> Lot(p, e)]
<1>1. \A e \in S : w[e] = v[e]
  BY DEF Lot
<1> HIDE DEF w, v
<1>2. SumOver(w, S) = SumOver(v, S)
  BY <1>1, SumSame
<1> QED BY <1>2, FillsTotal DEF w, v

\* An entry can be taken out of a sum.
LEMMA FillsWithout ==
  ASSUME NEW S, IsFiniteSet(S), NEW q, \A e \in S : Lot(q, e) \in Int, NEW x \in S
  PROVE  Fills(q, S) = Lot(q, x) + Fills(q, S \ {x})
<1> DEFINE w == [e \in S |-> Lot(q, e)]
           R == S \ {x}
           v == [e \in R |-> Lot(q, e)]
<1>1. /\ \A e \in S : w[e] \in Int
      /\ w[x] = Lot(q, x) /\ \A e \in R : w[e] = v[e]
  OBVIOUS
<1>2. IsFiniteSet(R)
  BY FS_Subset
<1>3. Fills(q, S) = SumOver(w, S) /\ Fills(q, R) = SumOver(v, R)
  BY <1>2, FillsTotal
<1> HIDE DEF w, v
<1>4. SumOver(w, S) = w[x] + SumOver(w, R)
  BY <1>1, SumWithout
<1>5. SumOver(w, R) = SumOver(v, R)
  <2> HIDE DEF R
  <2> QED BY <1>1, <1>2, SumSame
<1> QED BY <1>1, <1>3, <1>4, <1>5

\* Fills of one direction add up in that direction.
LEMMA FillsSided ==
  ASSUME NEW S, IsFiniteSet(S), NEW q, NEW dir \in Sides,
         \A e \in S : e.side = dir /\ q[e.id] \in Nat
  PROVE  Signed(dir, Fills(q, S)) >= 0
<1> DEFINE w == [e \in S |-> Lot(q, e)]
<1>1. \A e \in S : w[e] \in Int /\ Signed(dir, w[e]) >= 0
  BY DEF Lot, Signed
<1> HIDE DEF w
<1>2. Signed(dir, SumOver(w, S)) >= 0
  BY <1>1, SumSided
<1> QED BY <1>2, FillsTotal DEF w

-----------------------------------------------------------------------------
(* What of a tag's entries the venue executed.                             *)

\* The entries of tag t that the venue executed.
Executed(t) == {e \in led[t].pending : vst[e.id] = "filled"}

\* Unbooked is the sum of what executed.
LEMMA UnbookedIs == \A t \in Tags : Unbooked(t) = Fills(fq, Executed(t))
BY DEF Unbooked, Fills, Executed

\* So it is after a step.
LEMMA UnbookedNext == \A t \in Tags : Unbooked(t)' = Fills(fq', Executed(t)')
<1>1. (\A t \in Tags : Unbooked(t) = Fills(fq, Executed(t)))'
  BY UnbookedIs, PTL
<1> QED BY <1>1

\* Executed entries are finitely many and of drawn orders.
LEMMA ExecutedFacts ==
  ASSUME TypeInv, LedgerInv, NEW t \in Tags
  PROVE  /\ IsFiniteSet(Executed(t))
         /\ \A e \in led[t].pending : /\ e.id \in Drawn /\ e.id \in Ids
                                      /\ fq[e.id] \in Nat /\ Lot(fq, e) \in Int
         /\ Unbooked(t) = Fills(fq, Executed(t)) /\ Unbooked(t) \in Int
<1>1. IsFiniteSet(Executed(t))
  <2>1. IsFiniteSet(led[t].pending)
    BY DEF LedgerInv, LedgerAgrees, Balanced
  <2> QED BY <2>1, FS_Subset DEF Executed
<1>2. led[t] \in Positions(Ids) /\ fq \in [Ids -> Nat]
  BY DEF TypeInv, TypeOK
<1>3. \A e \in led[t].pending : e.id \in Ids /\ e.side \in Sides
  BY <1>2 DEF Positions
<1>4. \A e \in led[t].pending : e.id \in Drawn
  BY DEF LedgerInv, LedgerAgrees
<1>5. \A e \in led[t].pending : fq[e.id] \in Nat /\ Lot(fq, e) \in Int
  BY <1>2, <1>3, SignedInt DEF Lot
<1>6. Unbooked(t) = Fills(fq, Executed(t))
  BY DEF Unbooked, Fills, Executed
<1>7. \A e \in Executed(t) : Lot(fq, e) \in Int
  BY <1>5 DEF Executed
<1>8. Unbooked(t) \in Int
  BY <1>1, <1>6, <1>7, FillsInt
<1> QED BY <1>1, <1>3, <1>4, <1>5, <1>6, <1>8

\* Neither the executed entries nor their lots change.
LEMMA UnbookedSame ==
  ASSUME TypeInv, LedgerInv, TypeInv', LedgerInv', NEW t \in Tags,
         Executed(t)' = Executed(t), \A e \in Executed(t) : fq'[e.id] = fq[e.id]
  PROVE  Unbooked(t)' = Unbooked(t)
<1>1. IsFiniteSet(Executed(t)) /\ Unbooked(t) = Fills(fq, Executed(t))
  BY ExecutedFacts
<1>2. PICK S : S = Executed(t)
  OBVIOUS
<1>3. Unbooked(t)' = Fills(fq', S)
  <2>1. Unbooked(t)' = Fills(fq', Executed(t)')
    BY UnbookedNext
  <2> QED BY <1>2, <2>1
<1>4. Fills(fq, S) = Fills(fq', S)
  BY <1>1, <1>2, FillsSame
<1> QED BY <1>1, <1>2, <1>3, <1>4

\* An executed entry leaves the ledger.
LEMMA UnbookedLess ==
  ASSUME TypeInv, LedgerInv, NEW t \in Tags, NEW e \in Executed(t), UNCHANGED fq,
         Executed(t)' = Executed(t) \ {e}
  PROVE  Unbooked(t)' = Unbooked(t) - Lot(fq, e) /\ Unbooked(t)' \in Int
<1>1. /\ IsFiniteSet(Executed(t)) /\ Unbooked(t) = Fills(fq, Executed(t))
      /\ \A f \in Executed(t) : Lot(fq, f) \in Int
  BY ExecutedFacts DEF Executed
<1>2. PICK S : S = Executed(t) \ {e}
  OBVIOUS
<1>3. Unbooked(t)' = Fills(fq, S)
  <2>1. Unbooked(t)' = Fills(fq', Executed(t)')
    BY UnbookedNext
  <2> QED BY <1>2, <2>1
<1>4. Fills(fq, Executed(t)) = Lot(fq, e) + Fills(fq, S)
  BY <1>1, <1>2, FillsWithout
<1>5. Fills(fq, S) \in Int
  <2>1. IsFiniteSet(S) /\ \A f \in S : Lot(fq, f) \in Int
    BY <1>1, <1>2, FS_Subset
  <2> QED BY <2>1, FillsInt
<1> QED BY <1>1, <1>3, <1>4, <1>5

\* An entry is executed.
LEMMA UnbookedMore ==
  ASSUME TypeInv, LedgerInv, TypeInv', LedgerInv', NEW t \in Tags, NEW e,
         e \in Executed(t)', e \notin Executed(t), Executed(t)' = Executed(t) \cup {e},
         \A f \in Executed(t) : fq'[f.id] = fq[f.id]
  PROVE  Unbooked(t)' = Unbooked(t) + Signed(e.side, fq'[e.id])
<1>1. IsFiniteSet(Executed(t)) /\ Unbooked(t) = Fills(fq, Executed(t)) /\ Unbooked(t) \in Int
  BY ExecutedFacts
<1>2. PICK S, q : S = Executed(t)' /\ q = fq'
  OBVIOUS
<1>3. Unbooked(t)' = Fills(q, S)
  <2>1. Unbooked(t)' = Fills(fq', Executed(t)')
    BY UnbookedNext
  <2> QED BY <1>2, <2>1
<1>4. IsFiniteSet(S) /\ \A f \in S : Lot(q, f) \in Int
  <2>1. \A f \in led'[t].pending : f.id \in Ids /\ f.side \in Sides
    BY DEF TypeInv, TypeOK, Positions
  <2>2. \A f \in S : f.id \in Ids /\ f.side \in Sides
    BY <1>2, <2>1 DEF Executed
  <2>3. q \in [Ids -> Nat]
    BY <1>2 DEF TypeInv, TypeOK
  <2> QED BY <1>1, <1>2, <2>2, <2>3, FS_AddElement, SignedInt DEF Lot
<1>5. Fills(q, S) = Lot(q, e) + Fills(q, S \ {e})
  BY <1>2, <1>4, FillsWithout
<1>6. S \ {e} = Executed(t)
  BY <1>2
<1>7. Fills(fq, Executed(t)) = Fills(q, Executed(t))
  BY <1>1, <1>2, FillsSame
<1>8. Lot(q, e) \in Int
  BY <1>2, <1>4
<1>9. Lot(q, e) = Signed(e.side, fq'[e.id])
  BY <1>2 DEF Lot
<1>10. Unbooked(t)' = Lot(q, e) + Unbooked(t)
  BY <1>1, <1>3, <1>5, <1>6, <1>7
<1> QED BY <1>1, <1>8, <1>9, <1>10

-----------------------------------------------------------------------------
(* The volume a tag knows of.                                              *)

\* One strategy that opens in direction dir, positions with tickets, and
\* neither a stop-loss nor a fault that hides what the venue did.
Alone(t, dir) ==
  Tags = {t} /\ Ticketed /\ "fuse" \notin Faults /\ Accountable /\ OneSided(dir)

\* What is known of the state already.
Facts(dir) ==
  TypeInv /\ RowsAhead /\ IntentInv /\ LedgerInv /\ LiveInv /\ OrdersInv(dir)

Flattening(t) == pc[t] \in {"flatten_own", "flatten_all"}

\* While strategies run, volume and executed entries are the net, but for a
\* flatten, which has forgotten its entries and not yet read the net. A close
\* in a call is covered by the volume, so that volume never changes direction.
Kept(t, dir) ==
  /\ Signed(dir, led[t].volume) >= 0
  /\ \A e \in led[t].pending : e.side = dir \/ (Calling(t) /\ cur[t] = e.id)
  /\ res[t] # "UNKNOWN"
  /\ Calling(t) /\ ord[cur[t]].offset = "CLOSE" =>
       /\ ord[cur[t]].qty <= Signed(dir, led[t].volume)
       /\ ord[cur[t]].kind = "MARKET" /\ res[t] # "IN_FLIGHT"
  /\ IF Flattening(t)
     THEN /\ led[t].pending = {} /\ OpenAt(Tags) = {} /\ wire = {}
          /\ Signed(dir, led[t].volume) <= Lots(dir)
     ELSE led[t].volume + Unbooked(t) = net

\* The first life of the process, from its start.
KnownInv(t, dir) ==
  /\ starts = 0 => phase = "down"
  /\ starts = 0 \/ (starts = 1 /\ phase \in {"recover", "reconcile"}) =>
       ord = <<>> /\ led[t] = EmptyPosition
  /\ phase = "run" /\ starts = 1 => Kept(t, dir)

-----------------------------------------------------------------------------
(* Kept, one lemma per action.                                             *)

\* The steps that change neither the record nor the account.
LEMMA KeptSame ==
  ASSUME NEW dir \in Sides, Facts(dir), Facts(dir)', NEW t \in Tags, Kept(t, dir),
         UNCHANGED <<ord, net>>, led'[t] = led[t],
         Executed(t)' = Executed(t), \A e \in Executed(t) : fq'[e.id] = fq[e.id],
         ~Flattening(t), ~Flattening(t)', Calling(t)' <=> Calling(t), cur'[t] = cur[t],
         res'[t] # "UNKNOWN",
         Calling(t) /\ ord[cur[t]].offset = "CLOSE" => res'[t] # "IN_FLIGHT"
  PROVE  Kept(t, dir)'
<1>1. Unbooked(t)' = Unbooked(t)
  BY UnbookedSame DEF Facts
<1> QED BY <1>1 DEF Kept

\* The steps of a call between the ledger's two updates.
LEMMA KeptCall ==
  ASSUME NEW dir \in Sides, Facts(dir), Facts(dir)', NEW t \in Tags, Alone(t, dir), Kept(t, dir),
         Begin(t) \/ Submit(t) \/ Answered(t) \/ NoAnswer(t) \/ Finish(t)
  PROVE  Kept(t, dir)'
<1>1. ~NoAnswer(t)
  BY DEF NoAnswer, Alone, Accountable, Sound
<1>2. /\ UNCHANGED <<led, ord, vst, fq, net, cur, res>>
      /\ pc[t] \in {"begin", "submit", "sent", "finish"}
      /\ \E s \in {"submit", "sent", "finish", "update"} : pc' = [pc EXCEPT ![t] = s]
  BY <1>1 DEF Begin, Submit, Answered, Finish, Kept, durable, venueVars
<1>3. pc'[t] \in {"submit", "sent", "finish", "update"}
  BY <1>2 DEF Facts, TypeInv, TypeOK
<1>4. ~Flattening(t) /\ ~Flattening(t)' /\ Calling(t) /\ Calling(t)'
  BY <1>2, <1>3 DEF Flattening, Calling
<1>5. Executed(t)' = Executed(t)
  BY <1>2 DEF Executed
<1>6. res[t] # "UNKNOWN" /\ (ord[cur[t]].offset = "CLOSE" => res[t] # "IN_FLIGHT")
  BY <1>4 DEF Kept
<1> QED BY <1>2, <1>4, <1>5, <1>6, KeptSame

\* A call begins with a close that the volume covers, if with a close.
LEMMA KeptDraw ==
  ASSUME NEW dir \in Sides, Facts(dir), NEW t \in Tags,
         NEW side \in Sides, NEW offset \in Offsets, NEW kind \in Kinds, NEW qty \in Nat,
         Draw(t, side, offset, kind, qty), res'[t] \notin {"UNKNOWN", "IN_FLIGHT"},
         offset = "CLOSE" => kind = "MARKET" /\ qty <= Signed(dir, led'[t].volume),
         Signed(dir, led'[t].volume) >= 0, \A e \in led'[t].pending : e.side = dir,
         led'[t].volume + Unbooked(t)' = net'
  PROVE  Kept(t, dir)'
<1> DEFINE n == Len(ord) + 1
           r == [tag |-> t, side |-> side, offset |-> offset, kind |-> kind, qty |-> qty]
<1>1. r \in OrderRecord
  BY DEF OrderRecord
<1>2. ord' = Append(ord, r) /\ ord \in Seq(OrderRecord)
  BY DEF Draw, Facts, TypeInv, TypeOK
<1>3. ord'[n] = r
  BY <1>1, <1>2
<1>4. ord'[n].offset = offset /\ ord'[n].kind = kind /\ ord'[n].qty = qty
  BY <1>3
<1>5. cur' = [cur EXCEPT ![t] = n] /\ pc' = [pc EXCEPT ![t] = "accept"]
  BY DEF Draw
<1> HIDE DEF n, r
<1>6. cur'[t] = n /\ pc'[t] = "accept"
  BY <1>5 DEF Facts, TypeInv, TypeOK
<1>7. ~Flattening(t)'
  BY <1>6 DEF Flattening
<1> QED BY <1>4, <1>6, <1>7 DEF Kept

\* Between calls every entry is in direction dir.
LEMMA IdleSided ==
  ASSUME NEW dir, NEW t, Kept(t, dir), pc[t] = "idle"
  PROVE  /\ ~Calling(t) /\ ~Flattening(t)
         /\ \A e \in led[t].pending : e.side = dir
         /\ led[t].volume + Unbooked(t) = net
BY DEF Kept, Calling, Flattening

\* The resolver lets a close through only for what the volume covers.
LEMMA KeptResolve ==
  ASSUME NEW dir \in Sides, Facts(dir), Facts(dir)', NEW t \in Tags, Kept(t, dir), Resolve(t)
  PROVE  Kept(t, dir)'
<1>1. PICK r \in Requests, qty \in 1 .. MaxOrders :
        /\ r.offset = "CLOSE" => r.kind = "MARKET"
        /\ ResolverAccepts(led[t], r.side, r.offset, qty)
        /\ Draw(t, r.side, r.offset, r.kind, qty)
  BY DEF Resolve
<1>2. r.side \in Sides /\ r.offset \in Offsets /\ r.kind \in Kinds /\ qty \in Nat
  BY RequestAssumption, BoundAssumption DEF Kinds
<1>3. /\ pc[t] = "idle" /\ UNCHANGED <<led, res, vst, fq, net>>
  BY DEF Resolve, venueVars
<1>4. res[t] = "none"
  BY <1>3 DEF Facts, IntentInv, CallAgrees
<1>5. led[t].volume \in Int /\ Signed(dir, led[t].volume) >= 0
  BY DEF Facts, TypeInv, TypeOK, Positions, Kept
<1>6. r.offset = "CLOSE" => qty <= Signed(dir, led[t].volume)
  <2>1. r.offset = "CLOSE" => qty <= Abs(led[t].volume)
    BY <1>1 DEF ResolverAccepts, AvailableToClose
  <2>2. Abs(led[t].volume) = Signed(dir, led[t].volume)
    BY <1>5 DEF Abs, Signed, Sides
  <2> QED BY <2>1, <2>2
<1>7. Executed(t)' = Executed(t)
  BY <1>3 DEF Executed
<1>8. Unbooked(t)' = Unbooked(t)
  BY <1>3, <1>7, UnbookedSame DEF Facts
<1>9. (\A e \in led[t].pending : e.side = dir) /\ led[t].volume + Unbooked(t) = net
  BY <1>3, IdleSided
<1> QED BY <1>1, <1>2, <1>3, <1>4, <1>5, <1>6, <1>8, <1>9, KeptDraw

\* An accepted order has not executed.
LEMMA KeptAccept ==
  ASSUME NEW dir \in Sides, Facts(dir), Facts(dir)', NEW t \in Tags, Kept(t, dir), Accept(t)
  PROVE  Kept(t, dir)'
<1> DEFINE o == cur[t]
           n == Entry(o, ord[o].side, ord[o].offset, ord[o].qty)
           new == OnOrderAccepted(led[t], o, ord[o].side, ord[o].offset, ord[o].qty)
<1>1. /\ pc[t] = "accept" /\ pc' = [pc EXCEPT ![t] = "begin"]
      /\ led' = [led EXCEPT ![t] = new] /\ UNCHANGED <<cur, res, ord, vst, fq, net>>
  BY DEF Accept, durable, venueVars
<1>2. /\ pc'[t] = "begin" /\ led'[t] = new
  BY <1>1 DEF Facts, TypeInv, TypeOK
<1>3. new.volume = led[t].volume /\ new.pending = Others(led[t], o) \cup {n}
  BY DEF OnOrderAccepted
<1>4. n.id = o
  BY EntryOf
<1>5. ~IsTracked(led[t], o)
  BY <1>1 DEF Facts, LedgerInv, LedgerAgrees
<1>6. vst[o] # "filled"
  <2>1. journal[o] = "none" /\ o \in Ids
    BY <1>1, DrawnFacts DEF Facts, IntentInv, CallAgrees, TypeInv, RefsDrawn, Calling
  <2> QED BY <2>1 DEF Facts, RowsAhead, WriteAhead
<1> HIDE DEF new, n
<1>7. Others(led[t], o) = led[t].pending
  BY <1>5 DEF Others, IsTracked
<1>8. Executed(t)' = Executed(t)
  BY <1>1, <1>2, <1>3, <1>4, <1>6, <1>7 DEF Executed
<1>9. Unbooked(t)' = Unbooked(t)
  BY <1>1, <1>8, UnbookedSame DEF Facts
<1>10. Calling(t) /\ Calling(t)' /\ ~Flattening(t) /\ ~Flattening(t)'
  BY <1>1, <1>2 DEF Calling, Flattening
<1>11. \A e \in led'[t].pending : e.side = dir \/ (Calling(t)' /\ cur'[t] = e.id)
  BY <1>1, <1>2, <1>3, <1>4, <1>7, <1>10 DEF Kept
<1>12. led'[t].volume = led[t].volume
  BY <1>2, <1>3
<1> QED BY <1>1, <1>9, <1>10, <1>11, <1>12 DEF Kept

\* Cancelled orders were resting, not executed.
LEMMA KeptCancel ==
  ASSUME NEW dir \in Sides, Facts(dir), Facts(dir)', NEW t \in Tags, Kept(t, dir), Cancel(t)
  PROVE  Kept(t, dir)'
<1>1. /\ pc[t] = "idle" /\ UNCHANGED <<led, pc, cur, res, ord, fq, net>>
      /\ \E o \in OpenAt({t}) : CancelAtVenue({o})
  BY DEF Cancel, callVars, durable
<1>2. \A o \in Ids : vst'[o] = "filled" <=> vst[o] = "filled"
  BY <1>1 DEF CancelAtVenue, OpenAt
<1>3. Executed(t)' = Executed(t)
  BY <1>1, <1>2, ExecutedFacts DEF Executed, Facts
<1>4. ~Calling(t) /\ ~Calling(t)' /\ ~Flattening(t) /\ ~Flattening(t)'
  BY <1>1 DEF Calling, Flattening
<1> QED BY <1>1, <1>3, <1>4, KeptSame DEF Kept

\* What a volume counts in direction dir when lots of side s are added.
LEMMA SignedAdd ==
  ASSUME NEW dir \in Sides, NEW s \in Sides, NEW v \in Int, NEW n \in Nat
  PROVE  Signed(dir, v + Signed(s, n)) = Signed(dir, v) + (IF s = dir THEN n ELSE -n)
BY DEF Signed, Sides

\* The update of a record that fills moves what executed from the entries to
\* the volume.
LEMMA KeptUpdate ==
  ASSUME NEW dir \in Sides, Facts(dir), Facts(dir)', NEW t \in Tags, Kept(t, dir), Update(t)
  PROVE  Kept(t, dir)'
<1> DEFINE o == cur[t]
           filled == OnOrderFilled(led[t], o, ord[o].side, fq[o])
           dead == OnOrderDead(led[t], o, ord[o].side, ord[o].qty)
<1>1. /\ pc[t] = "update" /\ Return(t) /\ UNCHANGED <<ord, journal, vst, fq, net>>
      /\ led' = [led EXCEPT ![t] = CASE res[t] = "FILLED" -> filled
                                     [] res[t] = "IN_FLIGHT" -> led[t]
                                     [] OTHER -> dead]
  BY DEF Update, durable, venueVars
<1>2. /\ pc'[t] = "idle" /\ cur'[t] = 0 /\ res'[t] = "none"
      /\ led'[t] = CASE res[t] = "FILLED" -> filled
                     [] res[t] = "IN_FLIGHT" -> led[t]
                     [] OTHER -> dead
  BY <1>1 DEF Return, Facts, TypeInv, TypeOK
<1>3. /\ Calling(t) /\ ~Flattening(t) /\ ~Calling(t)' /\ ~Flattening(t)'
  BY <1>1, <1>2 DEF Calling, Flattening
<1>4. /\ o \in Drawn /\ o \in Ids /\ ord[o].side \in Sides /\ ord[o].offset \in Offsets
      /\ ord[o].qty \in Nat /\ fq[o] \in Nat /\ fq[o] <= ord[o].qty
      /\ ord[o].offset = "OPEN" <=> ord[o].side = dir
  <2>1. o \in Drawn
    BY <1>3 DEF Facts, TypeInv, RefsDrawn
  <2>2. o \in Ids /\ ord[o] \in OrderRecord
    BY <2>1, DrawnFacts DEF Facts, TypeInv
  <2> QED BY <2>1, <2>2 DEF Facts, OrdersInv, TypeInv, TypeOK, OrderRecord
<1>5. PICK e \in led[t].pending : e.id = o
  BY <1>1 DEF Facts, LedgerInv, LedgerAgrees, IsTracked
<1>6. /\ \A f \in led[t].pending : f.id = o => f = e
      /\ Others(led[t], o) = led[t].pending \ {e}
      /\ e.side = ord[o].side
  BY <1>5 DEF Facts, LedgerInv, LedgerAgrees, Balanced, LiveInv, BooksMatch, Others
<1>7. \A f \in led[t].pending \ {e} : f.side = dir
  BY <1>5, <1>6 DEF Kept
<1>8. /\ led[t].volume \in Int /\ Signed(dir, led[t].volume) >= 0 /\ Unbooked(t) \in Int
      /\ led[t].volume + Unbooked(t) = net
      /\ ord[o].offset = "CLOSE" =>
           ord[o].qty <= Signed(dir, led[t].volume) /\ res[t] # "IN_FLIGHT"
      /\ Signed(dir, led[t].volume) \in Int
  <2>1. led[t].volume \in Int
    BY DEF Facts, TypeInv, TypeOK, Positions
  <2>2. Signed(dir, led[t].volume) \in Int
    BY <2>1 DEF Signed
  <2> QED BY <1>3, <2>1, <2>2, ExecutedFacts DEF Kept, Facts
<1>9. journal[o] = res[t] /\ res[t] \in {"IN_FLIGHT", "FILLED", "DEAD"}
  BY <1>1 DEF Facts, LiveInv, UpdateTells
<1>10. CASE res[t] = "FILLED"
  <2>1. led'[t] = filled
    BY <1>2, <1>10
  <2>2. /\ led'[t].volume = led[t].volume + Signed(ord[o].side, fq[o])
        /\ led'[t].pending = led[t].pending \ {e}
    <3>1. /\ filled.volume = led[t].volume + Signed(ord[o].side, fq[o])
          /\ filled.pending = Others(led[t], o)
      BY DEF OnOrderFilled
    <3> HIDE DEF filled, o
    <3> QED BY <1>6, <2>1, <3>1
  <2>3. vst[o] = "filled"
    BY <1>4, <1>9, <1>10 DEF Facts, IntentInv, JournalTruthful
  <2>4. e \in Executed(t) /\ Executed(t)' = Executed(t) \ {e}
    BY <1>1, <1>5, <2>2, <2>3 DEF Executed
  <2>5. Unbooked(t)' = Unbooked(t) - Signed(ord[o].side, fq[o])
    BY <1>1, <1>5, <1>6, <2>4, UnbookedLess DEF Lot, Facts
  <2>6. Signed(ord[o].side, fq[o]) \in Int
    BY <1>4, SignedInt
  <2>7. led'[t].volume + Unbooked(t)' = net'
    BY <1>1, <1>8, <2>2, <2>5, <2>6
  <2>8. Signed(dir, led'[t].volume)
          = Signed(dir, led[t].volume) + (IF ord[o].side = dir THEN fq[o] ELSE -fq[o])
    BY <1>4, <1>8, <2>2, SignedAdd
  <2>9. Signed(dir, led'[t].volume) >= 0
    <3>1. CASE ord[o].side = dir
      BY <1>4, <1>8, <2>8, <3>1
    <3>2. CASE ord[o].side # dir
      <4>1. ord[o].qty <= Signed(dir, led[t].volume)
        BY <1>4, <1>8, <3>2 DEF Offsets
      <4> QED BY <1>4, <1>8, <2>8, <3>2, <4>1
    <3> QED BY <3>1, <3>2
  <2> QED BY <1>2, <1>3, <1>7, <2>2, <2>7, <2>9 DEF Kept
<1>11. CASE res[t] = "IN_FLIGHT"
  <2>1. led'[t] = led[t]
    BY <1>2, <1>11
  <2>2. ord[o].side = dir
    BY <1>4, <1>8, <1>11 DEF Offsets
  <2>3. \A f \in led[t].pending : f.side = dir
    BY <1>6, <1>7, <2>2
  <2>4. Executed(t)' = Executed(t)
    BY <1>1, <2>1 DEF Executed
  <2>5. Unbooked(t)' = Unbooked(t)
    BY <1>1, <2>4, UnbookedSame DEF Facts
  <2> QED BY <1>1, <1>2, <1>3, <1>8, <2>1, <2>3, <2>5 DEF Kept
<1>12. CASE res[t] = "DEAD"
  <2>1. led'[t] = dead
    BY <1>2, <1>12
  <2>2. led'[t].volume = led[t].volume /\ led'[t].pending = led[t].pending \ {e}
    BY <1>6, <2>1 DEF OnOrderDead
  <2>3. vst[o] # "filled"
    BY <1>4, <1>9, <1>12 DEF Facts, IntentInv, JournalTruthful
  <2>4. Executed(t)' = Executed(t)
    BY <1>1, <1>5, <2>2, <2>3 DEF Executed
  <2>5. Unbooked(t)' = Unbooked(t)
    BY <1>1, <2>4, UnbookedSame DEF Facts
  <2> QED BY <1>1, <1>2, <1>3, <1>7, <1>8, <2>2, <2>5 DEF Kept
<1> QED BY <1>9, <1>10, <1>11, <1>12

\* With one tag, the net of whatever flatten looks at is the account's.
LEMMA AloneNet ==
  ASSUME NEW dir \in Sides, Facts(dir), NEW t \in Tags, Alone(t, dir), NEW scope
  PROVE  ScopeTags(t, scope) = Tags /\ VenueNet(ScopeTags(t, scope)) = net /\ net \in Int
<1>1. ScopeTags(t, scope) = Tags
  BY DEF ScopeTags, Alone
<1> QED BY <1>1, NetSided DEF Facts, TypeInv, TypeOK

\* flatten forgets entries of one direction: the volume it keeps is no more
\* than the position.
LEMMA KeptStrategyFlatten ==
  ASSUME NEW dir \in Sides, Facts(dir), Facts(dir)', NEW t \in Tags, Alone(t, dir), Kept(t, dir),
         StrategyFlatten(t)
  PROVE  Kept(t, dir)'
<1>1. PICK scope : FlattenCancel(t, scope)
  BY DEF StrategyFlatten
<1>2. /\ pc[t] = "idle" /\ CancelAtVenue(OpenAt(Tags))
      /\ led' = [led EXCEPT ![t] = ClearInFlight(@)]
      /\ pc' = [pc EXCEPT ![t] = IF scope = "own" THEN "flatten_own" ELSE "flatten_all"]
      /\ UNCHANGED <<cur, res, ord, wire, net>>
  BY <1>1, AloneNet DEF FlattenCancel, Alone, Accountable, durable
<1>3. /\ led'[t] = ClearInFlight(led[t])
      /\ pc'[t] \in {"flatten_own", "flatten_all"}
  BY <1>2 DEF Facts, TypeInv, TypeOK
<1>4. led'[t].volume = led[t].volume /\ led'[t].pending = {}
  BY <1>3 DEF ClearInFlight
<1>5. OpenAt(Tags)' = {}
  <2>1. \A o \in Ids : vst'[o] = IF o \in OpenAt(Tags) THEN "canceled" ELSE vst[o]
    BY <1>2 DEF CancelAtVenue
  <2>2. Drawn' = Drawn /\ Drawn \subseteq Ids
    BY <1>2, DrawnFacts DEF Drawn, Facts, TypeInv
  <2> QED BY <1>2, <2>1, <2>2 DEF OpenAt
<1>6. wire' = {}
  <2>1. AllIdle
    BY <1>2 DEF AllIdle, Alone
  <2> QED BY <1>2, <2>1, IdleWire DEF Facts
<1>7. Signed(dir, led[t].volume) <= Lots(dir)
  <2>1. /\ \A e \in led[t].pending : e.side = dir
        /\ led[t].volume + Unbooked(t) = net
    BY <1>2, IdleSided
  <2>2. /\ IsFiniteSet(Executed(t)) /\ Unbooked(t) = Fills(fq, Executed(t))
        /\ Unbooked(t) \in Int /\ \A e \in Executed(t) : fq[e.id] \in Nat
    BY ExecutedFacts DEF Facts, Executed
  <2>3. Signed(dir, Unbooked(t)) >= 0
    BY <2>1, <2>2, FillsSided DEF Executed
  <2>4. led[t].volume \in Int
    BY DEF Facts, TypeInv, TypeOK, Positions
  <2> QED BY <2>1, <2>2, <2>3, <2>4 DEF Lots, Signed
<1>8. ~Calling(t)' /\ Flattening(t)' /\ res'[t] = "none" /\ Lots(dir)' = Lots(dir)
  BY <1>2, <1>3 DEF Calling, Flattening, Facts, IntentInv, CallAgrees, Lots
<1> QED BY <1>4, <1>5, <1>6, <1>7, <1>8 DEF Kept

\* A net of zero leaves a volume of zero, any other net is taken over.
LEMMA KeptFlattenPositions ==
  ASSUME NEW dir \in Sides, Facts(dir), Facts(dir)', NEW t \in Tags, Alone(t, dir), Kept(t, dir),
         FlattenPositions(t)
  PROVE  Kept(t, dir)'
<1>1. /\ Flattening(t) /\ UNCHANGED <<vst, fq, net>>
      /\ \/ net = 0 /\ Return(t) /\ UNCHANGED <<led, ord>>
         \/ /\ net # 0 /\ led' = [led EXCEPT ![t] = SyncFromVenue(@, net)]
            /\ Draw(t, IF net > 0 THEN "SELL" ELSE "BUY", "CLOSE", "MARKET", Abs(net))
            /\ UNCHANGED res
  BY AloneNet DEF FlattenPositions, Flattening, Alone, Accountable, venueVars
<1>2. /\ led[t].pending = {} /\ Signed(dir, led[t].volume) >= 0
      /\ Signed(dir, led[t].volume) <= Lots(dir)
      /\ led[t].volume \in Int /\ net \in Int
  BY <1>1 DEF Kept, Facts, TypeInv, TypeOK, Positions
<1>3. led'[t].pending = {} => Unbooked(t)' = 0
  <2>1. led'[t].pending = {} => Executed(t)' = {}
    BY DEF Executed
  <2> QED BY <2>1, UnbookedNext, FillsEmpty
<1>4. CASE net = 0 /\ Return(t) /\ UNCHANGED <<led, ord>>
  <2>1. pc'[t] = "idle" /\ res'[t] = "none"
    BY <1>4 DEF Return, Facts, TypeInv, TypeOK
  <2>2. led[t].volume = 0
    BY <1>2, <1>4 DEF Lots, Signed
  <2>3. ~Calling(t)' /\ ~Flattening(t)' /\ Unbooked(t)' = 0
    BY <1>2, <1>3, <1>4, <2>1 DEF Calling, Flattening
  <2> QED BY <1>1, <1>2, <1>4, <2>1, <2>2, <2>3 DEF Kept
<1>5. CASE /\ net # 0 /\ led' = [led EXCEPT ![t] = SyncFromVenue(@, net)]
           /\ Draw(t, IF net > 0 THEN "SELL" ELSE "BUY", "CLOSE", "MARKET", Abs(net))
           /\ UNCHANGED res
  <2>1. led'[t] = SyncFromVenue(led[t], net)
    BY <1>5 DEF Facts, TypeInv, TypeOK
  <2>2. led'[t].volume = net /\ led'[t].pending = {}
    BY <1>2, <2>1 DEF SyncFromVenue
  <2>3. Lots(dir) >= 0
    BY LotsNat DEF Facts
  <2>4. Abs(net) \in Nat /\ Signed(dir, net) = Abs(net)
    BY <1>2, <2>3 DEF Abs, Signed, Lots
  <2>5. /\ "CLOSE" \in Offsets /\ "MARKET" \in Kinds
        /\ (IF net > 0 THEN "SELL" ELSE "BUY") \in Sides
    BY DEF Offsets, Kinds, Sides
  <2>6. res'[t] = "none"
    <3>1. pc[t] \notin {"sent", "finish", "update"}
      BY <1>1 DEF Flattening
    <3> QED BY <1>5, <3>1 DEF Facts, IntentInv, CallAgrees
  <2>7. led'[t].volume + Unbooked(t)' = net'
    BY <1>1, <1>2, <1>3, <2>2
  <2>8. Abs(net) <= Signed(dir, led'[t].volume) /\ Signed(dir, led'[t].volume) >= 0
    BY <2>2, <2>4
  <2>9. \A e \in led'[t].pending : e.side = dir
    BY <2>2
  <2> QED BY <1>5, <2>4, <2>5, <2>6, <2>7, <2>8, <2>9, KeptDraw
<1> QED BY <1>1, <1>4, <1>5

\* What executes is tracked: the lots go from the venue to the entries.
LEMMA KeptExecutes ==
  ASSUME NEW dir \in Sides, Facts(dir), Facts(dir)', NEW t \in Tags, Alone(t, dir), Kept(t, dir),
         phase = "run", NEW o \in Drawn, vst[o] # "filled", Execute(o), UNCHANGED <<led, pc, cur, ord>>,
         IsTracked(led[t], o), ~Flattening(t), res'[t] \in {res[t], "FILLED"}
  PROVE  Kept(t, dir)'
<1>1. PICK e \in led[t].pending : e.id = o
  BY DEF IsTracked
<1>2. o \in Ids /\ ord[o].side \in Sides /\ e.side = ord[o].side
  BY <1>1, DrawnFacts DEF Facts, TypeInv, OrderRecord, LiveInv, BooksMatch
<1>3. \A f \in led[t].pending : f.id \in Ids /\ (f.id = o => f = e)
  BY <1>1, ExecutedFacts DEF Facts, LedgerInv, LedgerAgrees, Balanced
<1>4. /\ vst' = [vst EXCEPT ![o] = "filled"] /\ \E n : fq' = [fq EXCEPT ![o] = n]
      /\ net' = net + Signed(ord[o].side, fq'[o])
  <2>1. CASE ord[o].offset = "OPEN"
    <3>1. /\ vst' = [vst EXCEPT ![o] = "filled"] /\ fq' = [fq EXCEPT ![o] = ord[o].qty]
          /\ net' = net + Signed(ord[o].side, ord[o].qty)
      BY <2>1 DEF Execute
    <3> QED BY <1>2, <3>1 DEF Facts, TypeInv, TypeOK
  <2>2. CASE ord[o].offset # "OPEN"
    <3>1. PICK S : /\ vst' = [vst EXCEPT ![o] = "filled"]
                   /\ fq' = [fq EXCEPT ![o] = Cardinality(S)]
                   /\ net' = net + Signed(ord[o].side, Cardinality(S))
      BY <2>2 DEF Execute, Alone
    <3> QED BY <1>2, <3>1 DEF Facts, TypeInv, TypeOK
  <2> QED BY <2>1, <2>2
<1>5. /\ \A p \in Ids : vst'[p] = IF p = o THEN "filled" ELSE vst[p]
      /\ \A p \in Ids : p # o => fq'[p] = fq[p]
  BY <1>4 DEF Facts, TypeInv, TypeOK
<1>6. /\ e \in Executed(t)' /\ e \notin Executed(t) /\ Executed(t)' = Executed(t) \cup {e}
      /\ \A f \in Executed(t) : fq'[f.id] = fq[f.id]
  BY <1>1, <1>3, <1>5 DEF Executed
<1>7. Unbooked(t)' = Unbooked(t) + Signed(ord[o].side, fq'[o])
  BY <1>1, <1>2, <1>6, UnbookedMore DEF Facts
<1>8. led[t].volume \in Int /\ Unbooked(t) \in Int /\ Signed(ord[o].side, fq'[o]) \in Int
  <2>1. fq'[o] \in Nat
    BY <1>2 DEF Facts, TypeInv, TypeOK
  <2> QED BY <1>2, <2>1, ExecutedFacts, SignedInt DEF Facts, TypeInv, TypeOK, Positions
<1>9. led[t].volume + Unbooked(t) = net
  BY DEF Kept
<1>10. led'[t].volume + Unbooked(t)' = net'
  BY <1>4, <1>7, <1>8, <1>9
<1>11. ~Flattening(t)' /\ (Calling(t)' <=> Calling(t))
  BY DEF Flattening, Calling
<1> QED BY <1>10, <1>11 DEF Kept

\* Whatever the venue does with an order of the tag, the ledger knows of.
LEMMA KeptVenue ==
  ASSUME NEW dir \in Sides, Facts(dir), Facts(dir)', NEW t \in Tags, Alone(t, dir), Kept(t, dir),
         phase = "run", NEW o \in Ids, VenueStep(o)
  PROVE  Kept(t, dir)'
<1>1. UNCHANGED <<led, pc, cur, ord>>
  BY DEF VenueStep, VenueTakes, VenueExecutes, VenueRests, VenueRefuses, VenueFills,
         VenueExpires, VenueFuse, durable, callVars
<1>2. ~VenueFuse(o)
  BY DEF VenueFuse, Alone
<1>3. ~Flattening(t)
  BY <1>2, QuietVenue DEF Kept, Facts
<1>4. ~Flattening(t)' /\ (Calling(t)' <=> Calling(t))
  BY <1>1, <1>3 DEF Flattening, Calling
<1>5. \A p \in wire : p \in Drawn /\ vst[p] = "none" /\ pc[t] = "sent" /\ cur[t] = p
  BY DEF Facts, IntentInv, TypeInv, RefsDrawn, Alone
<1>6. CASE VenueExecutes(o)
  <2>1. o \in Drawn /\ vst[o] = "none" /\ pc[t] = "sent" /\ cur[t] = o
    BY <1>5, <1>6 DEF VenueExecutes
  <2>2. IsTracked(led[t], o)
    BY <2>1 DEF Facts, LedgerInv, LedgerAgrees
  <2>3. Execute(o) /\ res'[t] \in {res[t], "FILLED"}
    BY <1>6 DEF VenueExecutes, Reply
  <2> QED BY <1>1, <1>3, <2>1, <2>2, <2>3, KeptExecutes
<1>7. CASE VenueFills(o)
  <2>1. o \in Drawn /\ vst[o] = "open" /\ Execute(o) /\ UNCHANGED res
    BY <1>7 DEF VenueFills, callVars
  <2>2. ord[o].tag = t
    BY <2>1, DrawnFacts DEF Facts, TypeInv, OrderRecord, Alone
  <2>3. IsTracked(led[t], o)
    BY <2>1, <2>2 DEF Facts, LiveInv, RestingTracked, LedgerInv
  <2> QED BY <1>1, <1>3, <2>1, <2>3, KeptExecutes
<1>8. CASE VenueRests(o) \/ VenueRefuses(o) \/ VenueExpires(o)
  <2>1. /\ vst[o] # "filled" /\ UNCHANGED <<fq, net>>
        /\ \E s \in {"open", "refused", "canceled"} : vst' = [vst EXCEPT ![o] = s]
    BY <1>5, <1>8 DEF VenueRests, VenueRefuses, VenueExpires
  <2>2. \A p \in Ids : vst'[p] = "filled" <=> vst[p] = "filled"
    BY <2>1 DEF Facts, TypeInv, TypeOK
  <2>3. Executed(t)' = Executed(t)
    BY <1>1, <2>2, ExecutedFacts DEF Executed, Facts
  <2>4. /\ res'[t] # "UNKNOWN"
        /\ Calling(t) /\ ord[cur[t]].offset = "CLOSE" => res'[t] # "IN_FLIGHT"
    <3>1. res[t] # "UNKNOWN" /\ (Calling(t) /\ ord[cur[t]].offset = "CLOSE" =>
            ord[cur[t]].kind = "MARKET" /\ res[t] # "IN_FLIGHT")
      BY DEF Kept
    <3>2. CASE VenueRests(o)
      <4>1. ord[o].kind # "MARKET" /\ res'[t] \in {res[t], "IN_FLIGHT"} /\ cur[t] = o
        BY <1>5, <3>2 DEF VenueRests, Reply, Alone
      <4> QED BY <3>1, <4>1
    <3>3. CASE VenueRefuses(o) \/ VenueExpires(o)
      <4>1. res'[t] \in {res[t], "DEAD"}
        BY <3>3 DEF VenueRefuses, VenueExpires, Reply, callVars
      <4> QED BY <3>1, <4>1
    <3> QED BY <1>8, <3>2, <3>3
  <2> QED BY <1>1, <1>3, <1>4, <2>1, <2>3, <2>4, KeptSame
<1> QED BY <1>2, <1>6, <1>7, <1>8 DEF VenueStep, VenueTakes

-----------------------------------------------------------------------------
(* The first life of the process.                                          *)

\* The first start finds nothing: no order, no position, no row.
LEMMA KnownRunner ==
  ASSUME NEW dir \in Sides, Facts(dir), Facts(dir)', NEW t \in Tags, Alone(t, dir),
         KnownInv(t, dir), Runner
  PROVE  KnownInv(t, dir)'
<1>1. CASE starts = 1 /\ phase \in {"recover", "reconcile"} /\ Boot
  <2>1. /\ ord = <<>> /\ led[t] = EmptyPosition /\ Drawn = {} /\ todo = {} /\ seen = {}
        /\ net = 0
    <3>1. ord = <<>> /\ led[t] = EmptyPosition
      BY <1>1 DEF KnownInv
    <3>2. Drawn = {}
      BY <3>1 DEF Drawn
    <3> QED BY <3>1, <3>2 DEF Facts, TypeInv, RefsDrawn, OrdersInv
  <2>2. ~RecoverRow /\ \A u \in Tags : ~Register(u)
    BY <2>1 DEF RecoverRow, NextRow, Register
  <2>3. ~RecoverFails
    BY DEF RecoverFails, Alone, Accountable
  <2>4. UNCHANGED <<starts, pc, cur, res, ord, wire, vst, fq, held, net>>
    BY <1>1, <2>2, <2>3 DEF Boot, RecoverDone, RunStrategies, ReconcilePositions,
       ReconcileOrders, Reconciled, callVars, durable, venueVars
  <2>5. led'[t] = EmptyPosition
    <3>1. UNCHANGED led \/ \E u \in Tags : ReconcilePositions(u)
      BY <1>1, <2>2, <2>3 DEF Boot, RecoverDone, RunStrategies, ReconcileOrders, Reconciled,
         callVars
    <3>2. \A u \in Tags : ReconcilePositions(u) => UNCHANGED led
      <4>1. \A u \in Tags : {u} = Tags
        BY DEF Alone
      <4>2. VenueNet(Tags) = 0
        BY <2>1, NetSided DEF Facts
      <4> QED BY <4>1, <4>2 DEF ReconcilePositions
    <3> QED BY <2>1, <3>1, <3>2
  <2>6. Kept(t, dir)'
    <3>1. pc[t] = "idle" /\ res[t] = "none"
      BY <1>1 DEF Facts, IntentInv, CallAgrees, AllIdle
    <3>2. led'[t].pending = {} /\ led'[t].volume = 0
      BY <2>5 DEF EmptyPosition
    <3>3. Executed(t)' = {}
      BY <3>2 DEF Executed
    <3>4. Unbooked(t)' = 0
      BY <3>3, UnbookedNext, FillsEmpty
    <3>5. ~Calling(t)' /\ ~Flattening(t)'
      BY <2>4, <3>1 DEF Calling, Flattening
    <3> QED BY <2>1, <2>4, <3>1, <3>2, <3>4, <3>5 DEF Kept, Signed
  <2> QED BY <1>1, <2>1, <2>4, <2>5, <2>6 DEF KnownInv
<1>2. CASE starts # 1 /\ Boot
  <2>1. UNCHANGED starts /\ phase # "down"
    BY <1>2 DEF Boot, RecoverRow, RecoverFails, RecoverDone, RunStrategies, ReconcilePositions,
       ReconcileOrders, Register, Reconciled
  <2> QED BY <1>2, <2>1 DEF KnownInv
<1>3. CASE Start
  <2>1. UNCHANGED <<ord, led>> /\ phase' = "recover" /\ starts' = starts + 1
    BY <1>3 DEF Start, callVars, durable
  <2>2. starts \in Nat
    BY DEF Facts, TypeInv, TypeOK
  <2> QED BY <2>1, <2>2 DEF KnownInv
<1>4. CASE Crash \/ Stopped \/ Shutdown \/ \E u \in Tags : ShutdownFlatten(u)
  <2>1. UNCHANGED starts /\ phase' \in {"down", "stopped", "stop"} /\ phase # "down"
    BY <1>4 DEF Crash, Stopped, Shutdown, ShutdownFlatten
  <2> QED BY <2>1 DEF KnownInv
<1>5. Boot => phase \in {"recover", "reconcile"}
  BY DEF Boot, RecoverRow, RecoverFails, RecoverDone, RunStrategies, ReconcilePositions,
     ReconcileOrders, Register, Reconciled
<1> QED BY <1>1, <1>2, <1>3, <1>4, <1>5 DEF Runner

\* Every step of the first life keeps what is known.
LEMMA KnownStep ==
  ASSUME NEW dir \in Sides, Facts(dir), Facts(dir)', NEW t \in Tags, Alone(t, dir),
         KnownInv(t, dir), [Next]_vars
  PROVE  KnownInv(t, dir)'
<1>1. CASE Worker(t)
  <2>1. UNCHANGED <<starts, phase>>
    BY <1>1 DEF Worker, WorkerStep, Resolve, Cancel, StrategyFlatten, FlattenPositions,
       Accept, Begin, Submit, Answered, NoAnswer, Finish, Update, procVars
  <2>2. phase \in {"run", "stop"}
    BY <1>1 DEF Worker, WorkerStep, Resolve, Cancel, StrategyFlatten, FlattenPositions,
       Accept, Begin, Submit, Answered, NoAnswer, Finish, Update, Facts, IntentInv, AllIdle
  <2>3. ASSUME phase = "run", starts = 1 PROVE Kept(t, dir)'
    <3>1. Kept(t, dir)
      BY <2>3 DEF KnownInv
    <3> QED BY <1>1, <3>1, KeptCall, KeptResolve, KeptAccept, KeptUpdate, KeptCancel,
               KeptStrategyFlatten, KeptFlattenPositions DEF Worker, WorkerStep
  <2> QED BY <2>1, <2>2, <2>3 DEF KnownInv
<1>2. ASSUME NEW o \in Ids, VenueStep(o) PROVE KnownInv(t, dir)'
  <2>1. UNCHANGED <<starts, phase, led, ord>>
    BY <1>2 DEF VenueStep, VenueTakes, VenueExecutes, VenueRests, VenueRefuses, VenueFills,
       VenueExpires, VenueFuse, durable, callVars, procVars
  <2>2. ASSUME phase = "run", starts = 1 PROVE Kept(t, dir)'
    <3>1. Kept(t, dir)
      BY <2>2 DEF KnownInv
    <3> QED BY <1>2, <2>2, <3>1, KeptVenue
  <2> QED BY <2>1, <2>2 DEF KnownInv
<1>3. CASE UNCHANGED vars
  <2>1. UNCHANGED <<starts, phase, led, pc, cur, res, ord, vst, fq, net, wire>>
    BY <1>3 DEF vars, procVars, callVars, durable, venueVars
  <2>2. Executed(t)' = Executed(t) /\ (Calling(t)' <=> Calling(t))
        /\ (Flattening(t)' <=> Flattening(t)) /\ OpenAt(Tags)' = OpenAt(Tags)
        /\ Lots(dir)' = Lots(dir)
    BY <2>1 DEF Executed, Calling, Flattening, OpenAt, Drawn, Lots
  <2>3. Unbooked(t)' = Unbooked(t)
    BY <2>1, <2>2, UnbookedSame DEF Facts
  <2> QED BY <2>1, <2>2, <2>3 DEF KnownInv, Kept
<1>4. \A u \in Tags : u = t
  BY DEF Alone
<1> QED BY <1>1, <1>2, <1>3, <1>4, KnownRunner DEF Next

\* In the first life of a process with one strategy that opens on one side of a
\* hedging account, filled volume plus executed orders still pending is the net,
\* whatever was cancelled, flattened, refused or expired in between.
THEOREM ExposureKnownHolds ==
  ASSUME NEW dir \in Sides, OneSided(dir), Accountable, Ticketed, "fuse" \notin Faults,
         NEW t, Tags = {t}
  PROVE  Spec => []ExposureKnown
<1> DEFINE Inv == TypeInv /\ RowsAhead /\ IntentInv /\ LedgerInv /\ LiveInv
<1>1. Spec => []Inv
  <2>1. Sound
    BY DEF Accountable
  <2> QED BY <2>1, IntentInvariant, LiveInvariant, PTL
<1>2. ASSUME Init PROVE OrdersInv(dir) /\ KnownInv(t, dir)
  <2>1. /\ ord = <<>> /\ held = {} /\ net = 0 /\ phase = "down" /\ starts = 0
        /\ led[t] = EmptyPosition /\ \A o \in Ids : fq[o] = 0
    BY <1>2 DEF Init
  <2>2. Drawn = {} /\ Lots(dir) = 0 /\ Cardinality(held) = 0
    BY <2>1, FS_EmptySet, SignedZero DEF Drawn, Lots
  <2> QED BY <2>1, <2>2 DEF OrdersInv, KnownInv
<1>3. Alone(t, dir) /\ t \in Tags
  BY DEF Alone
<1>4. Inv /\ Inv' /\ OrdersInv(dir) /\ KnownInv(t, dir) /\ [Next]_vars
        => (OrdersInv(dir) /\ KnownInv(t, dir))'
  <2>1. SUFFICES ASSUME Inv, Inv', OrdersInv(dir), KnownInv(t, dir), [Next]_vars
                 PROVE  (OrdersInv(dir) /\ KnownInv(t, dir))'
    OBVIOUS
  <2>2. OrdersInv(dir)'
    BY <2>1, OrdersStep
  <2>3. Facts(dir) /\ Facts(dir)'
    BY <2>1, <2>2 DEF Facts
  <2> QED BY <1>3, <2>1, <2>2, <2>3, KnownStep
<1>5. Inv /\ OrdersInv(dir) /\ KnownInv(t, dir) => ExposureKnown
  <2>1. SUFFICES ASSUME Inv, OrdersInv(dir), Kept(t, dir), AllIdle
                 PROVE  led[t].volume + Unbooked(t) = VenueNet({t})
    BY <1>3 DEF KnownInv, ExposureKnown
  <2>2. led[t].volume + Unbooked(t) = net
    BY <1>3, <2>1, IdleSided DEF AllIdle
  <2> QED BY <2>1, <2>2, NetSided
<1> HIDE DEF Inv
<1> QED BY <1>1, <1>2, <1>4, <1>5, PTL DEF Spec
===============================================================================
