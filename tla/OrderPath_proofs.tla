---------------------------- MODULE OrderPath_proofs ----------------------------
(***************************************************************************)
(* Theorems about the order path, for every set of tags, every bound and   *)
(* every request set: its types, that it writes ahead for every fault, and *)
(* that it implements OrderIntents as long as every submit is answered     *)
(* truthfully (Sound); that the exposure ledger counts every order once,   *)
(* for every fault, and what it has in flight is what is on its way as     *)
(* long as statuses tell the truth, reads are answered and a cancel        *)
(* cancels (Accountable).                                                  *)
(*                                                                         *)
(* TypeInv and then IntentInv are inductive. IntentInv ties the step of    *)
(* each worker to the row and the venue state of the order it is sending;  *)
(* JournalTruthful alone is not inductive, because nothing in it says that *)
(* a row about to be written agrees with the venue, nor that an order      *)
(* still on the wire belongs to a worker that waits for it. LedgerInv      *)
(* follows the record of a tag through the steps of its worker, RowsInv    *)
(* says whose an undecided row is, and LiveInv ties the entries of a       *)
(* ledger to the orders at rest.                                           *)
(***************************************************************************)
EXTENDS OrderPath, SetSums

Calling(t) == pc[t] \in {"accept", "begin", "submit", "sent", "finish", "update"}

\* Every id the state mentions has been drawn.
RefsDrawn ==
  /\ \A t \in Tags : Calling(t) => cur[t] \in Drawn
  /\ todo \subseteq Drawn /\ seen \subseteq Drawn
  /\ wire \subseteq Drawn /\ held \subseteq Drawn
  /\ \A o \in Ids : vst[o] # "none" \/ journal[o] # "none" => o \in Drawn

TypeInv == TypeOK /\ RefsDrawn

-----------------------------------------------------------------------------
(* The ledger's operators stay within their type.                          *)

LEMMA SignedInt ==
  ASSUME NEW side \in Sides, NEW qty \in Nat
  PROVE  Signed(side, qty) \in Int
BY DEF Signed

\* A release is an integer, whether the order is tracked or not.
LEMMA ReleasedInt ==
  ASSUME NEW I, NEW tp \in Positions(I), NEW o, NEW n \in Int
  PROVE  Released(tp, o, n) \in Int
<1>1. CASE IsTracked(tp, o)
  <2> DEFINE e == CHOOSE e \in tp.pending : e.id = o
  <2>1. e \in tp.pending
    BY <1>1 DEF IsTracked
  <2>2. e.side \in Sides /\ e.qty \in Nat
    BY <2>1 DEF Positions
  <2> QED BY <1>1, <2>2, SignedInt DEF Released
<1>2. CASE ~IsTracked(tp, o)
  BY <1>2 DEF Released
<1> QED BY <1>1, <1>2

LEMMA AcceptedType ==
  ASSUME NEW I, NEW tp \in Positions(I), NEW o \in I,
         NEW side \in Sides, NEW offset \in Offsets, NEW qty \in Nat
  PROVE  OnOrderAccepted(tp, o, side, offset, qty) \in Positions(I)
<1>1. Signed(side, qty) \in Int
  BY SignedInt
<1>2. Others(tp, o) \cup {Entry(o, side, offset, qty)}
        \in SUBSET [id : I, side : Sides, offset : Offsets, qty : Nat]
  BY DEF Others, Entry, Positions
<1> QED BY <1>1, <1>2 DEF OnOrderAccepted, Positions

LEMMA FilledType ==
  ASSUME NEW I, NEW tp \in Positions(I), NEW o,
         NEW side \in Sides, NEW qty \in Nat
  PROVE  OnOrderFilled(tp, o, side, qty) \in Positions(I)
<1>1. Signed(side, qty) \in Int
  BY SignedInt
<1>2. Released(tp, o, Signed(side, qty)) \in Int
  BY <1>1, ReleasedInt
<1> QED BY <1>1, <1>2 DEF OnOrderFilled, Others, Positions

LEMMA DeadType ==
  ASSUME NEW I, NEW tp \in Positions(I), NEW o,
         NEW side \in Sides, NEW qty \in Nat
  PROVE  OnOrderDead(tp, o, side, qty) \in Positions(I)
<1>1. Signed(side, qty) \in Int
  BY SignedInt
<1>2. Released(tp, o, Signed(side, qty)) \in Int
  BY <1>1, ReleasedInt
<1> QED BY <1>1, <1>2 DEF OnOrderDead, Others, Positions

LEMMA SyncType ==
  ASSUME NEW I, NEW tp \in Positions(I), NEW n \in Int
  PROVE  SyncFromVenue(tp, n) \in Positions(I) /\ ClearInFlight(tp) \in Positions(I)
BY DEF SyncFromVenue, ClearInFlight, Positions

-----------------------------------------------------------------------------
(* Type correctness, one lemma per action.                                 *)

LEMMA DrawnFacts ==
  ASSUME TypeOK
  PROVE  /\ Drawn \subseteq Ids
         /\ \A o \in Drawn : ord[o] \in OrderRecord
         /\ Len(ord) \in Nat
BY BoundAssumption DEF TypeOK, Drawn, Ids

LEMMA VenueNetInt ==
  ASSUME TypeOK, NEW T
  PROVE  VenueNet(T) \in Int
<1>1. IsFiniteSet(Ids)
  BY FS_Interval, BoundAssumption DEF Ids
<1>2. IsFiniteSet(Longs(T)) /\ IsFiniteSet(Shorts(T))
  BY <1>1, FS_Subset DEF TypeOK, Longs, Shorts
<1>3. Cardinality(Longs(T)) \in Nat /\ Cardinality(Shorts(T)) \in Nat
  BY <1>2, FS_CardinalityType
<1> QED BY <1>3 DEF VenueNet, TypeOK

\* A draw gives the caller a fresh id and keeps all earlier ones.
LEMMA DrawStep ==
  ASSUME TypeOK, NEW t \in Tags, NEW side \in Sides, NEW offset \in Offsets,
         NEW kind \in Kinds, NEW qty \in Nat, Draw(t, side, offset, kind, qty)
  PROVE  /\ ord' \in Seq(OrderRecord) /\ Len(ord') <= MaxOrders
         /\ Len(ord') = Len(ord) + 1
         /\ Drawn' = Drawn \cup {Len(ord) + 1}
         /\ Len(ord) + 1 \in Ids \ Drawn
         /\ \A o \in Drawn : ord'[o] = ord[o]
         /\ ord'[Len(ord) + 1].tag = t
         /\ cur' \in [Tags -> Ids \cup {0}]
         /\ pc' \in [Tags -> Steps]
<1> DEFINE r == [tag |-> t, side |-> side, offset |-> offset, kind |-> kind, qty |-> qty]
<1>1. r \in OrderRecord
  BY DEF OrderRecord
<1>2. ord' = Append(ord, r) /\ Len(ord) < MaxOrders /\ ord \in Seq(OrderRecord)
  BY DEF Draw, TypeOK
<1>3. Len(ord) \in Nat /\ MaxOrders \in Nat
  BY <1>2, BoundAssumption
<1>4. ord' \in Seq(OrderRecord) /\ Len(ord') = Len(ord) + 1
  BY <1>1, <1>2
<1>5. ord'[Len(ord) + 1] = r /\ \A o \in Drawn : ord'[o] = ord[o]
  BY <1>1, <1>2, <1>3 DEF Drawn
<1>6. Drawn' = Drawn \cup {Len(ord) + 1} /\ Len(ord) + 1 \in Ids \ Drawn
  BY <1>2, <1>3, <1>4 DEF Drawn, Ids
<1>7. cur' \in [Tags -> Ids \cup {0}] /\ pc' \in [Tags -> Steps]
  BY <1>6 DEF Draw, TypeOK, Steps
<1>8. r.tag = t
  OBVIOUS
<1>9. Len(ord) + 1 <= MaxOrders
  BY <1>2, <1>3
<1> HIDE DEF r
<1> QED BY <1>4, <1>5, <1>6, <1>7, <1>8, <1>9

\* The ids a draw leaves mentioned are drawn.
LEMMA DrawRefs ==
  ASSUME TypeInv, NEW t \in Tags, NEW side \in Sides, NEW offset \in Offsets,
         NEW kind \in Kinds, NEW qty \in Nat, Draw(t, side, offset, kind, qty),
         UNCHANGED <<procVars, journal, venueVars>>
  PROVE  RefsDrawn'
<1>1. Drawn \subseteq Drawn' /\ Len(ord) + 1 \in Drawn'
  BY DrawStep DEF TypeInv
<1>2. cur' = [cur EXCEPT ![t] = Len(ord) + 1] /\ pc' = [pc EXCEPT ![t] = "accept"]
  BY DEF Draw
<1> QED BY <1>1, <1>2 DEF TypeInv, TypeOK, RefsDrawn, Calling, procVars, venueVars

LEMMA ResolveType ==
  ASSUME TypeInv, NEW t \in Tags, Resolve(t)
  PROVE  TypeInv'
<1>1. PICK r \in Requests, qty \in 1 .. MaxOrders :
        Draw(t, r.side, r.offset, r.kind, qty)
  BY DEF Resolve
<1>2. r.side \in Sides /\ r.offset \in Offsets /\ r.kind \in Kinds /\ qty \in Nat
  BY RequestAssumption, BoundAssumption DEF Kinds
<1>3. UNCHANGED <<procVars, led, res, journal, venueVars>>
  BY DEF Resolve
<1>4. RefsDrawn'
  BY <1>1, <1>2, <1>3, DrawRefs
<1>5. /\ ord' \in Seq(OrderRecord) /\ Len(ord') <= MaxOrders
      /\ cur' \in [Tags -> Ids \cup {0}] /\ pc' \in [Tags -> Steps]
  BY <1>1, <1>2, DrawStep DEF TypeInv
<1> QED BY <1>3, <1>4, <1>5 DEF TypeInv, TypeOK, procVars, venueVars

LEMMA AcceptType ==
  ASSUME TypeInv, NEW t \in Tags, Accept(t)
  PROVE  TypeInv'
<1> DEFINE o == cur[t]
<1>1. o \in Drawn /\ o \in Ids /\ ord[o] \in OrderRecord
  BY DrawnFacts DEF TypeInv, RefsDrawn, Calling, Accept
<1>2. OnOrderAccepted(led[t], o, ord[o].side, ord[o].offset, ord[o].qty) \in Positions(Ids)
  BY <1>1, AcceptedType DEF TypeInv, TypeOK, OrderRecord
<1>3. led' \in [Tags -> Positions(Ids)] /\ pc' \in [Tags -> Steps]
  BY <1>2 DEF Accept, TypeInv, TypeOK, Steps
<1> QED BY <1>3 DEF TypeInv, TypeOK, RefsDrawn, Calling, Drawn, Accept,
                    procVars, durable, venueVars

LEMMA BeginType ==
  ASSUME TypeInv, NEW t \in Tags, Begin(t)
  PROVE  TypeInv'
<1>1. cur[t] \in Drawn
  BY DEF TypeInv, RefsDrawn, Calling, Begin
<1> QED BY <1>1 DEF TypeInv, TypeOK, RefsDrawn, Calling, Drawn, Begin, Steps,
                    Pending, procVars, venueVars

LEMMA SubmitType ==
  ASSUME TypeInv, NEW t \in Tags, Submit(t)
  PROVE  TypeInv'
<1>1. cur[t] \in Drawn /\ Drawn \subseteq Ids
  BY DrawnFacts DEF TypeInv, RefsDrawn, Calling, Submit
<1> QED BY <1>1 DEF TypeInv, TypeOK, RefsDrawn, Calling, Drawn, Submit, Steps,
                    procVars, durable

LEMMA AnsweredType ==
  ASSUME TypeInv, NEW t \in Tags, Answered(t) \/ NoAnswer(t)
  PROVE  TypeInv'
<1>1. pc[t] = "sent" /\ pc' = [pc EXCEPT ![t] = "finish"] /\ wire' \subseteq wire
  BY DEF Answered, NoAnswer, venueVars
<1>2. res' \in [Tags -> Pending \cup Terminal \cup {"none"}]
  BY DEF TypeInv, TypeOK, Answered, NoAnswer, Pending, Terminal
<1> QED BY <1>1, <1>2 DEF TypeInv, TypeOK, RefsDrawn, Calling, Drawn, Answered,
                    NoAnswer, Steps, procVars, durable, venueVars

LEMMA ReturnType ==
  ASSUME TypeOK, NEW t \in Tags, Return(t)
  PROVE  /\ pc' \in [Tags -> Steps] /\ cur' \in [Tags -> Ids \cup {0}]
         /\ res' \in [Tags -> Pending \cup Terminal \cup {"none"}]
         /\ \A u \in Tags : u # t => pc'[u] = pc[u] /\ cur'[u] = cur[u]
         /\ pc'[t] = "idle"
BY DEF TypeOK, Return, Steps

LEMMA FinishType ==
  ASSUME TypeInv, NEW t \in Tags, Finish(t)
  PROVE  TypeInv'
<1>1. cur[t] \in Drawn /\ Drawn \subseteq Ids
  BY DrawnFacts DEF TypeInv, RefsDrawn, Calling, Finish
<1>2. journal' \in [Ids -> Pending \cup Terminal \cup {"none"}]
  BY DEF TypeInv, TypeOK, Finish
<1>3. \A o \in Ids : journal'[o] # "none" => o \in Drawn
  BY <1>1 DEF TypeInv, TypeOK, RefsDrawn, Finish
<1>4. CASE Return(t)
  BY <1>1, <1>2, <1>3, <1>4, ReturnType
  DEF TypeInv, TypeOK, RefsDrawn, Calling, Drawn, Finish, procVars, venueVars
<1>5. CASE pc' = [pc EXCEPT ![t] = "update"] /\ UNCHANGED <<cur, res>>
  BY <1>1, <1>2, <1>3, <1>5
  DEF TypeInv, TypeOK, RefsDrawn, Calling, Drawn, Finish, Steps, procVars, venueVars
<1> QED BY <1>4, <1>5 DEF Finish

LEMMA UpdateType ==
  ASSUME TypeInv, NEW t \in Tags, Update(t)
  PROVE  TypeInv'
<1> DEFINE o == cur[t]
<1>1. o \in Drawn /\ o \in Ids /\ ord[o] \in OrderRecord /\ fq[o] \in Nat
  BY DrawnFacts DEF TypeInv, TypeOK, RefsDrawn, Calling, Update
<1>2. ord[o].side \in Sides /\ ord[o].qty \in Nat /\ led[t] \in Positions(Ids)
  BY <1>1 DEF OrderRecord, TypeInv, TypeOK
<1>3. /\ OnOrderFilled(led[t], o, ord[o].side, fq[o]) \in Positions(Ids)
      /\ OnOrderDead(led[t], o, ord[o].side, ord[o].qty) \in Positions(Ids)
  BY <1>1, <1>2, FilledType, DeadType
<1>4. led' \in [Tags -> Positions(Ids)]
  BY <1>2, <1>3 DEF Update, TypeInv, TypeOK
<1> QED BY <1>4, ReturnType DEF TypeInv, TypeOK, RefsDrawn, Calling, Drawn, Update,
                    procVars, durable, venueVars

\* A cancel changes the state of drawn orders only.
LEMMA CanceledType ==
  ASSUME TypeInv, NEW S \in SUBSET Drawn, CancelAtVenue(S)
  PROVE  /\ vst' \in [Ids -> {"none", "refused", "open", "filled", "canceled"}]
         /\ \A o \in Ids : vst'[o] # "none" => o \in Drawn
BY DEF TypeInv, TypeOK, RefsDrawn, CancelAtVenue

LEMMA CancelType ==
  ASSUME TypeInv, NEW t \in Tags, Cancel(t)
  PROVE  TypeInv'
<1>1. PICK o \in OpenAt({t}) : CancelAtVenue({o})
  BY DEF Cancel
<1>2. {o} \in SUBSET Drawn
  BY DEF OpenAt
<1>3. /\ vst' \in [Ids -> {"none", "refused", "open", "filled", "canceled"}]
      /\ \A p \in Ids : vst'[p] # "none" => p \in Drawn
  BY <1>1, <1>2, CanceledType
<1> QED BY <1>3 DEF Cancel, TypeInv, TypeOK, RefsDrawn, Calling, Drawn,
                    procVars, callVars, durable

LEMMA FlattenCancelType ==
  ASSUME TypeInv, NEW t \in Tags, NEW scope, FlattenCancel(t, scope)
  PROVE  /\ led' \in [Tags -> Positions(Ids)] /\ pc' \in [Tags -> Steps]
         /\ vst' \in [Ids -> {"none", "refused", "open", "filled", "canceled"}]
         /\ \A o \in Ids : vst'[o] # "none" => o \in Drawn
         /\ \A u \in Tags : Calling(u)' => Calling(u)
<1>1. PICK S \in SUBSET OpenAt(ScopeTags(t, scope)) : CancelAtVenue(S)
  BY DEF FlattenCancel
<1>2. S \in SUBSET Drawn
  BY DEF OpenAt
<1>3. /\ vst' \in [Ids -> {"none", "refused", "open", "filled", "canceled"}]
      /\ \A o \in Ids : vst'[o] # "none" => o \in Drawn
  BY <1>1, <1>2, CanceledType
<1>4. led[t] \in Positions(Ids) /\ ClearInFlight(led[t]) \in Positions(Ids)
  <2>1. led[t] \in Positions(Ids)
    BY DEF TypeInv, TypeOK
  <2> QED BY <2>1, SyncType, 0 \in Int
<1>5. led' \in [Tags -> Positions(Ids)]
  BY <1>4 DEF FlattenCancel, TypeInv, TypeOK
<1>6. pc' \in [Tags -> Steps] /\ \A u \in Tags : Calling(u)' => Calling(u)
  BY DEF FlattenCancel, TypeInv, TypeOK, Steps, Calling
<1> QED BY <1>3, <1>5, <1>6

LEMMA StrategyFlattenType ==
  ASSUME TypeInv, NEW t \in Tags, StrategyFlatten(t)
  PROVE  TypeInv'
<1>1. PICK scope \in FlattenScopes : FlattenCancel(t, scope)
  BY DEF StrategyFlatten
<1>2. UNCHANGED <<procVars, cur, res, durable, wire, fq, held, fillNo, net>>
  BY <1>1 DEF StrategyFlatten, FlattenCancel
<1> QED BY <1>1, <1>2, FlattenCancelType
        DEF TypeInv, TypeOK, RefsDrawn, Drawn, procVars, durable

LEMMA ShutdownFlattenType ==
  ASSUME TypeInv, NEW t \in Tags, ShutdownFlatten(t)
  PROVE  TypeInv'
<1>1. CASE FlattenCancel(t, "all")
  <2>1. UNCHANGED <<phase, starts, todo, rstep, seen, cur, res, durable, wire, fq, held, fillNo, net>>
        /\ stopping' \subseteq stopping
    BY <1>1 DEF ShutdownFlatten, FlattenCancel
  <2> QED BY <1>1, <2>1, FlattenCancelType DEF TypeInv, TypeOK, RefsDrawn, Drawn, durable
<1>2. CASE UNCHANGED <<callVars, durable, venueVars>>
  BY <1>2 DEF ShutdownFlatten, TypeInv, TypeOK, RefsDrawn, Calling, Drawn,
              callVars, durable, venueVars
<1> QED BY <1>1, <1>2 DEF ShutdownFlatten

LEMMA FlattenPositionsType ==
  ASSUME TypeInv, NEW t \in Tags, FlattenPositions(t)
  PROVE  TypeInv'
<1> DEFINE scope  == IF pc[t] = "flatten_own" THEN "own" ELSE "all"
           netVol == VenueNet(ScopeTags(t, scope))
<1>1. UNCHANGED <<procVars, journal, venueVars>>
  BY DEF FlattenPositions
<1>2. CASE Return(t) /\ UNCHANGED <<led, ord>>
  BY <1>1, <1>2, ReturnType
  DEF TypeInv, TypeOK, RefsDrawn, Calling, Drawn, procVars, venueVars
<1>3. CASE /\ netVol # 0
           /\ led' = [led EXCEPT ![t] = SyncFromVenue(@, netVol)]
           /\ Draw(t, IF netVol > 0 THEN "SELL" ELSE "BUY", "CLOSE", "MARKET", Abs(netVol))
           /\ UNCHANGED res
  <2> DEFINE side == IF netVol > 0 THEN "SELL" ELSE "BUY"
  <2>1. netVol \in Int
    BY VenueNetInt DEF TypeInv
  <2> HIDE DEF netVol
  <2>2. side \in Sides /\ "CLOSE" \in Offsets /\ "MARKET" \in Kinds /\ Abs(netVol) \in Nat
    BY <2>1 DEF Sides, Offsets, Kinds, Abs
  <2>3. led[t] \in Positions(Ids)
    BY DEF TypeInv, TypeOK
  <2>4. SyncFromVenue(led[t], netVol) \in Positions(Ids)
    BY <2>1, <2>3, SyncType
  <2>5. led' \in [Tags -> Positions(Ids)]
    BY <1>3, <2>4 DEF TypeInv, TypeOK
  <2>6. Draw(t, side, "CLOSE", "MARKET", Abs(netVol))
    BY <1>3
  <2> HIDE DEF side
  <2>7. RefsDrawn'
    BY <1>1, <2>2, <2>6, DrawRefs
  <2>8. /\ ord' \in Seq(OrderRecord) /\ Len(ord') <= MaxOrders
        /\ cur' \in [Tags -> Ids \cup {0}] /\ pc' \in [Tags -> Steps]
    BY <2>2, <2>6, DrawStep DEF TypeInv
  <2> QED BY <1>1, <1>3, <2>5, <2>7, <2>8 DEF TypeInv, TypeOK, procVars, venueVars
<1> QED BY <1>2, <1>3 DEF FlattenPositions

LEMMA EmptyType ==
  ASSUME NEW I
  PROVE  EmptyPosition \in Positions(I)
<1>1. {} \in SUBSET [id : I, side : Sides, offset : Offsets, qty : Nat]
  OBVIOUS
<1> QED BY <1>1, 0 \in Int DEF EmptyPosition, Positions

\* Losing the memory of the process keeps the types and forgets all ids.
LEMMA LoseMemoryType ==
  ASSUME TypeInv, LoseMemory, UNCHANGED <<durable, vst, fq, held, fillNo, net>>,
         wire' \subseteq wire, starts' = starts,
         phase' \in {"down", "stopped"}
  PROVE  TypeInv'
<1>1. EmptyPosition \in Positions(Ids)
  BY EmptyType
<1>2. led' \in [Tags -> Positions(Ids)]
  BY <1>1 DEF LoseMemory
<1>3. \A t \in Tags : ~Calling(t)'
  BY DEF LoseMemory, Calling
<1> QED BY <1>2, <1>3 DEF TypeInv, TypeOK, RefsDrawn, Drawn, LoseMemory, durable, Steps

LEMMA StartType ==
  ASSUME TypeInv, Start
  PROVE  TypeInv'
<1>1. /\ todo' = {o \in Ids : journal[o] \in Pending}
      /\ phase' = "recover" /\ starts' = starts + 1 /\ starts < MaxStarts
      /\ UNCHANGED <<rstep, seen, stopping, callVars, durable, venueVars>>
  BY DEF Start
<1>2. todo' \subseteq Ids /\ todo' \subseteq Drawn
  BY <1>1 DEF TypeInv, RefsDrawn, Pending
<1>3. starts' \in 0 .. MaxStarts
  BY <1>1, BoundAssumption DEF TypeInv, TypeOK
<1> HIDE DEF Pending
<1> QED BY <1>1, <1>2, <1>3 DEF TypeInv, TypeOK, RefsDrawn, Calling, Drawn,
                               callVars, durable, venueVars

\* The next row to recover is that of a drawn order.
LEMMA NextRowDrawn ==
  ASSUME TypeInv, NEW o \in NextRow
  PROVE  /\ o \in Drawn /\ o \in Ids /\ ord[o] \in OrderRecord
         /\ ord[o].tag \in Tags /\ ord[o].side \in Sides
         /\ ord[o].offset \in Offsets /\ ord[o].qty \in Nat
<1>1. o \in Drawn
  BY DEF NextRow, TypeInv, RefsDrawn
<1>2. o \in Ids /\ ord[o] \in OrderRecord
  BY <1>1, DrawnFacts DEF TypeInv
<1> QED BY <1>1, <1>2 DEF OrderRecord

LEMMA RecoverRowType ==
  ASSUME TypeInv, RecoverRow
  PROVE  TypeInv'
<1>1. PICK o \in NextRow :
        LET r     == ord[o]
            found == OnOrderAccepted(led[r.tag], o, r.side, r.offset, r.qty) IN
          /\ todo' = todo \ {o}
          /\ \/ /\ journal' = [journal EXCEPT ![o] = "DEAD"]
                /\ UNCHANGED led
             \/ /\ journal' = [journal EXCEPT ![o] = "IN_FLIGHT"]
                /\ led' = [led EXCEPT ![r.tag] = found]
             \/ /\ journal' = [journal EXCEPT ![o] = "FILLED"]
                /\ led' = [led EXCEPT ![r.tag] = OnOrderFilled(found, o, r.side, fq[o])]
  BY DEF RecoverRow
<1> DEFINE r     == ord[o]
           found == OnOrderAccepted(led[r.tag], o, r.side, r.offset, r.qty)
<1>2. /\ o \in Drawn /\ o \in Ids /\ r.tag \in Tags /\ r.side \in Sides
      /\ r.offset \in Offsets /\ r.qty \in Nat /\ fq[o] \in Nat
  BY NextRowDrawn DEF TypeInv, TypeOK
<1>3. led[r.tag] \in Positions(Ids)
  BY <1>2 DEF TypeInv, TypeOK
<1>4. found \in Positions(Ids)
  BY <1>2, <1>3, AcceptedType
<1>5. OnOrderFilled(found, o, r.side, fq[o]) \in Positions(Ids)
  BY <1>2, <1>4, FilledType
<1>6. led' \in [Tags -> Positions(Ids)]
  BY <1>1, <1>2, <1>4, <1>5 DEF TypeInv, TypeOK
<1>7. /\ journal' \in [Ids -> Pending \cup Terminal \cup {"none"}]
      /\ \A p \in Ids : journal'[p] # "none" => p \in Drawn
      /\ todo' \subseteq todo
  BY <1>1, <1>2 DEF TypeInv, TypeOK, RefsDrawn, Pending, Terminal
<1>8. UNCHANGED <<phase, starts, rstep, seen, stopping, pc, cur, res, ord, venueVars>>
  BY DEF RecoverRow
<1> QED BY <1>6, <1>7, <1>8 DEF TypeInv, TypeOK, RefsDrawn, Calling, Drawn, venueVars

\* The steps of recovery that touch neither ledger nor orders.
LEMMA RecoverEndType ==
  ASSUME TypeInv, RecoverFails \/ RecoverDone \/ RunStrategies \/ Shutdown
  PROVE  TypeInv'
BY DEF RecoverFails, RecoverDone, RunStrategies, Shutdown, TypeInv, TypeOK,
       RefsDrawn, Calling, Drawn, callVars, durable, venueVars

LEMMA ReconcilePositionsType ==
  ASSUME TypeInv, NEW t \in Tags, ReconcilePositions(t)
  PROVE  TypeInv'
<1>1. VenueNet({t}) \in Int /\ led[t] \in Positions(Ids)
  BY VenueNetInt DEF TypeInv, TypeOK
<1>2. SyncFromVenue(led[t], VenueNet({t})) \in Positions(Ids)
  BY <1>1, SyncType
<1>3. led' \in [Tags -> Positions(Ids)]
  BY <1>2 DEF ReconcilePositions, TypeInv, TypeOK
<1> QED BY <1>3 DEF ReconcilePositions, TypeInv, TypeOK, RefsDrawn, Calling, Drawn,
                    durable, venueVars

LEMMA ReconcileOrdersType ==
  ASSUME TypeInv, NEW t \in Tags, ReconcileOrders(t) \/ Reconciled(t)
  PROVE  TypeInv'
<1>1. seen' \subseteq Drawn /\ seen' \subseteq Ids
  BY DrawnFacts DEF ReconcileOrders, Reconciled, RestingFor, OpenAt, TypeInv,
                    TypeOK, RefsDrawn
<1> QED BY <1>1 DEF ReconcileOrders, Reconciled, TypeInv, TypeOK, RefsDrawn,
                    Calling, Drawn, callVars, durable, venueVars

LEMMA RegisterType ==
  ASSUME TypeInv, NEW t \in Tags, Register(t)
  PROVE  TypeInv'
<1>1. PICK o \in seen :
        /\ seen' = seen \ {o}
        /\ led' = IF IsTracked(led[t], o) THEN led
                  ELSE [led EXCEPT ![t] =
                          OnOrderAccepted(@, o, ord[o].side, "OPEN", ord[o].qty)]
  BY DEF Register
<1>2. o \in Drawn /\ o \in Ids /\ ord[o] \in OrderRecord
  BY DrawnFacts DEF TypeInv, RefsDrawn
<1>3. /\ ord[o].side \in Sides /\ ord[o].qty \in Nat /\ "OPEN" \in Offsets
      /\ led[t] \in Positions(Ids)
  BY <1>2 DEF OrderRecord, Offsets, TypeInv, TypeOK
<1>4. OnOrderAccepted(led[t], o, ord[o].side, "OPEN", ord[o].qty) \in Positions(Ids)
  BY <1>2, <1>3, AcceptedType
<1>5. led' \in [Tags -> Positions(Ids)]
  BY <1>1, <1>4 DEF TypeInv, TypeOK
<1> QED BY <1>1, <1>5 DEF Register, TypeInv, TypeOK, RefsDrawn, Calling, Drawn,
                          durable, venueVars

-----------------------------------------------------------------------------
(* The venue's actions.                                                    *)

LEMMA ReplyType ==
  ASSUME TypeOK, NEW o, NEW status \in Pending \cup Terminal, Reply(o, status)
  PROVE  res' \in [Tags -> Pending \cup Terminal \cup {"none"}]
BY DEF TypeOK, Reply

LEMMA ExecuteType ==
  ASSUME TypeInv, NEW o \in Drawn, Execute(o)
  PROVE  /\ vst' \in [Ids -> {"none", "refused", "open", "filled", "canceled"}]
         /\ \A p \in Ids : vst'[p] # "none" => p \in Drawn
         /\ fq' \in [Ids -> Nat] /\ fillNo' \in [Ids -> Nat]
         /\ held' \subseteq Drawn /\ held' \subseteq Ids
         /\ net' \in Int
<1> DEFINE r == ord[o]
<1>1. o \in Ids /\ r.side \in Sides /\ r.qty \in Nat /\ net \in Int
  BY DrawnFacts DEF TypeInv, TypeOK, OrderRecord
<1>2. IsFiniteSet(Ids)
  BY FS_Interval, BoundAssumption DEF Ids
<1>3. /\ vst' \in [Ids -> {"none", "refused", "open", "filled", "canceled"}]
      /\ \A p \in Ids : vst'[p] # "none" => p \in Drawn
  <2>1. vst' = [vst EXCEPT ![o] = "filled"]
    BY DEF Execute
  <2>2. vst \in [Ids -> {"none", "refused", "open", "filled", "canceled"}]
    BY DEF TypeInv, TypeOK
  <2>3. \A p \in Ids : vst[p] # "none" => p \in Drawn
    BY DEF TypeInv, RefsDrawn
  <2> QED BY <2>1, <2>2, <2>3
<1>4. CASE r.offset = "OPEN" /\ r.offset # "CLOSE"
  <2> DEFINE k == Cardinality({p \in Ids : fillNo[p] # 0})
  <2>1. {p \in Ids : fillNo[p] # 0} \subseteq Ids
    OBVIOUS
  <2>2. k \in Nat
    BY <1>2, <2>1, FS_Subset, FS_CardinalityType
  <2>3. fillNo' \in [Ids -> Nat]
    <3>1. fillNo' = IF Ticketed THEN [fillNo EXCEPT ![o] = 1 + k] ELSE fillNo
      BY <1>4 DEF Execute
    <3>2. fillNo \in [Ids -> Nat]
      BY DEF TypeInv, TypeOK
    <3>3. 1 + k \in Nat
      BY <2>2
    <3>4. ASSUME NEW n \in Nat, fillNo' = IF Ticketed THEN [fillNo EXCEPT ![o] = n] ELSE fillNo
          PROVE  fillNo' \in [Ids -> Nat]
      BY <3>2, <3>4
    <3> HIDE DEF k
    <3> QED BY <3>1, <3>3, <3>4
  <2>4. net' \in Int
    BY <1>1, <1>4, SignedInt DEF Execute
  <2>5. fq' \in [Ids -> Nat] /\ held' \subseteq Drawn /\ held' \subseteq Ids
    BY <1>1, <1>4 DEF Execute, TypeInv, TypeOK, RefsDrawn
  <2> QED BY <1>3, <2>3, <2>4, <2>5
<1>5. CASE r.offset = "CLOSE" /\ r.offset # "OPEN" /\ Ticketed
  <2>1. PICK S \in SUBSET Opposite(r.side) :
           /\ held' = held \ S
           /\ fq'  = [fq EXCEPT ![o] = Cardinality(S)]
           /\ net' = net + Signed(r.side, Cardinality(S))
    BY <1>5 DEF Execute
  <2>2. S \subseteq Ids
    BY DEF Opposite, TypeInv, TypeOK
  <2>3. Cardinality(S) \in Nat
    BY <1>2, <2>2, FS_Subset, FS_CardinalityType
  <2>4. net' \in Int
    BY <1>1, <2>1, <2>3, SignedInt
  <2>5. UNCHANGED fillNo
    BY <1>5 DEF Execute
  <2> QED BY <1>3, <2>1, <2>3, <2>4, <2>5 DEF TypeInv, TypeOK, RefsDrawn
<1>6. CASE r.offset = "CLOSE" /\ r.offset # "OPEN" /\ ~Ticketed
  <2> DEFINE k == IF r.qty < Abs(net) THEN r.qty ELSE Abs(net)
  <2>1. k \in Nat
    BY <1>1 DEF Abs
  <2>2. /\ fq'  = [fq EXCEPT ![o] = k] /\ net' = net + Signed(r.side, k)
        /\ UNCHANGED <<held, fillNo>>
    BY <1>6 DEF Execute
  <2> HIDE DEF k
  <2>3. net' \in Int
    BY <1>1, <2>1, <2>2, SignedInt
  <2> QED BY <1>3, <2>1, <2>2, <2>3 DEF TypeInv, TypeOK, RefsDrawn
<1> QED BY <1>4, <1>5, <1>6 DEF Execute

LEMMA VenueExecutesType ==
  ASSUME TypeInv, NEW o \in Ids, VenueExecutes(o) \/ VenueFills(o)
  PROVE  TypeInv'
<1>1. o \in Drawn /\ Execute(o) /\ wire' \subseteq wire
      /\ UNCHANGED <<procVars, led, pc, cur, durable>>
  BY DEF TypeInv, RefsDrawn, VenueExecutes, VenueFills, callVars
<1>2. res' \in [Tags -> Pending \cup Terminal \cup {"none"}]
  BY ReplyType DEF VenueExecutes, VenueFills, callVars, TypeInv, TypeOK, Terminal
<1> QED BY <1>1, <1>2, ExecuteType DEF TypeInv, TypeOK, RefsDrawn, Calling, Drawn,
                                      procVars, durable

LEMMA VenueRestsType ==
  ASSUME TypeInv, NEW o \in Ids, VenueRests(o) \/ VenueRefuses(o)
  PROVE  TypeInv'
<1>1. o \in Drawn /\ wire' \subseteq wire
      /\ UNCHANGED <<procVars, led, pc, cur, durable, fq, held, fillNo, net>>
  BY DEF TypeInv, RefsDrawn, VenueRests, VenueRefuses
<1>2. res' \in [Tags -> Pending \cup Terminal \cup {"none"}]
  BY ReplyType DEF VenueRests, VenueRefuses, TypeInv, Pending, Terminal
<1>3. /\ vst' \in [Ids -> {"none", "refused", "open", "filled", "canceled"}]
      /\ \A p \in Ids : vst'[p] # "none" => p \in Drawn
  BY <1>1 DEF VenueRests, VenueRefuses, TypeInv, TypeOK, RefsDrawn
<1> QED BY <1>1, <1>2, <1>3 DEF TypeInv, TypeOK, RefsDrawn, Calling, Drawn,
                               procVars, durable

LEMMA VenueEndsType ==
  ASSUME TypeInv, NEW o \in Ids, VenueExpires(o) \/ VenueFuse(o)
  PROVE  TypeInv'
<1>1. CASE VenueExpires(o)
  BY <1>1 DEF VenueExpires, TypeInv, TypeOK, RefsDrawn, Calling, Drawn,
              procVars, callVars, durable
<1>2. CASE VenueFuse(o)
  <2>1. ord[o].side \in Sides /\ net \in Int /\ Signed(ord[o].side, 1) \in Int
    BY <1>2, DrawnFacts, SignedInt DEF VenueFuse, TypeInv, TypeOK, RefsDrawn, OrderRecord
  <2>2. net' \in Int
    BY <1>2, <2>1 DEF VenueFuse
  <2> QED BY <1>2, <2>2 DEF VenueFuse, TypeInv, TypeOK, RefsDrawn, Calling, Drawn,
              procVars, callVars, durable
<1> QED BY <1>1, <1>2

-----------------------------------------------------------------------------
(* The theorem.                                                            *)

LEMMA TypeInit ==
  ASSUME Init
  PROVE  TypeInv
<1>1. led \in [Tags -> Positions(Ids)]
  BY EmptyType DEF Init
<1>2. <<>> \in Seq(OrderRecord) /\ Len(<<>>) = 0
  OBVIOUS
<1> QED BY <1>1, <1>2, BoundAssumption, 0 \in Int
        DEF Init, TypeInv, TypeOK, RefsDrawn, Calling, Drawn, Steps

LEMMA WorkerType ==
  ASSUME TypeInv, NEW t \in Tags, Worker(t)
  PROVE  TypeInv'
BY ResolveType, CancelType, StrategyFlattenType, AcceptType, BeginType, SubmitType,
   AnsweredType, FinishType, UpdateType, FlattenPositionsType
DEF Worker, WorkerStep

LEMMA RunnerType ==
  ASSUME TypeInv, Runner
  PROVE  TypeInv'
<1>1. CASE Boot
  BY <1>1, RecoverRowType, RecoverEndType, ReconcilePositionsType, ReconcileOrdersType,
     RegisterType DEF Boot
<1>2. CASE Crash \/ Stopped
  <2>1. LoseMemory /\ UNCHANGED <<durable, vst, fq, held, fillNo, net>>
    BY <1>2 DEF Crash, Stopped, venueVars
  <2>2. wire' \subseteq wire /\ starts' = starts /\ phase' \in {"down", "stopped"}
    BY <1>2 DEF Crash, Stopped, venueVars
  <2> QED BY <2>1, <2>2, LoseMemoryType
<1> QED BY <1>1, <1>2, StartType, RecoverEndType, ShutdownFlattenType DEF Runner

LEMMA VenueType ==
  ASSUME TypeInv, NEW o \in Ids, VenueStep(o)
  PROVE  TypeInv'
BY VenueExecutesType, VenueRestsType, VenueEndsType DEF VenueStep, VenueTakes

LEMMA StutterType ==
  ASSUME TypeInv, UNCHANGED vars
  PROVE  TypeInv'
BY DEF TypeInv, TypeOK, RefsDrawn, Calling, Drawn, vars, procVars, callVars,
       durable, venueVars

LEMMA TypeStep ==
  ASSUME TypeInv, [Next]_vars
  PROVE  TypeInv'
BY WorkerType, RunnerType, VenueType, StutterType DEF Next

LEMMA TypeInvariant == Spec => []TypeInv
<1>1. Init => TypeInv
  BY TypeInit
<1>2. TypeInv /\ [Next]_vars => TypeInv'
  BY TypeStep
<1> QED BY <1>1, <1>2, PTL DEF Spec

\* Whatever threads, venue and crashes do, every variable keeps its type: no
\* status a driver returns leaks into the journal, and a ledger stays a ledger.
THEOREM TypeCorrect == Spec => []TypeOK
<1>1. TypeInv => TypeOK
  BY DEF TypeInv
<1> QED BY <1>1, TypeInvariant, PTL

-----------------------------------------------------------------------------
(* The invariants of the journal.                                          *)

\* A worker past begin() has a row, and only an answer lets it write the next.
RowsAhead ==
  /\ \A t \in Tags :
       /\ pc[t] \in {"submit", "sent", "finish", "update"} => journal[cur[t]] # "none"
       /\ pc[t] = "finish" => res[t] # "none"
  /\ WriteAhead

\* The faults under which a status tells the truth: no request executes after
\* its call gave up on it, and mt5 neither loses an answer nor a read.
Sound ==
  /\ "lateExecution" \notin Faults
  /\ Ticketed => "lostReply" \notin Faults /\ "readFails" \notin Faults

\* Where worker t is in its call, what its order looks like.
CallAgrees(t) ==
  LET o == cur[t] IN
  /\ Calling(t) => ord[o].tag = t
  /\ pc[t] \notin {"sent", "finish", "update"} => res[t] = "none"
  /\ pc[t] \in {"accept", "begin"} => journal[o] = "none"
  /\ pc[t] \in {"submit", "sent", "finish"} => journal[o] = "SUBMITTING"
  /\ pc[t] = "submit" => vst[o] = "none" /\ o \notin wire
  /\ pc[t] = "sent" => IF res[t] = "none" THEN o \in wire
                       ELSE o \notin wire /\ Intents!Agrees(res[t], vst[o])
  /\ pc[t] = "finish" => o \notin wire /\ Intents!Agrees(res[t], vst[o])

IntentInv ==
  /\ \A t \in Tags : CallAgrees(t)
  /\ phase \notin {"run", "stop"} => AllIdle
  /\ \A o \in wire : vst[o] = "none" /\ \E t \in Tags : pc[t] = "sent" /\ cur[t] = o
  /\ \A o \in todo : phase = "recover" /\ journal[o] \in Pending
  /\ JournalTruthful

-----------------------------------------------------------------------------
(* Write-ahead, for every fault.                                           *)

\* The steps that leave calls, journal, wire and the venue's states alone.
LEMMA QuietSteps ==
  ASSUME \/ Start \/ RecoverFails \/ RecoverDone \/ RunStrategies \/ Shutdown
         \/ \E t \in Tags : ReconcilePositions(t) \/ ReconcileOrders(t)
                              \/ Register(t) \/ Reconciled(t)
         \/ \E o \in Ids : VenueFuse(o)
         \/ UNCHANGED vars
  PROVE  UNCHANGED <<pc, cur, res, ord, journal, wire, vst>>
BY DEF Start, RecoverFails, RecoverDone, RunStrategies, Shutdown, ReconcilePositions,
       ReconcileOrders, Register, Reconciled, VenueFuse, vars, procVars, callVars,
       durable, venueVars

LEMMA AheadQuiet ==
  ASSUME RowsAhead, UNCHANGED <<pc, cur, res, journal, wire, vst>>
  PROVE  RowsAhead'
BY DEF RowsAhead, WriteAhead

\* A draw gives its worker an id and a step that claims nothing.
LEMMA AheadDraw ==
  ASSUME TypeInv, RowsAhead, NEW t \in Tags,
         NEW side, NEW offset, NEW kind, NEW qty, Draw(t, side, offset, kind, qty),
         UNCHANGED <<res, journal, wire, vst>>
  PROVE  RowsAhead'
BY DEF Draw, RowsAhead, WriteAhead, TypeInv, TypeOK

LEMMA AheadCall ==
  ASSUME TypeInv, RowsAhead, NEW t \in Tags,
         Accept(t) \/ Begin(t) \/ Submit(t) \/ Answered(t) \/ NoAnswer(t)
  PROVE  RowsAhead'
<1> USE DEF RowsAhead, WriteAhead, TypeInv, TypeOK
<1>1. CASE Accept(t)
  BY <1>1 DEF Accept, durable, venueVars
<1>2. CASE Begin(t)
  <2>1. cur[t] \in Ids
    BY <1>2, DrawnFacts DEF Begin, RefsDrawn, Calling
  <2> QED BY <1>2, <2>1 DEF Begin, venueVars
<1>3. CASE Submit(t)
  BY <1>3 DEF Submit, durable
<1>4. CASE Answered(t)
  BY <1>4 DEF Answered, durable, venueVars
<1>5. CASE NoAnswer(t)
  BY <1>5 DEF NoAnswer, durable
<1> QED BY <1>1, <1>2, <1>3, <1>4, <1>5

LEMMA AheadReturn ==
  ASSUME TypeInv, RowsAhead, NEW t \in Tags, Return(t),
         \A o \in Ids : journal[o] # "none" => journal'[o] # "none",
         UNCHANGED <<wire, vst>>
  PROVE  RowsAhead'
<1>1. /\ pc' = [pc EXCEPT ![t] = "idle"] /\ cur' = [cur EXCEPT ![t] = 0]
      /\ res' = [res EXCEPT ![t] = "none"]
  BY DEF Return
<1>2. \A u \in Tags : Calling(u) => cur[u] \in Ids
  BY DrawnFacts DEF TypeInv, RefsDrawn
<1> QED BY <1>1, <1>2 DEF RowsAhead, WriteAhead, TypeInv, TypeOK, Calling

LEMMA AheadFinish ==
  ASSUME TypeInv, RowsAhead, NEW t \in Tags, Finish(t)
  PROVE  RowsAhead'
<1>1. cur[t] \in Ids /\ res[t] # "none"
  BY DrawnFacts DEF Finish, RowsAhead, TypeInv, RefsDrawn, Calling
<1>2. \A o \in Ids : journal[o] # "none" => journal'[o] # "none"
  BY <1>1 DEF Finish, TypeInv, TypeOK
<1>3. CASE Return(t)
  BY <1>2, <1>3, AheadReturn DEF Finish, venueVars
<1>4. CASE pc' = [pc EXCEPT ![t] = "update"] /\ UNCHANGED <<cur, res>>
  <2>1. \A u \in Tags : Calling(u) => cur[u] \in Ids
    BY DrawnFacts DEF TypeInv, RefsDrawn
  <2> QED BY <1>2, <1>4, <2>1 DEF Finish, RowsAhead, WriteAhead, TypeInv, TypeOK,
                                  Calling, venueVars
<1> QED BY <1>3, <1>4 DEF Finish

\* Cancels touch resting orders only.
LEMMA CancelsResting ==
  ASSUME TypeInv, NEW t \in Tags,
         Cancel(t) \/ StrategyFlatten(t) \/ ShutdownFlatten(t)
  PROVE  \/ UNCHANGED <<callVars, durable, venueVars>>
         \/ \E S \in SUBSET OpenAt(Tags) : CancelAtVenue(S)
<1>1. \A scope \in {"own", "all"} : OpenAt(ScopeTags(t, scope)) \subseteq OpenAt(Tags)
  BY DEF OpenAt, ScopeTags
<1>2. CASE Cancel(t)
  <2>1. \A o \in OpenAt({t}) : {o} \in SUBSET OpenAt(Tags)
    BY DEF OpenAt
  <2> QED BY <1>2, <2>1 DEF Cancel
<1>3. CASE StrategyFlatten(t)
  BY <1>1, <1>3, ScopeAssumption DEF StrategyFlatten, FlattenCancel
<1>4. CASE ShutdownFlatten(t)
  BY <1>1, <1>4 DEF ShutdownFlatten, FlattenCancel
<1> QED BY <1>2, <1>3, <1>4

LEMMA AheadFlatten ==
  ASSUME TypeInv, RowsAhead, NEW t \in Tags,
         \/ Cancel(t) \/ StrategyFlatten(t) \/ ShutdownFlatten(t)
  PROVE  RowsAhead'
<1>1. CASE UNCHANGED <<callVars, durable, venueVars>>
  BY <1>1, AheadQuiet DEF callVars, durable, venueVars
<1>2. CASE \E S \in SUBSET OpenAt(Tags) : CancelAtVenue(S)
  <2>1. PICK S \in SUBSET OpenAt(Tags) : CancelAtVenue(S)
    BY <1>2
  <2>2. \A o \in Ids : vst'[o] # "none" => vst[o] # "none"
    BY <2>1 DEF CancelAtVenue, OpenAt
  <2>3. /\ UNCHANGED <<cur, res, journal, wire>>
        /\ \A u \in Tags : pc'[u] = pc[u] \/ pc'[u] \in {"flatten_own", "flatten_all"}
    BY DEF Cancel, StrategyFlatten, ShutdownFlatten, FlattenCancel, callVars, durable,
           venueVars, TypeInv, TypeOK
  <2> QED BY <2>2, <2>3 DEF RowsAhead, WriteAhead
<1> QED BY <1>1, <1>2, CancelsResting

LEMMA AheadFlattenPositions ==
  ASSUME TypeInv, RowsAhead, NEW t \in Tags, FlattenPositions(t) \/ Update(t)
  PROVE  RowsAhead'
<1>1. UNCHANGED <<journal, wire, vst>>
  BY DEF FlattenPositions, Update, durable, venueVars
<1>2. CASE Return(t)
  BY <1>1, <1>2, AheadReturn
<1>3. CASE UNCHANGED res /\ \E side, qty : Draw(t, side, "CLOSE", "MARKET", qty)
  BY <1>1, <1>3, AheadDraw
<1>4. CASE FlattenPositions(t)
  BY <1>2, <1>3, <1>4 DEF FlattenPositions
<1> QED BY <1>2, <1>4 DEF Update

LEMMA AheadRecover ==
  ASSUME TypeInv, RowsAhead, RecoverRow
  PROVE  RowsAhead'
<1>1. \A o \in Ids : journal[o] # "none" => journal'[o] # "none"
  <2>1. PICK o \in NextRow : \E s \in {"DEAD", "IN_FLIGHT", "FILLED"} :
          journal' = [journal EXCEPT ![o] = s]
    BY DEF RecoverRow
  <2> QED BY <2>1 DEF TypeInv, TypeOK
<1>2. UNCHANGED <<pc, cur, res, wire, vst>>
  BY DEF RecoverRow, venueVars
<1>3. \A u \in Tags : Calling(u) => cur[u] \in Ids
  BY DrawnFacts DEF TypeInv, RefsDrawn
<1> QED BY <1>1, <1>2, <1>3 DEF RowsAhead, WriteAhead, Calling

LEMMA AheadLoseMemory ==
  ASSUME TypeInv, RowsAhead, Crash \/ Stopped
  PROVE  RowsAhead'
<1>1. \A t \in Tags : pc'[t] = "idle"
  BY DEF Crash, Stopped, LoseMemory
<1>2. UNCHANGED <<journal, vst>> /\ wire' \subseteq wire
  BY DEF Crash, Stopped, durable, venueVars
<1> QED BY <1>1, <1>2 DEF RowsAhead, WriteAhead

\* The venue gives a state only to an order that was on the wire or rested.
LEMMA VenueChanges ==
  ASSUME TypeInv, NEW o \in Ids, VenueTakes(o) \/ VenueFills(o) \/ VenueExpires(o)
  PROVE  /\ \E f \in {"refused", "open", "filled", "canceled"} :
                vst' = [vst EXCEPT ![o] = f]
         /\ \/ o \in wire /\ wire' = wire \ {o}
            \/ vst[o] = "open" /\ UNCHANGED <<wire, res>>
         /\ UNCHANGED <<procVars, led, pc, cur, durable>>
BY DEF VenueTakes, VenueExecutes, VenueRests, VenueRefuses, VenueFills, VenueExpires,
       Execute, callVars

LEMMA AheadVenue ==
  ASSUME TypeInv, RowsAhead, NEW o \in Ids,
         VenueTakes(o) \/ VenueFills(o) \/ VenueExpires(o)
  PROVE  RowsAhead'
<1>1. PICK f \in {"refused", "open", "filled", "canceled"} : vst' = [vst EXCEPT ![o] = f]
  BY VenueChanges
<1>2. /\ o \in wire \/ vst[o] = "open"
      /\ wire' \subseteq wire
      /\ UNCHANGED <<pc, cur, journal>>
  BY VenueChanges DEF durable
<1>3. \A t \in Tags : pc[t] # "sent" => res'[t] = res[t]
  BY DEF VenueTakes, VenueExecutes, VenueRests, VenueRefuses, VenueFills, VenueExpires,
         Reply, callVars
<1>4. \A p \in Ids : p \in wire' => p \in wire
  BY VenueChanges
<1> QED BY <1>1, <1>2, <1>3, <1>4 DEF RowsAhead, WriteAhead, TypeInv, TypeOK

LEMMA AheadResolve ==
  ASSUME TypeInv, RowsAhead, NEW t \in Tags, Resolve(t)
  PROVE  RowsAhead'
<1>1. \E side, offset, kind, qty : Draw(t, side, offset, kind, qty)
  BY DEF Resolve
<1> QED BY <1>1, AheadDraw DEF Resolve, venueVars

LEMMA AheadStep ==
  ASSUME TypeInv, RowsAhead, [Next]_vars
  PROVE  RowsAhead'
<1>1. CASE \E t \in Tags : Worker(t)
  BY <1>1, AheadResolve, AheadCall, AheadFinish, AheadFlatten, AheadFlattenPositions
  DEF Worker, WorkerStep
<1>2. CASE Runner
  BY <1>2, QuietSteps, AheadQuiet, AheadRecover, AheadLoseMemory, AheadFlatten
  DEF Runner, Boot
<1>3. CASE \E o \in Ids : VenueStep(o)
  BY <1>3, QuietSteps, AheadQuiet, AheadVenue DEF VenueStep
<1>4. CASE UNCHANGED vars
  BY <1>4, QuietSteps, AheadQuiet
<1> QED BY <1>1, <1>2, <1>3, <1>4 DEF Next

\* Whatever the venue was ever sent has its row in the journal, through every
\* interleaving of workers, crash, restart, lost answer and late execution.
THEOREM WriteAheadHolds == Spec => []WriteAhead
<1>1. Init => RowsAhead
  BY DEF Init, RowsAhead, WriteAhead
<1>2. TypeInv /\ RowsAhead /\ [Next]_vars => RowsAhead'
  BY AheadStep
<1>3. RowsAhead => WriteAhead
  BY DEF RowsAhead
<1> QED BY <1>1, <1>2, <1>3, TypeInvariant, PTL DEF Spec

-----------------------------------------------------------------------------
(* The intent invariant, under Sound.                                      *)

\* Workers never share an order.
LEMMA OwnOrders ==
  ASSUME IntentInv, NEW t \in Tags, NEW u \in Tags, Calling(t), Calling(u), cur[t] = cur[u]
  PROVE  t = u
<1>1. ord[cur[t]].tag = t /\ ord[cur[u]].tag = u
  BY DEF IntentInv, CallAgrees
<1> QED BY <1>1

\* What a worker's order looks like depends on these variables only.
LEMMA SameCall ==
  ASSUME TypeInv, NEW t \in Tags, CallAgrees(t),
         pc'[t] = pc[t], cur'[t] = cur[t], res'[t] = res[t],
         Calling(t) => /\ ord'[cur[t]] = ord[cur[t]]
                       /\ journal'[cur[t]] = journal[cur[t]]
                       /\ vst'[cur[t]] = vst[cur[t]]
                       /\ cur[t] \in wire' <=> cur[t] \in wire
  PROVE  CallAgrees(t)'
BY DEF CallAgrees, Calling, Intents!Agrees

LEMMA IntentQuiet ==
  ASSUME TypeInv, IntentInv, UNCHANGED <<pc, cur, res, ord, journal, wire, vst>>,
         phase' \notin {"run", "stop"} => AllIdle,
         \A o \in todo' : phase' = "recover" /\ journal[o] \in Pending
  PROVE  IntentInv'
<1>1. \A t \in Tags : CallAgrees(t)'
  BY SameCall DEF IntentInv
<1> QED BY <1>1 DEF IntentInv, AllIdle, JournalTruthful

\* A drawn order is new: neither journal nor venue has heard of it.
LEMMA IntentDraw ==
  ASSUME TypeInv, IntentInv, NEW t \in Tags, NEW side \in Sides, NEW offset \in Offsets,
         NEW kind \in Kinds, NEW qty \in Nat, Draw(t, side, offset, kind, qty),
         pc[t] \notin {"sent", "finish", "update"}, phase \in {"run", "stop"},
         UNCHANGED <<phase, todo, res, journal, wire, vst>>
  PROVE  IntentInv'
<1> DEFINE n == Len(ord) + 1
<1>1. /\ n \in Ids \ Drawn /\ ord'[n].tag = t
      /\ \A o \in Drawn : ord'[o] = ord[o]
  BY DrawStep DEF TypeInv
<1>2. cur' = [cur EXCEPT ![t] = n] /\ pc' = [pc EXCEPT ![t] = "accept"]
  BY DEF Draw
<1> HIDE DEF n
<1>3. cur'[t] = n /\ pc'[t] = "accept"
  BY <1>2 DEF TypeInv, TypeOK
<1>4. journal[n] = "none"
  BY <1>1 DEF TypeInv, RefsDrawn
<1>5. CallAgrees(t)'
  BY <1>1, <1>3, <1>4 DEF IntentInv, CallAgrees
<1>6. ASSUME NEW u \in Tags, u # t PROVE CallAgrees(u)'
  <2>1. pc'[u] = pc[u] /\ cur'[u] = cur[u]
    BY <1>2, <1>6 DEF TypeInv, TypeOK
  <2>2. Calling(u) => ord'[cur[u]] = ord[cur[u]]
    BY <1>1 DEF TypeInv, RefsDrawn
  <2> QED BY <2>1, <2>2, SameCall DEF IntentInv
<1>7. \A o \in wire : \E u \in Tags : pc'[u] = "sent" /\ cur'[u] = o
  BY <1>2 DEF IntentInv, TypeInv, TypeOK
<1> QED BY <1>5, <1>6, <1>7 DEF IntentInv, JournalTruthful

LEMMA IntentResolve ==
  ASSUME TypeInv, IntentInv, NEW t \in Tags, Resolve(t)
  PROVE  IntentInv'
<1>1. PICK r \in Requests, qty \in 1 .. MaxOrders :
        Draw(t, r.side, r.offset, r.kind, qty)
  BY DEF Resolve
<1>2. r.side \in Sides /\ r.offset \in Offsets /\ r.kind \in Kinds /\ qty \in Nat
  BY RequestAssumption, BoundAssumption DEF Kinds
<1>3. /\ pc[t] = "idle" /\ phase = "run"
      /\ UNCHANGED <<phase, todo, res, journal, wire, vst>>
  BY DEF Resolve, procVars, venueVars
<1> QED BY <1>1, <1>2, <1>3, IntentDraw

\* The steps of a call up to the wire.
LEMMA IntentAccept ==
  ASSUME TypeInv, IntentInv, NEW t \in Tags, Accept(t)
  PROVE  IntentInv'
<1>1. /\ pc[t] = "accept" /\ pc' = [pc EXCEPT ![t] = "begin"]
      /\ UNCHANGED <<phase, todo, cur, res, ord, journal, wire, vst>>
  BY DEF Accept, procVars, durable, venueVars
<1>2. pc'[t] = "begin" /\ \A u \in Tags : u # t => pc'[u] = pc[u]
  BY <1>1 DEF TypeInv, TypeOK
<1>3. CallAgrees(t)'
  BY <1>1, <1>2 DEF IntentInv, CallAgrees, Calling
<1>4. \A u \in Tags : u # t => CallAgrees(u)'
  BY <1>1, <1>2, SameCall DEF IntentInv
<1>5. phase \in {"run", "stop"}
  BY <1>1 DEF IntentInv, AllIdle, TypeInv, TypeOK
<1> QED BY <1>1, <1>2, <1>3, <1>4, <1>5 DEF IntentInv, JournalTruthful

LEMMA IntentBegin ==
  ASSUME TypeInv, IntentInv, WriteAhead, NEW t \in Tags, Begin(t)
  PROVE  IntentInv'
<1> DEFINE o == cur[t]
<1>1. /\ pc[t] = "begin" /\ pc' = [pc EXCEPT ![t] = "submit"]
      /\ journal' = [journal EXCEPT ![o] = "SUBMITTING"]
      /\ UNCHANGED <<phase, todo, cur, res, ord, wire, vst>>
  BY DEF Begin, procVars, venueVars
<1>2. /\ pc'[t] = "submit" /\ \A u \in Tags : u # t => pc'[u] = pc[u]
      /\ o \in Ids /\ journal'[o] = "SUBMITTING"
      /\ \A p \in Ids : p # o => journal'[p] = journal[p]
  BY <1>1, DrawnFacts DEF TypeInv, TypeOK, RefsDrawn, Calling
<1>3. journal[o] = "none" /\ vst[o] = "none" /\ o \notin wire
  BY <1>1, <1>2 DEF IntentInv, CallAgrees, WriteAhead
<1>4. CallAgrees(t)'
  BY <1>1, <1>2, <1>3 DEF IntentInv, CallAgrees, Calling
<1>5. ASSUME NEW u \in Tags, u # t PROVE CallAgrees(u)'
  <2>1. Calling(u) => cur[u] # o /\ cur[u] \in Ids
    BY <1>1, <1>5, OwnOrders, DrawnFacts DEF Calling, TypeInv, RefsDrawn
  <2> QED BY <1>1, <1>2, <1>5, <2>1, SameCall DEF IntentInv
<1>6. phase \in {"run", "stop"}
  BY <1>1 DEF IntentInv, AllIdle, TypeInv, TypeOK
<1>7. todo = {}
  BY <1>6 DEF IntentInv
<1> QED BY <1>1, <1>2, <1>4, <1>5, <1>6, <1>7 DEF IntentInv, JournalTruthful

LEMMA IntentSubmit ==
  ASSUME TypeInv, IntentInv, NEW t \in Tags, Submit(t)
  PROVE  IntentInv'
<1> DEFINE o == cur[t]
<1>1. /\ pc[t] = "submit" /\ pc' = [pc EXCEPT ![t] = "sent"]
      /\ wire' = wire \cup {o}
      /\ UNCHANGED <<phase, todo, cur, res, ord, journal, vst>>
  BY DEF Submit, procVars, durable
<1>2. pc'[t] = "sent" /\ \A u \in Tags : u # t => pc'[u] = pc[u]
  BY <1>1 DEF TypeInv, TypeOK
<1>3. vst[o] = "none" /\ journal[o] = "SUBMITTING" /\ res[t] = "none"
  BY <1>1 DEF IntentInv, CallAgrees
<1>4. CallAgrees(t)'
  BY <1>1, <1>2, <1>3 DEF IntentInv, CallAgrees, Calling
<1>5. ASSUME NEW u \in Tags, u # t PROVE CallAgrees(u)'
  <2>1. Calling(u) => cur[u] # o
    BY <1>1, <1>5, OwnOrders DEF Calling
  <2> QED BY <1>1, <1>2, <1>5, <2>1, SameCall DEF IntentInv
<1>6. phase \in {"run", "stop"}
  BY <1>1 DEF IntentInv, AllIdle, TypeInv, TypeOK
<1>7. \A p \in wire' : vst[p] = "none" /\ \E u \in Tags : pc'[u] = "sent" /\ cur[u] = p
  BY <1>1, <1>2, <1>3 DEF IntentInv
<1> QED BY <1>1, <1>3, <1>4, <1>5, <1>6, <1>7 DEF IntentInv, JournalTruthful

\* An answered call has left the wire with a status the venue agrees with.
LEMMA IntentAnswered ==
  ASSUME TypeInv, IntentInv, NEW t \in Tags, Answered(t)
  PROVE  IntentInv'
<1>1. /\ pc[t] = "sent" /\ res[t] # "none" /\ pc' = [pc EXCEPT ![t] = "finish"]
      /\ UNCHANGED <<phase, todo, cur, res, ord, journal, wire, vst>>
  BY DEF Answered, procVars, durable, venueVars
<1>2. pc'[t] = "finish" /\ \A u \in Tags : u # t => pc'[u] = pc[u]
  BY <1>1 DEF TypeInv, TypeOK
<1>3. CallAgrees(t)'
  BY <1>1, <1>2 DEF IntentInv, CallAgrees, Calling, Intents!Agrees
<1>4. \A u \in Tags : u # t => CallAgrees(u)'
  BY <1>1, <1>2, SameCall DEF IntentInv
<1>5. phase \in {"run", "stop"}
  BY <1>1 DEF IntentInv, AllIdle, TypeInv, TypeOK
<1>6. cur[t] \notin wire
  BY <1>1 DEF IntentInv, CallAgrees
<1>7. \A p \in wire : \E u \in Tags : pc'[u] = "sent" /\ cur[u] = p
  BY <1>2, <1>6 DEF IntentInv
<1> QED BY <1>1, <1>3, <1>4, <1>5, <1>7 DEF IntentInv, JournalTruthful

\* A lost answer is UNKNOWN, and the order will not execute later.
LEMMA IntentNoAnswer ==
  ASSUME TypeInv, IntentInv, Sound, NEW t \in Tags, NoAnswer(t)
  PROVE  IntentInv'
<1> DEFINE o == cur[t]
<1>1. /\ pc[t] = "sent" /\ pc' = [pc EXCEPT ![t] = "finish"]
      /\ res' = [res EXCEPT ![t] = "UNKNOWN"] /\ wire' = wire \ {o}
      /\ UNCHANGED <<phase, todo, cur, ord, journal, vst>>
  BY DEF NoAnswer, Sound, procVars, durable
<1>2. /\ pc'[t] = "finish" /\ res'[t] = "UNKNOWN"
      /\ \A u \in Tags : u # t => pc'[u] = pc[u] /\ res'[u] = res[u]
  BY <1>1 DEF TypeInv, TypeOK
<1>3. CallAgrees(t)'
  BY <1>1, <1>2 DEF IntentInv, CallAgrees, Calling, Intents!Agrees
<1>4. ASSUME NEW u \in Tags, u # t PROVE CallAgrees(u)'
  <2>1. Calling(u) => cur[u] # o
    BY <1>1, <1>4, OwnOrders DEF Calling
  <2> QED BY <1>1, <1>2, <1>4, <2>1, SameCall DEF IntentInv
<1>5. phase \in {"run", "stop"}
  BY <1>1 DEF IntentInv, AllIdle, TypeInv, TypeOK
<1>6. \A p \in wire' : p \in wire /\ \E u \in Tags : pc'[u] = "sent" /\ cur[u] = p
  BY <1>1, <1>2 DEF IntentInv
<1> QED BY <1>1, <1>3, <1>4, <1>5, <1>6 DEF IntentInv, JournalTruthful

\* A worker that is not on the wire may return.
LEMMA IntentReturn ==
  ASSUME TypeInv, IntentInv, NEW t \in Tags, Return(t), pc[t] \notin {"idle", "sent"},
         UNCHANGED <<phase, todo, ord, journal, wire, vst>>
  PROVE  IntentInv'
<1>1. /\ pc'[t] = "idle" /\ res'[t] = "none"
      /\ \A u \in Tags : u # t => pc'[u] = pc[u] /\ res'[u] = res[u] /\ cur'[u] = cur[u]
  BY DEF Return, TypeInv, TypeOK
<1>2. CallAgrees(t)'
  BY <1>1 DEF CallAgrees, Calling
<1>3. \A u \in Tags : u # t => CallAgrees(u)'
  BY <1>1, SameCall DEF IntentInv
<1>4. phase \in {"run", "stop"}
  BY DEF IntentInv, AllIdle
<1>5. \A p \in wire : \E u \in Tags : pc'[u] = "sent" /\ cur'[u] = p
  BY <1>1 DEF IntentInv
<1> QED BY <1>2, <1>3, <1>4, <1>5 DEF IntentInv, JournalTruthful

\* finish() writes a status the venue agrees with over a SUBMITTING row.
LEMMA FinishDecides ==
  ASSUME TypeInv, IntentInv, NEW t \in Tags, Finish(t)
  PROVE  /\ cur[t] \in Ids /\ journal[cur[t]] = "SUBMITTING" /\ cur[t] \notin wire
         /\ journal' = [journal EXCEPT ![cur[t]] = res[t]]
         /\ Intents!Agrees(res[t], vst[cur[t]])
         /\ res[t] \in {"IN_FLIGHT", "UNKNOWN", "FILLED", "DEAD"}
         /\ phase \in {"run", "stop"}
         /\ UNCHANGED <<phase, todo, ord, wire, vst>>
<1>1. pc[t] = "finish" /\ Calling(t)
  BY DEF Finish, Calling
<1>2. cur[t] \in Ids
  BY <1>1, DrawnFacts DEF TypeInv, RefsDrawn
<1>3. /\ journal[cur[t]] = "SUBMITTING" /\ cur[t] \notin wire
      /\ Intents!Agrees(res[t], vst[cur[t]])
  BY <1>1 DEF IntentInv, CallAgrees
<1>4. res[t] \in {"IN_FLIGHT", "UNKNOWN", "FILLED", "DEAD"}
  BY <1>3 DEF Intents!Agrees, TypeInv, TypeOK, Pending, Terminal
<1>5. phase \in {"run", "stop"}
  BY <1>1 DEF IntentInv, AllIdle, TypeInv, TypeOK
<1> QED BY <1>2, <1>3, <1>4, <1>5 DEF Finish, procVars, venueVars

LEMMA IntentFinish ==
  ASSUME TypeInv, IntentInv, NEW t \in Tags, Finish(t)
  PROVE  IntentInv'
<1> DEFINE o == cur[t]
<1>1. /\ o \in Ids /\ o \notin wire /\ journal[o] = "SUBMITTING"
      /\ journal' = [journal EXCEPT ![o] = res[t]]
      /\ Intents!Agrees(res[t], vst[o])
      /\ phase \in {"run", "stop"}
      /\ UNCHANGED <<phase, todo, ord, wire, vst>>
  BY FinishDecides
<1>2. /\ pc[t] = "finish" /\ pc'[t] \in {"idle", "update"}
      /\ pc'[t] = "idle" => res'[t] = "none"
      /\ pc'[t] = "update" => cur'[t] = o
      /\ \A u \in Tags : u # t => pc'[u] = pc[u] /\ res'[u] = res[u] /\ cur'[u] = cur[u]
  BY DEF Finish, Return, TypeInv, TypeOK
<1>3. CallAgrees(t)'
  BY <1>1, <1>2 DEF IntentInv, CallAgrees, Calling
<1>4. ASSUME NEW u \in Tags, u # t PROVE CallAgrees(u)'
  <2>1. Calling(u) => cur[u] # o /\ cur[u] \in Ids
    BY <1>2, <1>4, OwnOrders, DrawnFacts DEF Calling, TypeInv, RefsDrawn
  <2>2. \A p \in Ids : p # o => journal'[p] = journal[p]
    BY <1>1 DEF TypeInv, TypeOK
  <2> QED BY <1>1, <1>2, <1>4, <2>1, <2>2, SameCall DEF IntentInv
<1>5. \A p \in wire : \E u \in Tags : pc'[u] = "sent" /\ cur'[u] = p
  BY <1>2 DEF IntentInv
<1>6. JournalTruthful'
  BY <1>1 DEF IntentInv, JournalTruthful, Intents!Agrees, TypeInv, TypeOK
<1>7. todo' = {}
  BY <1>1 DEF IntentInv
<1> QED BY <1>1, <1>3, <1>4, <1>5, <1>6, <1>7 DEF IntentInv

LEMMA IntentFlattenPositions ==
  ASSUME TypeInv, IntentInv, NEW t \in Tags, FlattenPositions(t) \/ Update(t)
  PROVE  IntentInv'
<1>1. /\ UNCHANGED <<phase, todo, journal, wire, vst>>
      /\ pc[t] \in {"flatten_own", "flatten_all", "update"}
      /\ phase \in {"run", "stop"}
  BY DEF FlattenPositions, Update, procVars, durable, venueVars, IntentInv, AllIdle
<1>2. CASE Return(t) /\ UNCHANGED ord
  BY <1>1, <1>2, IntentReturn
<1>3. CASE FlattenPositions(t) /\ ~(Return(t) /\ UNCHANGED ord)
  <2>1. PICK T \in {{t}, Tags} :
          /\ VenueNet(T) # 0 /\ UNCHANGED res
          /\ Draw(t, IF VenueNet(T) > 0 THEN "SELL" ELSE "BUY", "CLOSE", "MARKET",
                  Abs(VenueNet(T)))
    BY <1>3 DEF FlattenPositions, ScopeTags
  <2>2. VenueNet(T) \in Int
    BY VenueNetInt DEF TypeInv
  <2>3. /\ Abs(VenueNet(T)) \in Nat /\ "CLOSE" \in Offsets /\ "MARKET" \in Kinds
        /\ (IF VenueNet(T) > 0 THEN "SELL" ELSE "BUY") \in Sides
    BY <2>2 DEF Abs, Offsets, Kinds, Sides
  <2>4. pc[t] \notin {"sent", "finish", "update"}
    BY <1>3 DEF FlattenPositions
  <2> QED BY <1>1, <2>1, <2>3, <2>4, IntentDraw
<1> QED BY <1>2, <1>3 DEF Update, durable

LEMMA IntentCancels ==
  ASSUME TypeInv, IntentInv, NEW t \in Tags,
         Cancel(t) \/ StrategyFlatten(t) \/ ShutdownFlatten(t)
  PROVE  IntentInv'
<1>1. /\ UNCHANGED <<phase, todo, cur, res, ord, journal, wire>>
      /\ phase \in {"run", "stop"}
      /\ \A u \in Tags : \/ pc'[u] = pc[u]
                         \/ pc[u] = "idle" /\ pc'[u] \in {"idle", "flatten_own", "flatten_all"}
  BY DEF Cancel, StrategyFlatten, ShutdownFlatten, FlattenCancel, procVars, callVars,
         durable, venueVars, TypeInv, TypeOK
<1>2. \A o \in Ids : vst'[o] = vst[o] \/ (vst[o] = "open" /\ vst'[o] = "canceled")
  <2>1. CASE UNCHANGED vst
    BY <2>1
  <2>2. CASE \E S \in SUBSET OpenAt(Tags) : CancelAtVenue(S)
    BY <2>2 DEF CancelAtVenue, OpenAt
  <2> QED BY <2>1, <2>2, CancelsResting DEF venueVars
<1>3. ASSUME NEW u \in Tags PROVE CallAgrees(u)'
  <2>1. Calling(u) => cur[u] \in Ids
    BY DrawnFacts DEF TypeInv, RefsDrawn
  <2>2. CallAgrees(u)
    BY DEF IntentInv
  <2>3. CASE pc'[u] = pc[u]
    BY <1>1, <1>2, <2>1, <2>2, <2>3 DEF CallAgrees, Calling, Intents!Agrees
  <2>4. CASE pc[u] = "idle" /\ pc'[u] \in {"idle", "flatten_own", "flatten_all"}
    BY <1>1, <2>2, <2>4 DEF CallAgrees, Calling
  <2> QED BY <1>1, <2>3, <2>4
<1>4. \A o \in wire : vst'[o] = "none" /\ \E u \in Tags : pc'[u] = "sent" /\ cur[u] = o
  <2>1. ASSUME NEW o \in wire PROVE vst'[o] = "none"
    BY <1>2, <2>1 DEF IntentInv, TypeInv, TypeOK
  <2>2. ASSUME NEW o \in wire PROVE \E u \in Tags : pc'[u] = "sent" /\ cur[u] = o
    <3>1. PICK u \in Tags : pc[u] = "sent" /\ cur[u] = o
      BY <2>2 DEF IntentInv
    <3>2. pc'[u] = "sent"
      BY <1>1, <3>1
    <3> QED BY <3>1, <3>2
  <2> QED BY <2>1, <2>2
<1>5. JournalTruthful'
  BY <1>1, <1>2 DEF IntentInv, JournalTruthful
<1> QED BY <1>1, <1>3, <1>4, <1>5 DEF IntentInv

\* Recovery finds no call in progress and nothing on the wire.
LEMMA RecoverQuiet ==
  ASSUME IntentInv, phase = "recover"
  PROVE  AllIdle /\ wire = {}
BY DEF IntentInv, AllIdle

\* A recovered row is decided as the venue says.
LEMMA RecoverDecides ==
  ASSUME TypeInv, IntentInv, Sound, RecoverRow
  PROVE  /\ phase = "recover"
         /\ \E o \in todo, s \in {"DEAD", "IN_FLIGHT", "FILLED"} :
              /\ o \in Ids /\ journal[o] \in Pending /\ todo' = todo \ {o}
              /\ journal' = [journal EXCEPT ![o] = s]
              /\ Intents!Agrees(s, vst[o])
         /\ UNCHANGED <<phase, pc, cur, res, ord, wire, vst>>
<1>1. PICK o \in NextRow :
        /\ todo' = todo \ {o}
        /\ \/ /\ vst[o] \in {"none", "refused", "canceled"}
              /\ journal' = [journal EXCEPT ![o] = "DEAD"]
           \/ /\ vst[o] = "open"
              /\ journal' = [journal EXCEPT ![o] = "IN_FLIGHT"]
           \/ /\ vst[o] = "filled"
              /\ journal' = [journal EXCEPT ![o] = "FILLED"]
  BY DEF RecoverRow, OutcomeIs, Sound
<1>2. o \in todo /\ o \in Ids /\ journal[o] \in Pending
  BY DEF NextRow, IntentInv, TypeInv, TypeOK
<1>3. \E s \in {"DEAD", "IN_FLIGHT", "FILLED"} :
        journal' = [journal EXCEPT ![o] = s] /\ Intents!Agrees(s, vst[o])
  BY <1>1 DEF Intents!Agrees
<1> QED BY <1>1, <1>2, <1>3 DEF RecoverRow, venueVars

LEMMA IntentRecover ==
  ASSUME TypeInv, IntentInv, Sound, RecoverRow
  PROVE  IntentInv'
<1>1. PICK o \in todo, s \in {"DEAD", "IN_FLIGHT", "FILLED"} :
        /\ o \in Ids /\ journal[o] \in Pending /\ todo' = todo \ {o}
        /\ journal' = [journal EXCEPT ![o] = s]
        /\ Intents!Agrees(s, vst[o])
  BY RecoverDecides
<1>2. /\ phase = "recover" /\ UNCHANGED <<phase, pc, cur, res, ord, wire, vst>>
      /\ AllIdle /\ wire = {}
  BY RecoverDecides, RecoverQuiet
<1>3. \A t \in Tags : CallAgrees(t)'
  BY <1>2 DEF IntentInv, AllIdle, CallAgrees, Calling
<1>4. JournalTruthful'
  BY <1>1, <1>2 DEF IntentInv, JournalTruthful, Intents!Agrees, TypeInv, TypeOK
<1>5. \A p \in todo' : journal'[p] \in Pending
  BY <1>1 DEF IntentInv, TypeInv, TypeOK
<1> QED BY <1>2, <1>3, <1>4, <1>5 DEF IntentInv, AllIdle

LEMMA IntentLoseMemory ==
  ASSUME TypeInv, IntentInv, Sound, Crash \/ Stopped
  PROVE  IntentInv'
<1>1. /\ \A t \in Tags : pc'[t] = "idle" /\ res'[t] = "none"
      /\ todo' = {}
      /\ UNCHANGED <<ord, journal, vst>>
  BY DEF Crash, Stopped, LoseMemory, durable, venueVars
<1>2. wire' = {}
  <2>1. CASE Crash
    BY <2>1 DEF Crash, Sound
  <2>2. CASE Stopped
    BY <2>2 DEF Stopped, venueVars, AllIdle, IntentInv
  <2> QED BY <2>1, <2>2
<1>3. \A t \in Tags : CallAgrees(t)'
  BY <1>1 DEF CallAgrees, Calling
<1> QED BY <1>1, <1>2, <1>3 DEF IntentInv, AllIdle, JournalTruthful

\* The venue takes an order off the wire and tells its worker what it did.
LEMMA TakesReply ==
  ASSUME NEW o \in Ids, VenueTakes(o)
  PROVE  /\ o \in wire /\ wire' = wire \ {o}
         /\ \E f \in {"filled", "open", "refused"},
               s \in {"FILLED", "IN_FLIGHT", "DEAD"} :
              /\ vst' = [vst EXCEPT ![o] = f] /\ Reply(o, s) /\ Intents!Agrees(s, f)
         /\ UNCHANGED <<phase, todo, pc, cur, ord, journal>>
<1>1. CASE VenueExecutes(o)
  <2>1. vst' = [vst EXCEPT ![o] = "filled"] /\ Reply(o, "FILLED")
    BY <1>1 DEF VenueExecutes, Execute
  <2>2. Intents!Agrees("FILLED", "filled")
    BY DEF Intents!Agrees
  <2> QED BY <1>1, <2>1, <2>2 DEF VenueExecutes, procVars, durable
<1>2. CASE VenueRests(o)
  <2>1. Intents!Agrees("IN_FLIGHT", "open")
    BY DEF Intents!Agrees
  <2> QED BY <1>2, <2>1 DEF VenueRests, procVars, durable
<1>3. CASE VenueRefuses(o)
  <2>1. Intents!Agrees("DEAD", "refused")
    BY DEF Intents!Agrees
  <2> QED BY <1>3, <2>1 DEF VenueRefuses, procVars, durable
<1> QED BY <1>1, <1>2, <1>3 DEF VenueTakes

LEMMA IntentTakes ==
  ASSUME TypeInv, IntentInv, NEW o \in Ids, VenueTakes(o)
  PROVE  IntentInv'
<1>1. /\ o \in wire /\ wire' = wire \ {o}
      /\ UNCHANGED <<phase, todo, pc, cur, ord, journal>>
  BY TakesReply
<1>2. PICK f \in {"filled", "open", "refused"}, s \in {"FILLED", "IN_FLIGHT", "DEAD"} :
        vst' = [vst EXCEPT ![o] = f] /\ Reply(o, s) /\ Intents!Agrees(s, f)
  BY TakesReply
<1>3. PICK t \in Tags : pc[t] = "sent" /\ cur[t] = o
  BY <1>1 DEF IntentInv
<1>4. vst[o] = "none" /\ vst'[o] = f /\ \A p \in Ids : p # o => vst'[p] = vst[p]
  BY <1>1, <1>2 DEF IntentInv, TypeInv, TypeOK
<1>5. ASSUME NEW u \in Tags, u # t PROVE CallAgrees(u)'
  <2>1. Calling(u) => cur[u] # o /\ cur[u] \in Ids
    BY <1>3, <1>5, OwnOrders, DrawnFacts DEF Calling, TypeInv, RefsDrawn
  <2>2. res'[u] = res[u]
    BY <1>2, <2>1 DEF Reply, Calling, TypeInv, TypeOK
  <2> QED BY <1>1, <1>4, <2>1, <2>2, SameCall DEF IntentInv
<1>6. res'[t] = s
  BY <1>2, <1>3 DEF Reply
<1>7. CallAgrees(t)'
  <2>1. CallAgrees(t)
    BY DEF IntentInv
  <2>2. Intents!Agrees(s, f)
    BY <1>2
  <2>3. Intents!Agrees(res[t], vst[cur[t]])'
    BY <1>1, <1>3, <1>4, <1>6, <2>2 DEF Intents!Agrees
  <2> QED BY <1>1, <1>3, <1>6, <2>1, <2>3 DEF CallAgrees, Calling
<1>8. journal[o] = "SUBMITTING"
  BY <1>3 DEF IntentInv, CallAgrees
<1>9. JournalTruthful'
  BY <1>1, <1>4, <1>8 DEF IntentInv, JournalTruthful
<1>10. \A p \in wire' : vst'[p] = "none"
  BY <1>1, <1>4 DEF IntentInv, TypeInv, TypeOK
<1> QED BY <1>1, <1>5, <1>7, <1>9, <1>10 DEF IntentInv, AllIdle

\* A resting order that fills or expires breaks no status.
LEMMA IntentEnds ==
  ASSUME TypeInv, IntentInv, NEW o \in Ids, VenueFills(o) \/ VenueExpires(o)
  PROVE  IntentInv'
<1>1. /\ vst[o] = "open"
      /\ \E f \in {"filled", "canceled"} : vst' = [vst EXCEPT ![o] = f]
      /\ UNCHANGED <<phase, todo, pc, cur, res, ord, journal, wire>>
  BY DEF VenueFills, VenueExpires, Execute, procVars, callVars, durable
<1>2. vst'[o] \in {"filled", "canceled"} /\ \A p \in Ids : p # o => vst'[p] = vst[p]
  BY <1>1 DEF TypeInv, TypeOK
<1>3. ASSUME NEW t \in Tags PROVE CallAgrees(t)'
  <2>1. Calling(t) => cur[t] \in Ids
    BY DrawnFacts DEF TypeInv, RefsDrawn
  <2>2. CallAgrees(t)
    BY DEF IntentInv
  <2> QED BY <1>1, <1>2, <2>1, <2>2 DEF CallAgrees, Calling, Intents!Agrees
<1>4. JournalTruthful'
  BY <1>1, <1>2 DEF IntentInv, JournalTruthful
<1>5. \A p \in wire : vst'[p] = "none"
  BY <1>1, <1>2 DEF IntentInv, TypeInv, TypeOK
<1> QED BY <1>1, <1>3, <1>4, <1>5 DEF IntentInv, AllIdle

\* The quiet steps stop no call and leave rows to recover only in recovery.
LEMMA IntentQuietSteps ==
  ASSUME TypeInv, IntentInv,
         \/ Start \/ RecoverFails \/ RecoverDone \/ RunStrategies \/ Shutdown
         \/ \E t \in Tags : ReconcilePositions(t) \/ ReconcileOrders(t)
                              \/ Register(t) \/ Reconciled(t)
         \/ \E o \in Ids : VenueFuse(o)
         \/ UNCHANGED vars
  PROVE  IntentInv'
<1>1. UNCHANGED <<pc, cur, res, ord, journal, wire, vst>>
  BY QuietSteps
<1>2. CASE Start
  BY <1>1, <1>2, IntentQuiet DEF Start, IntentInv
<1>3. CASE RecoverFails \/ RecoverDone \/ RunStrategies \/ Shutdown
  <2>1. phase' \notin {"run", "stop"} => AllIdle
    BY <1>3 DEF RecoverFails, RecoverDone, RunStrategies, Shutdown, IntentInv
  <2>2. todo' = {}
    BY <1>3 DEF RecoverFails, RecoverDone, RunStrategies, Shutdown, IntentInv
  <2> QED BY <1>1, <2>1, <2>2, IntentQuiet
<1>4. CASE UNCHANGED <<phase, todo>>
  BY <1>1, <1>4, IntentQuiet DEF IntentInv
<1> QED BY <1>2, <1>3, <1>4 DEF ReconcilePositions, ReconcileOrders, Register, Reconciled,
                                VenueFuse, vars, procVars

LEMMA IntentStep ==
  ASSUME TypeInv, RowsAhead, IntentInv, Sound, [Next]_vars
  PROVE  IntentInv'
<1>1. CASE \E t \in Tags : Worker(t)
  BY <1>1, IntentResolve, IntentAccept, IntentBegin, IntentSubmit, IntentAnswered,
     IntentNoAnswer, IntentFinish, IntentFlattenPositions, IntentCancels
  DEF Worker, WorkerStep, RowsAhead
<1>2. CASE Runner
  BY <1>2, IntentQuietSteps, IntentRecover, IntentLoseMemory, IntentCancels
  DEF Runner, Boot
<1>3. CASE \E o \in Ids : VenueStep(o)
  BY <1>3, IntentQuietSteps, IntentTakes, IntentEnds DEF VenueStep
<1>4. CASE UNCHANGED vars
  BY <1>4, IntentQuietSteps
<1> QED BY <1>1, <1>2, <1>3, <1>4 DEF Next

LEMMA IntentInit ==
  ASSUME Init
  PROVE  RowsAhead /\ IntentInv
BY DEF Init, RowsAhead, WriteAhead, IntentInv, CallAgrees, Calling, AllIdle,
       JournalTruthful, Pending

\* Everything the refinement needs, as one invariant.
LEMMA IntentInvariant ==
  ASSUME Sound
  PROVE  Spec => [](TypeInv /\ RowsAhead /\ IntentInv)
<1> DEFINE Inv == TypeInv /\ RowsAhead /\ IntentInv
<1>1. Init => Inv
  BY TypeInit, IntentInit
<1>2. Inv /\ [Next]_vars => Inv'
  BY TypeStep, AheadStep, IntentStep
<1> QED BY <1>1, <1>2, PTL DEF Spec

\* A row that says FILLED was executed, one that says DEAD is not executing
\* nor ever will be, through crashes, restarts and, on binance, lost answers.
THEOREM JournalTruthfulHolds ==
  ASSUME Sound
  PROVE  Spec => []JournalTruthful
<1>1. TypeInv /\ RowsAhead /\ IntentInv => JournalTruthful
  BY DEF IntentInv
<1> QED BY <1>1, IntentInvariant, PTL

-----------------------------------------------------------------------------
(* Refinement, step by step.                                               *)

LEMMA BeginIntends ==
  ASSUME TypeInv, IntentInv, NEW t \in Tags, Begin(t)
  PROVE  Intents!Next
<1>1. cur[t] \in Ids /\ journal[cur[t]] = "none"
  BY DrawnFacts DEF Begin, IntentInv, CallAgrees, TypeInv, RefsDrawn, Calling
<1>2. Intents!Intend(cur[t])
  BY <1>1 DEF Intents!Intend, Begin, venueVars
<1> QED BY <1>1, <1>2 DEF Intents!Next

LEMMA TakesReaches ==
  ASSUME TypeInv, IntentInv, NEW o \in Ids, VenueTakes(o)
  PROVE  Intents!Next
<1>1. /\ o \in wire /\ UNCHANGED journal
      /\ \E f \in {"refused", "open", "filled"} : vst' = [vst EXCEPT ![o] = f]
  BY TakesReply
<1>2. vst[o] = "none" /\ journal[o] = "SUBMITTING"
  BY <1>1 DEF IntentInv, CallAgrees
<1>3. Intents!Reach(o)
  BY <1>1, <1>2 DEF Intents!Reach
<1> QED BY <1>3 DEF Intents!Next

LEMMA FillsFill ==
  ASSUME TypeInv, NEW o \in Ids, VenueFills(o)
  PROVE  Intents!Next
<1>1. Intents!Fill(o)
  BY DEF Intents!Fill, VenueFills, Execute, durable
<1> QED BY <1>1 DEF Intents!Next

LEMMA CancelsCancel ==
  ASSUME TypeInv, NEW S \in SUBSET OpenAt(Tags), CancelAtVenue(S), UNCHANGED journal
  PROVE  Intents!Next
<1>1. S \in SUBSET Ids /\ \A o \in S : vst[o] = "open"
  BY DrawnFacts DEF OpenAt, TypeInv
<1>2. Intents!CancelSome(S)
  BY <1>1 DEF Intents!CancelSome, CancelAtVenue
<1> QED BY <1>1, <1>2 DEF Intents!Next

LEMMA ExpiresCancels ==
  ASSUME TypeInv, NEW o \in Ids, VenueExpires(o)
  PROVE  Intents!Next
<1>1. vst[o] = "open" /\ vst' = [vst EXCEPT ![o] = "canceled"] /\ UNCHANGED journal
  BY DEF VenueExpires, durable
<1>2. vst' = [p \in Ids |-> IF p \in {o} THEN "canceled" ELSE vst[p]]
  BY <1>1 DEF TypeInv, TypeOK
<1>3. Intents!CancelSome({o})
  BY <1>1, <1>2 DEF Intents!CancelSome
<1> QED BY <1>3 DEF Intents!Next

\* A row is decided by finish() and by recovery.
LEMMA RowDecided ==
  ASSUME NEW o \in Ids, NEW s \in {"DEAD", "IN_FLIGHT", "FILLED", "UNKNOWN"},
         journal[o] \in Pending, Intents!Agrees(s, vst[o]),
         journal' = [journal EXCEPT ![o] = s], UNCHANGED vst
  PROVE  Intents!Next
<1>1. s \in (Intents!Pending \cup Intents!Terminal) \ {"SUBMITTING"}
      /\ journal[o] \in Intents!Pending
  BY DEF Intents!Pending, Intents!Terminal, Pending
<1>2. Intents!Decide(o)
  BY <1>1 DEF Intents!Decide
<1> QED BY <1>2 DEF Intents!Next

LEMMA FinishDecidesRow ==
  ASSUME TypeInv, IntentInv, NEW t \in Tags, Finish(t)
  PROVE  Intents!Next
<1>1. /\ cur[t] \in Ids /\ journal[cur[t]] \in Pending
      /\ res[t] \in {"DEAD", "IN_FLIGHT", "FILLED", "UNKNOWN"}
      /\ Intents!Agrees(res[t], vst[cur[t]])
      /\ journal' = [journal EXCEPT ![cur[t]] = res[t]] /\ UNCHANGED vst
  BY FinishDecides DEF Pending
<1> QED BY <1>1, RowDecided

LEMMA RecoverDecidesRow ==
  ASSUME TypeInv, IntentInv, Sound, RecoverRow
  PROVE  Intents!Next
<1>1. PICK o \in todo, s \in {"DEAD", "IN_FLIGHT", "FILLED"} :
        /\ o \in Ids /\ journal[o] \in Pending
        /\ journal' = [journal EXCEPT ![o] = s]
        /\ Intents!Agrees(s, vst[o])
  BY RecoverDecides
<1>2. UNCHANGED vst
  BY RecoverDecides
<1> QED BY <1>1, <1>2, RowDecided

LEMMA IntentsStep ==
  ASSUME TypeInv, RowsAhead, IntentInv, Sound, [Next]_vars
  PROVE  [Intents!Next]_(Intents!vars)
<1> DEFINE Stutter == UNCHANGED <<journal, vst>>
<1>1. Stutter => UNCHANGED Intents!vars
  BY DEF Intents!vars
<1>2. ASSUME NEW t \in Tags, Cancel(t) \/ StrategyFlatten(t) \/ ShutdownFlatten(t)
      PROVE  Intents!Next \/ Stutter
  <2>1. UNCHANGED journal
    BY <1>2 DEF Cancel, StrategyFlatten, ShutdownFlatten, FlattenCancel, durable
  <2> QED BY <1>2, <2>1, CancelsResting, CancelsCancel DEF venueVars
<1>3. ASSUME NEW t \in Tags, Worker(t) PROVE Intents!Next \/ Stutter
  <2>1. CASE Resolve(t) \/ Accept(t) \/ Submit(t) \/ Answered(t) \/ NoAnswer(t)
             \/ Update(t) \/ FlattenPositions(t)
    BY <2>1 DEF Resolve, Accept, Submit, Answered, NoAnswer, Update, FlattenPositions,
                durable, venueVars
  <2> QED BY <1>2, <1>3, <2>1, BeginIntends, FinishDecidesRow DEF Worker, WorkerStep
<1>4. ASSUME Runner PROVE Intents!Next \/ Stutter
  <2>1. CASE Crash \/ Stopped
    BY <2>1 DEF Crash, Stopped, durable, venueVars
  <2> QED BY <1>2, <1>4, <2>1, QuietSteps, RecoverDecidesRow DEF Runner, Boot
<1>5. ASSUME NEW o \in Ids, VenueStep(o) PROVE Intents!Next \/ Stutter
  BY <1>5, QuietSteps, TakesReaches, FillsFill, ExpiresCancels DEF VenueStep
<1> QED BY <1>1, <1>3, <1>4, <1>5, QuietSteps DEF Next

\* Under Sound, the whole order path, with its threads, crashes and recovery,
\* implements the abstract journal: one intent, at most one execution, rows
\* decided from a pending state only and never against the venue.
THEOREM PathImplementsIntents ==
  ASSUME Sound
  PROVE  Spec => ImplementsIntents
<1>1. Init => Intents!Init
  BY DEF Init, Intents!Init
<1>2. TypeInv /\ RowsAhead /\ IntentInv /\ [Next]_vars => [Intents!Next]_(Intents!vars)
  BY IntentsStep
<1> QED BY <1>1, <1>2, IntentInvariant, PTL DEF Spec, ImplementsIntents, Intents!Spec

-----------------------------------------------------------------------------
(* Sums of entries.                                                        *)

\* Weights in one direction add up in that direction.
LEMMA SumSided ==
  ASSUME NEW S, IsFiniteSet(S), NEW w, NEW dir \in Sides,
         \A e \in S : w[e] \in Int /\ Signed(dir, w[e]) >= 0
  PROVE  Signed(dir, SumOver(w, S)) >= 0
<1> DEFINE Bad == {T \in SUBSET S : ~ (Signed(dir, SumOver(w, T)) >= 0)}
<1>1. SUFFICES ASSUME Bad # {} PROVE FALSE
  OBVIOUS
<1>2. PICK T \in Bad : \A U \in SUBSET T : U # T => U \notin Bad
  <2>1. Bad \subseteq SUBSET S
    OBVIOUS
  <2> HIDE DEF Bad
  <2> QED BY <1>1, <2>1, SmallestBad
<1>3. IsFiniteSet(T)
  BY FS_Subset
<1>4. CASE T = {}
  <2>1. SumOver(w, T) = 0
    BY <1>3, <1>4, SumFold
  <2> QED BY <1>2, <2>1 DEF Signed
<1>5. CASE T # {}
  <2> DEFINE U == T \ {First(T)}
  <2>1. First(T) \in T /\ U \in SUBSET T /\ U # T /\ IsFiniteSet(U)
    BY <1>3, <1>5, FirstIn, FS_Subset
  <2>2. Signed(dir, SumOver(w, U)) >= 0 /\ Signed(dir, w[First(T)]) >= 0 /\ w[First(T)] \in Int
    BY <1>2, <2>1
  <2>3. SumOver(w, T) = w[First(T)] + SumOver(w, U)
    BY <1>3, <1>5, SumFold
  <2>4. SumOver(w, U) \in Int
    <3>1. \A e \in U : w[e] \in Int
      BY <2>1
    <3> QED BY <2>1, <3>1, SumInt
  <2>5. Signed(dir, SumOver(w, T)) >= 0
    BY <2>2, <2>3, <2>4 DEF Signed
  <2> QED BY <1>2, <2>5
<1> QED BY <1>4, <1>5

\* What an entry adds to the exposure, and a set of entries.
Weight(e)  == Signed(e.side, e.qty)
Weights(S) == MapThenSumSet(LAMBDA e : Signed(e.side, e.qty), S)

LEMMA WeightsTotal ==
  ASSUME NEW S, IsFiniteSet(S)
  PROVE  Weights(S) = SumOver([e \in S |-> Weight(e)], S)
<1> DEFINE w == [e \in S |-> Weight(e)]
           Step(g, s) == IF s = {} THEN 0
                         ELSE Signed(First(s).side, First(s).qty) + g[s \ {First(s)}]
           g == CHOOSE f : f = [s \in SUBSET S |-> Step(f, s)]
<1>1. Weights(S) = g[S]
  BY DEF Weights, First, MapThenSumSet, MapThenFoldSet
<1>2. ASSUME NEW f, NEW s \in SUBSET S
      PROVE  Step(f, s) = AddUp(w, f, s)
  <2>1. CASE s = {}
    BY <2>1 DEF AddUp
  <2>2. CASE s # {}
    <3>1. First(s) \in S
      BY <2>2, FirstIn
    <3> QED BY <2>2, <3>1 DEF AddUp, Weight
  <2> QED BY <2>1, <2>2
<1> HIDE DEF w, Step
<1>3. PICK h : Sums(w, h, S)
  BY SumsExist
<1>4. h = [s \in SUBSET S |-> Step(h, s)]
  BY <1>2, <1>3 DEF Sums
<1>5. g = [s \in SUBSET S |-> Step(g, s)]
  BY <1>4
<1> HIDE DEF g
<1>6. Sums(w, g, S)
  BY <1>2, <1>5 DEF Sums
<1> QED BY <1>1, <1>6, SumUnique DEF w

\* Nothing weighs nothing.
LEMMA WeightsEmpty == Weights({}) = 0
BY WeightsTotal, SumFold, FS_EmptySet

\* Entries of integer weight add up to an integer.
LEMMA WeightsInt ==
  ASSUME NEW S, IsFiniteSet(S), \A e \in S : Weight(e) \in Int
  PROVE  Weights(S) \in Int
<1> DEFINE w == [e \in S |-> Weight(e)]
<1>1. \A e \in S : w[e] \in Int
  OBVIOUS
<1> HIDE DEF w
<1>2. SumOver(w, S) \in Int
  BY <1>1, SumInt
<1> QED BY <1>2, WeightsTotal DEF w

\* An entry can be taken out of a sum.
LEMMA WeightsWithout ==
  ASSUME NEW S, IsFiniteSet(S), \A e \in S : Weight(e) \in Int, NEW x \in S
  PROVE  Weights(S) = Weight(x) + Weights(S \ {x})
<1> DEFINE w == [e \in S |-> Weight(e)]
           R == S \ {x}
           v == [e \in R |-> Weight(e)]
<1>1. /\ \A e \in S : w[e] \in Int
      /\ w[x] = Weight(x) /\ \A e \in R : w[e] = v[e]
  OBVIOUS
<1>2. IsFiniteSet(R)
  BY FS_Subset
<1>3. Weights(S) = SumOver(w, S) /\ Weights(R) = SumOver(v, R)
  BY <1>2, WeightsTotal
<1> HIDE DEF w, v
<1>4. SumOver(w, S) = w[x] + SumOver(w, R)
  BY <1>1, SumWithout
<1>5. SumOver(w, R) = SumOver(v, R)
  <2> HIDE DEF R
  <2> QED BY <1>1, <1>2, SumSame
<1> QED BY <1>1, <1>3, <1>4, <1>5

-----------------------------------------------------------------------------
\* A record whose in-flight exposure is the sum of its entries, one per order.
Balanced(tp) ==
  /\ IsFiniteSet(tp.pending)
  /\ \A e, f \in tp.pending : e.id = f.id => e = f
  /\ tp.inFlight = Weights(tp.pending)

\* A typed entry weighs an integer.
LEMMA EntriesWeigh ==
  ASSUME NEW I, NEW tp \in Positions(I)
  PROVE  \A e \in tp.pending : Weight(e) \in Int
<1>1. \A e \in tp.pending : e.side \in Sides /\ e.qty \in Nat
  BY DEF Positions
<1> QED BY <1>1, SignedInt DEF Weight

\* Accepting an order the record does not track adds its weight once.
LEMMA AcceptedBalanced ==
  ASSUME NEW I, NEW tp \in Positions(I), Balanced(tp), NEW o, ~IsTracked(tp, o),
         NEW side \in Sides, NEW offset, NEW qty \in Nat
  PROVE  Balanced(OnOrderAccepted(tp, o, side, offset, qty))
<1> DEFINE n == Entry(o, side, offset, qty)
           S == tp.pending \cup {n}
<1>1. n \notin tp.pending /\ Others(tp, o) = tp.pending /\ n.id = o
  BY DEF Entry, IsTracked, Others
<1>2. Weight(n) = Signed(side, qty) /\ Weight(n) \in Int
  BY SignedInt DEF Weight, Entry
<1>3. IsFiniteSet(S) /\ n \in S /\ S \ {n} = tp.pending
  BY <1>1, FS_AddElement DEF Balanced
<1>4. \A e \in S : Weight(e) \in Int
  BY <1>2, EntriesWeigh
<1> HIDE DEF n, S
<1>5. Weights(S) = Weight(n) + Weights(tp.pending)
  BY <1>3, <1>4, WeightsWithout
<1>6. \A e, f \in S : e.id = f.id => e = f
  BY <1>1 DEF S, IsTracked, Balanced
<1>7. tp.inFlight \in Int
  BY DEF Positions
<1>8. tp.inFlight + Signed(side, qty) = Weights(S)
  BY <1>2, <1>5, <1>7 DEF Balanced
<1> DEFINE r == OnOrderAccepted(tp, o, side, offset, qty)
<1>9. r.pending = S /\ r.inFlight = tp.inFlight + Signed(side, qty)
  BY <1>1 DEF OnOrderAccepted, S, n
<1> HIDE DEF r
<1>10. Balanced(r)
  BY <1>3, <1>6, <1>8, <1>9 DEF Balanced
<1> QED BY <1>10 DEF r

\* The fields of an entry.
LEMMA EntryOf ==
  ASSUME NEW o, NEW side, NEW offset, NEW qty
  PROVE  LET e == Entry(o, side, offset, qty) IN
           e.id = o /\ e.side = side /\ e.offset = offset /\ e.qty = qty
BY DEF Entry

\* An accepted order is tracked, and so is every other order as before.
LEMMA AcceptedTracks ==
  ASSUME NEW tp, NEW o, NEW side, NEW offset, NEW qty
  PROVE  LET r == OnOrderAccepted(tp, o, side, offset, qty) IN
           /\ IsTracked(r, o)
           /\ \A p : IsTracked(tp, p) => IsTracked(r, p)
           /\ r.pending = Others(tp, o) \cup {Entry(o, side, offset, qty)}
           /\ \A e \in r.pending : e \in tp.pending \/ e = Entry(o, side, offset, qty)
<1> DEFINE r == OnOrderAccepted(tp, o, side, offset, qty)
           n == Entry(o, side, offset, qty)
<1>1. r.pending = Others(tp, o) \cup {n} /\ n.id = o
  BY EntryOf DEF OnOrderAccepted
<1> HIDE DEF r, n
<1>2. IsTracked(r, o)
  BY <1>1 DEF IsTracked
<1>3. ASSUME NEW p, IsTracked(tp, p) PROVE IsTracked(r, p)
  BY <1>1, <1>2, <1>3 DEF IsTracked, Others
<1>4. \A e \in r.pending : e \in tp.pending \/ e = n
  BY <1>1 DEF Others
<1> QED BY <1>1, <1>2, <1>3, <1>4 DEF r, n

\* Popping a tracked order releases exactly its entry.
LEMMA PoppedBalanced ==
  ASSUME NEW I, NEW tp \in Positions(I), Balanced(tp), NEW o, IsTracked(tp, o), NEW n,
         NEW r, r.pending = Others(tp, o), r.inFlight = tp.inFlight - Released(tp, o, n)
  PROVE  Balanced(r)
<1> DEFINE e == CHOOSE x \in tp.pending : x.id = o
<1>1. e \in tp.pending /\ e.id = o
  BY DEF IsTracked
<1>2. Released(tp, o, n) = Weight(e)
  BY DEF Released, Weight
<1> HIDE DEF e
<1>3. Others(tp, o) = tp.pending \ {e}
  BY <1>1 DEF Others, Balanced
<1>4. \A x \in tp.pending : Weight(x) \in Int
  BY EntriesWeigh
<1>5. Weights(tp.pending) = Weight(e) + Weights(tp.pending \ {e})
  BY <1>1, <1>4, WeightsWithout DEF Balanced
<1>6. IsFiniteSet(tp.pending \ {e})
  BY FS_RemoveElement DEF Balanced
<1>7. Weights(tp.pending \ {e}) \in Int
  <2>1. \A x \in tp.pending \ {e} : Weight(x) \in Int
    BY <1>4
  <2> QED BY <1>6, <2>1, WeightsInt
<1>8. r.inFlight = Weights(tp.pending \ {e})
  BY <1>1, <1>2, <1>4, <1>5, <1>7 DEF Balanced
<1> QED BY <1>3, <1>6, <1>8 DEF Balanced

\* A fill moves a tracked order from the entries to the volume.
LEMMA FilledBalanced ==
  ASSUME NEW I, NEW tp \in Positions(I), Balanced(tp), NEW o, IsTracked(tp, o),
         NEW side, NEW qty
  PROVE  Balanced(OnOrderFilled(tp, o, side, qty)) /\ Balanced(OnOrderDead(tp, o, side, qty))
<1>1. Balanced(OnOrderFilled(tp, o, side, qty))
  BY PoppedBalanced DEF OnOrderFilled
<1>2. Balanced(OnOrderDead(tp, o, side, qty))
  BY PoppedBalanced DEF OnOrderDead
<1> QED BY <1>1, <1>2

\* The volume is no part of the balance.
LEMMA SyncBalanced ==
  ASSUME NEW tp, NEW n, Balanced(tp)
  PROVE  Balanced(SyncFromVenue(tp, n))
BY DEF Balanced, SyncFromVenue

\* A record without entries is balanced.
LEMMA EmptyBalanced ==
  ASSUME NEW tp
  PROVE  Balanced(ClearInFlight(tp)) /\ Balanced(EmptyPosition)
BY FS_EmptySet, WeightsEmpty DEF Balanced, ClearInFlight, EmptyPosition

-----------------------------------------------------------------------------
\* The ledger of tag t, at whatever step its worker is.
LedgerAgrees(t) ==
  /\ Balanced(led[t])
  /\ \A e \in led[t].pending : e.id \in Drawn /\ e.id \notin todo
  /\ pc[t] = "accept" => ~IsTracked(led[t], cur[t])
  /\ pc[t] \in {"begin", "submit", "sent", "finish", "update"} => IsTracked(led[t], cur[t])
  /\ phase \in {"down", "stopped"} => led[t].pending = {}
  /\ phase \notin {"run", "stop"} => pc[t] = "idle"

LedgerInv ==
  /\ \A t \in Tags : LedgerAgrees(t)
  /\ phase # "recover" => todo = {}

RowsInv ==
  /\ \A t \in Tags : res[t] # "SUBMITTING"
  /\ \A o \in Ids : journal[o] = "SUBMITTING" =>
       \/ phase \in {"down", "stopped", "stop"} \/ o \in todo
       \/ \E t \in Tags : cur[t] = o /\ pc[t] \in {"submit", "sent", "finish"}

-----------------------------------------------------------------------------
(* LedgerInv, one lemma per action.                                        *)

\* A record depends on these variables only.
LEMMA SameLedger ==
  ASSUME NEW t \in Tags, LedgerAgrees(t), Drawn \subseteq Drawn', todo' \subseteq todo,
         led'[t] = led[t], pc'[t] = pc[t], cur'[t] = cur[t],
         phase' \in {"down", "stopped"} => phase \in {"down", "stopped"},
         phase' \notin {"run", "stop"} => phase \notin {"run", "stop"}
  PROVE  LedgerAgrees(t)'
BY DEF LedgerAgrees, Balanced

\* A worker that is in a call runs or stops.
LEMMA CallPhase ==
  ASSUME LedgerInv, NEW t \in Tags, pc[t] # "idle"
  PROVE  phase \in {"run", "stop"} /\ todo = {}
BY DEF LedgerInv, LedgerAgrees

\* A drawn order is not yet in any ledger.
LEMMA LedgerDraw ==
  ASSUME TypeInv, LedgerInv, NEW t \in Tags, NEW side \in Sides, NEW offset \in Offsets,
         NEW kind \in Kinds, NEW qty \in Nat, Draw(t, side, offset, kind, qty),
         phase \in {"run", "stop"}, UNCHANGED <<phase, todo>>,
         Balanced(led'[t]), led'[t].pending = led[t].pending,
         \A u \in Tags : u # t => led'[u] = led[u]
  PROVE  LedgerInv'
<1> DEFINE n == Len(ord) + 1
<1>1. n \in Ids \ Drawn /\ Drawn \subseteq Drawn'
  BY DrawStep DEF TypeInv
<1>2. cur' = [cur EXCEPT ![t] = n] /\ pc' = [pc EXCEPT ![t] = "accept"]
  BY DEF Draw
<1> HIDE DEF n
<1>3. /\ cur'[t] = n /\ pc'[t] = "accept"
      /\ \A u \in Tags : u # t => cur'[u] = cur[u] /\ pc'[u] = pc[u]
  BY <1>2 DEF TypeInv, TypeOK
<1>4. \A e \in led[t].pending : e.id \in Drawn /\ e.id \notin todo
  BY DEF LedgerInv, LedgerAgrees
<1>5. LedgerAgrees(t)'
  BY <1>1, <1>3, <1>4 DEF LedgerAgrees, IsTracked
<1>6. \A u \in Tags : u # t => LedgerAgrees(u)'
  BY <1>1, <1>3, SameLedger DEF LedgerInv
<1> QED BY <1>5, <1>6 DEF LedgerInv

\* A request that passes the resolver.
LEMMA LedgerResolve ==
  ASSUME TypeInv, LedgerInv, NEW t \in Tags, Resolve(t)
  PROVE  LedgerInv'
<1>1. PICK r \in Requests, qty \in 1 .. MaxOrders :
        Draw(t, r.side, r.offset, r.kind, qty)
  BY DEF Resolve
<1>2. r.side \in Sides /\ r.offset \in Offsets /\ r.kind \in Kinds /\ qty \in Nat
  BY RequestAssumption, BoundAssumption DEF Kinds
<1>3. phase = "run" /\ UNCHANGED <<phase, todo, led>>
  BY DEF Resolve, procVars
<1>4. Balanced(led'[t])
  BY <1>3 DEF LedgerInv, LedgerAgrees
<1> QED BY <1>1, <1>2, <1>3, <1>4, LedgerDraw

\* Step accept() of a call puts the order in flight, untracked so far.
LEMMA LedgerAccept ==
  ASSUME TypeInv, LedgerInv, NEW t \in Tags, Accept(t)
  PROVE  LedgerInv'
<1> DEFINE o == cur[t]
           new == OnOrderAccepted(led[t], o, ord[o].side, ord[o].offset, ord[o].qty)
<1>1. /\ pc[t] = "accept" /\ pc' = [pc EXCEPT ![t] = "begin"]
      /\ led' = [led EXCEPT ![t] = new]
      /\ UNCHANGED <<phase, todo, cur, ord>>
  BY DEF Accept, procVars, durable
<1>2. /\ pc'[t] = "begin" /\ led'[t] = new
      /\ \A u \in Tags : u # t => pc'[u] = pc[u] /\ led'[u] = led[u]
  BY <1>1 DEF TypeInv, TypeOK
<1>3. phase \in {"run", "stop"} /\ todo = {}
  BY <1>1, CallPhase
<1>4. o \in Drawn /\ ord[o].side \in Sides /\ ord[o].qty \in Nat
      /\ led[t] \in Positions(Ids)
  BY <1>1, DrawnFacts DEF TypeInv, TypeOK, RefsDrawn, Calling, OrderRecord
<1>5. Balanced(led[t]) /\ ~IsTracked(led[t], o)
  BY <1>1 DEF LedgerInv, LedgerAgrees
<1>6. Balanced(new)
  BY <1>4, <1>5, AcceptedBalanced
<1>7. /\ IsTracked(new, o)
      /\ \A e \in new.pending : e.id \in Drawn
  <2>1. \A e \in led[t].pending : e.id \in Drawn
    BY DEF LedgerInv, LedgerAgrees
  <2> QED BY <1>4, <2>1, AcceptedTracks, EntryOf
<1> HIDE DEF new, o
<1>8. LedgerAgrees(t)'
  BY <1>1, <1>2, <1>3, <1>6, <1>7 DEF LedgerAgrees, Drawn, o
<1>9. \A u \in Tags : u # t => LedgerAgrees(u)'
  BY <1>1, <1>2, SameLedger DEF LedgerInv, Drawn
<1> QED BY <1>1, <1>3, <1>8, <1>9 DEF LedgerInv

\* The steps of a call between the ledger's two updates.
LEMMA LedgerCall ==
  ASSUME TypeInv, LedgerInv, NEW t \in Tags,
         Begin(t) \/ Submit(t) \/ Answered(t) \/ NoAnswer(t)
           \/ (Finish(t) /\ ~Return(t))
  PROVE  LedgerInv'
<1>1. /\ pc[t] \in {"begin", "submit", "sent", "finish"}
      /\ \E s \in {"submit", "sent", "finish", "update"} : pc' = [pc EXCEPT ![t] = s]
      /\ UNCHANGED <<phase, todo, led, cur, ord>>
  BY DEF Begin, Submit, Answered, NoAnswer, Finish, procVars, durable
<1>2. /\ pc'[t] \in {"submit", "sent", "finish", "update"}
      /\ \A u \in Tags : u # t => pc'[u] = pc[u]
  BY <1>1 DEF TypeInv, TypeOK
<1>3. phase \in {"run", "stop"} /\ todo = {}
  BY <1>1, CallPhase
<1>4. LedgerAgrees(t)'
  BY <1>1, <1>2, <1>3 DEF LedgerInv, LedgerAgrees, Balanced, Drawn
<1>5. \A u \in Tags : u # t => LedgerAgrees(u)'
  BY <1>1, <1>2, SameLedger DEF LedgerInv, Drawn
<1> QED BY <1>1, <1>3, <1>4, <1>5 DEF LedgerInv

\* A call that ends leaves a balanced record of drawn orders.
LEMMA LedgerReturn ==
  ASSUME TypeInv, LedgerInv, NEW t \in Tags, Return(t), pc[t] # "idle",
         Balanced(led'[t]), led'[t].pending \subseteq led[t].pending,
         \A u \in Tags : u # t => led'[u] = led[u],
         UNCHANGED <<phase, todo, ord>>
  PROVE  LedgerInv'
<1>1. /\ pc'[t] = "idle"
      /\ \A u \in Tags : u # t => pc'[u] = pc[u] /\ cur'[u] = cur[u]
  BY DEF Return, TypeInv, TypeOK
<1>2. phase \in {"run", "stop"} /\ todo = {}
  BY CallPhase
<1>3. LedgerAgrees(t)'
  BY <1>1, <1>2 DEF LedgerInv, LedgerAgrees, Drawn
<1>4. \A u \in Tags : u # t => LedgerAgrees(u)'
  BY <1>1, SameLedger DEF LedgerInv, Drawn
<1> QED BY <1>2, <1>3, <1>4 DEF LedgerInv

\* finish() touches no record.
LEMMA LedgerFinish ==
  ASSUME TypeInv, LedgerInv, NEW t \in Tags, Finish(t)
  PROVE  LedgerInv'
<1>1. pc[t] # "idle" /\ UNCHANGED <<phase, todo, led, ord>>
  BY DEF Finish, procVars
<1>2. Balanced(led'[t])
  BY <1>1 DEF LedgerInv, LedgerAgrees
<1> QED BY <1>1, <1>2, LedgerReturn, LedgerCall

\* The last step of a call releases its order once.
LEMMA LedgerUpdate ==
  ASSUME TypeInv, LedgerInv, NEW t \in Tags, Update(t)
  PROVE  LedgerInv'
<1> DEFINE o == cur[t]
           filled == OnOrderFilled(led[t], o, ord[o].side, fq[o])
           dead == OnOrderDead(led[t], o, ord[o].side, ord[o].qty)
<1>1. led[t] \in Positions(Ids) /\ Balanced(led[t]) /\ IsTracked(led[t], o)
  BY DEF Update, LedgerInv, LedgerAgrees, TypeInv, TypeOK
<1>2. Balanced(filled) /\ Balanced(dead)
  BY <1>1, FilledBalanced
<1>3. filled.pending \subseteq led[t].pending /\ dead.pending \subseteq led[t].pending
  BY DEF OnOrderFilled, OnOrderDead, Others
<1>4. \E r \in {filled, dead, led[t]} : led' = [led EXCEPT ![t] = r]
  BY DEF Update
<1> HIDE DEF filled, dead
<1>5. /\ led'[t] \in {filled, dead, led[t]}
      /\ \A u \in Tags : u # t => led'[u] = led[u]
  BY <1>4 DEF TypeInv, TypeOK
<1>6. Balanced(led'[t]) /\ led'[t].pending \subseteq led[t].pending
  BY <1>1, <1>2, <1>3, <1>5
<1>7. Return(t) /\ pc[t] # "idle" /\ UNCHANGED <<phase, todo, ord>>
  BY DEF Update, procVars, durable
<1> QED BY <1>5, <1>6, <1>7, LedgerReturn

\* The second half of a flatten takes the net over and draws a close.
LEMMA LedgerFlattenPositions ==
  ASSUME TypeInv, LedgerInv, NEW t \in Tags, FlattenPositions(t)
  PROVE  LedgerInv'
<1>1. Balanced(led[t]) /\ pc[t] # "idle" /\ UNCHANGED <<phase, todo>>
  BY DEF LedgerInv, LedgerAgrees, FlattenPositions, procVars
<1>2. phase \in {"run", "stop"}
  BY <1>1, CallPhase
<1>3. CASE Return(t) /\ UNCHANGED <<led, ord>>
  <2>1. Balanced(led'[t])
    BY <1>1, <1>3
  <2> QED BY <1>1, <1>3, <2>1, LedgerReturn
<1>4. CASE ~(Return(t) /\ UNCHANGED <<led, ord>>)
  <2>1. PICK T \in {{t}, Tags} :
          /\ VenueNet(T) # 0
          /\ led' = [led EXCEPT ![t] = SyncFromVenue(@, VenueNet(T))]
          /\ Draw(t, IF VenueNet(T) > 0 THEN "SELL" ELSE "BUY", "CLOSE", "MARKET",
                  Abs(VenueNet(T)))
    BY <1>4 DEF FlattenPositions, ScopeTags
  <2>2. VenueNet(T) \in Int
    BY VenueNetInt DEF TypeInv
  <2>3. /\ Abs(VenueNet(T)) \in Nat /\ "CLOSE" \in Offsets /\ "MARKET" \in Kinds
        /\ (IF VenueNet(T) > 0 THEN "SELL" ELSE "BUY") \in Sides
    BY <2>2 DEF Abs, Offsets, Kinds, Sides
  <2>4. /\ led'[t] = SyncFromVenue(led[t], VenueNet(T))
        /\ \A u \in Tags : u # t => led'[u] = led[u]
    BY <2>1 DEF TypeInv, TypeOK
  <2>5. Balanced(led'[t]) /\ led'[t].pending = led[t].pending
    BY <1>1, <2>4, SyncBalanced DEF SyncFromVenue
  <2> QED BY <1>1, <1>2, <2>1, <2>3, <2>4, <2>5, LedgerDraw
<1> QED BY <1>3, <1>4

\* The first half of a flatten empties the record of its tag.
LEMMA LedgerFlattenCancel ==
  ASSUME TypeInv, LedgerInv, NEW t \in Tags, NEW scope, FlattenCancel(t, scope),
         phase \in {"run", "stop"}, UNCHANGED <<phase, todo>>
  PROVE  LedgerInv'
<1>1. /\ pc[t] = "idle" /\ led' = [led EXCEPT ![t] = ClearInFlight(@)]
      /\ pc' = [pc EXCEPT ![t] = IF scope = "own" THEN "flatten_own" ELSE "flatten_all"]
      /\ UNCHANGED <<cur, ord>>
  BY DEF FlattenCancel, durable
<1>2. /\ pc'[t] \in {"flatten_own", "flatten_all"} /\ led'[t] = ClearInFlight(led[t])
      /\ \A u \in Tags : u # t => pc'[u] = pc[u] /\ led'[u] = led[u]
  BY <1>1 DEF TypeInv, TypeOK
<1>3. Balanced(led'[t]) /\ led'[t].pending = {}
  BY <1>2, EmptyBalanced DEF ClearInFlight
<1>4. LedgerAgrees(t)'
  BY <1>2, <1>3 DEF LedgerAgrees
<1>5. \A u \in Tags : u # t => LedgerAgrees(u)'
  BY <1>1, <1>2, SameLedger DEF LedgerInv, Drawn
<1> QED BY <1>4, <1>5 DEF LedgerInv

\* The steps that leave every call and every record alone, outside recovery.
LEMMA LedgerQuiet ==
  ASSUME TypeInv, LedgerInv, UNCHANGED <<led, pc, cur, ord>>, todo' \subseteq todo,
         phase' # "recover" => todo' = {},
         phase' \in {"down", "stopped"} => phase \in {"down", "stopped"},
         phase' \notin {"run", "stop"} => AllIdle
  PROVE  LedgerInv'
<1>1. \A u \in Tags : LedgerAgrees(u)'
  BY DEF LedgerInv, LedgerAgrees, Balanced, Drawn, AllIdle
<1> QED BY <1>1 DEF LedgerInv

\* Cancels are not told to the ledger.
LEMMA LedgerCancels ==
  ASSUME TypeInv, LedgerInv, NEW t \in Tags,
         Cancel(t) \/ StrategyFlatten(t) \/ ShutdownFlatten(t)
  PROVE  LedgerInv'
<1>1. phase \in {"run", "stop"} /\ UNCHANGED <<phase, todo>>
  BY DEF Cancel, StrategyFlatten, ShutdownFlatten, procVars
<1>2. CASE UNCHANGED <<callVars, ord>>
  BY <1>1, <1>2, LedgerQuiet DEF callVars, LedgerInv
<1> QED BY <1>1, <1>2, LedgerFlattenCancel
        DEF Cancel, StrategyFlatten, ShutdownFlatten, durable

\* A process that ends forgets everything.
LEMMA LedgerLoseMemory ==
  ASSUME TypeInv, LedgerInv, Crash \/ Stopped
  PROVE  LedgerInv'
<1>1. /\ \A t \in Tags : led'[t] = EmptyPosition /\ pc'[t] = "idle"
      /\ todo' = {}
  BY DEF Crash, Stopped, LoseMemory
<1>2. Balanced(EmptyPosition) /\ EmptyPosition.pending = {}
  BY EmptyBalanced DEF EmptyPosition
<1>3. \A t \in Tags : Balanced(led[t])'
  BY <1>1, <1>2 DEF Balanced
<1>4. \A t \in Tags : LedgerAgrees(t)'
  BY <1>1, <1>2, <1>3 DEF LedgerAgrees
<1> QED BY <1>1, <1>4 DEF LedgerInv

\* A recovered row enters the ledger of its tag for the first time.
LEMMA LedgerRecover ==
  ASSUME TypeInv, LedgerInv, RecoverRow
  PROVE  LedgerInv'
<1>1. PICK o \in NextRow :
        LET found == OnOrderAccepted(led[ord[o].tag], o, ord[o].side, ord[o].offset,
                                     ord[o].qty) IN
        /\ todo' = todo \ {o}
        /\ \/ UNCHANGED led
           \/ led' = [led EXCEPT ![ord[o].tag] = found]
           \/ led' = [led EXCEPT ![ord[o].tag] = OnOrderFilled(found, o, ord[o].side, fq[o])]
  BY DEF RecoverRow
<1>2. o \in todo /\ o \in Drawn
  BY DEF NextRow, TypeInv, RefsDrawn
<1>3. /\ ord[o].tag \in Tags /\ ord[o].side \in Sides /\ ord[o].qty \in Nat
      /\ ord[o].offset \in Offsets /\ o \in Ids
  BY <1>2, DrawnFacts DEF TypeInv, OrderRecord
<1>4. PICK t \in Tags : t = ord[o].tag
  BY <1>3
<1>5. led[t] \in Positions(Ids) /\ Balanced(led[t]) /\ ~IsTracked(led[t], o)
  BY <1>2 DEF LedgerInv, LedgerAgrees, IsTracked, TypeInv, TypeOK
<1> DEFINE found  == OnOrderAccepted(led[t], o, ord[o].side, ord[o].offset, ord[o].qty)
           filled == OnOrderFilled(found, o, ord[o].side, fq[o])
<1>6. \E r \in {found, filled, led[t]} : led' = [led EXCEPT ![t] = r]
  BY <1>1, <1>4 DEF TypeInv, TypeOK
<1>7. Balanced(found) /\ found \in Positions(Ids) /\ IsTracked(found, o)
  BY <1>3, <1>5, AcceptedBalanced, AcceptedType, AcceptedTracks
<1>8. \A e \in found.pending : e.id \in Drawn /\ e.id \notin todo'
  <2>1. \A e \in led[t].pending : e.id \in Drawn /\ e.id \notin todo
    BY DEF LedgerInv, LedgerAgrees
  <2> QED BY <1>1, <1>2, <2>1, AcceptedTracks, EntryOf
<1> HIDE DEF found
<1>9. Balanced(filled) /\ filled.pending \subseteq found.pending
  BY <1>7, FilledBalanced DEF OnOrderFilled, Others
<1> HIDE DEF filled
<1>10. \A r \in {found, filled, led[t]} :
        Balanced(r) /\ \A e \in r.pending : e.id \in Drawn /\ e.id \notin todo'
  BY <1>1, <1>5, <1>7, <1>8, <1>9 DEF LedgerInv, LedgerAgrees
<1>11. /\ led'[t] \in {found, filled, led[t]}
       /\ \A u \in Tags : u # t => led'[u] = led[u]
  BY <1>6 DEF TypeInv, TypeOK
<1>12. phase = "recover" /\ UNCHANGED <<phase, pc, cur, ord>>
  BY DEF RecoverRow
<1>13. LedgerAgrees(t)'
  <2>1. pc[t] = "idle"
    BY <1>12 DEF LedgerInv, LedgerAgrees
  <2>2. Balanced(led[t])'
    BY <1>10, <1>11 DEF Balanced
  <2>3. \A e \in led'[t].pending : e.id \in Drawn /\ e.id \notin todo'
    BY <1>10, <1>11
  <2> QED BY <1>12, <2>1, <2>2, <2>3 DEF LedgerAgrees, Drawn
<1>14. \A u \in Tags : u # t => LedgerAgrees(u)'
  BY <1>1, <1>11, <1>12, SameLedger DEF LedgerInv, Drawn
<1> QED BY <1>12, <1>13, <1>14 DEF LedgerInv

\* Reconciliation takes the venue's net over and puts untracked orders in flight.
LEMMA LedgerReconcile ==
  ASSUME TypeInv, LedgerInv, NEW t \in Tags, ReconcilePositions(t) \/ Register(t)
  PROVE  LedgerInv'
<1>1. phase = "reconcile" /\ UNCHANGED <<phase, todo, pc, cur, ord>>
  BY DEF ReconcilePositions, Register, durable
<1>2. Balanced(led[t]) /\ led[t] \in Positions(Ids) /\ todo = {} /\ pc[t] = "idle"
  BY <1>1 DEF LedgerInv, LedgerAgrees, TypeInv, TypeOK
<1>3. CASE UNCHANGED led
  BY <1>1, <1>3, LedgerQuiet DEF LedgerInv, LedgerAgrees, AllIdle
<1>4. ASSUME NEW r, led' = [led EXCEPT ![t] = r], Balanced(r),
             \A e \in r.pending : e.id \in Drawn
      PROVE  LedgerInv'
  <2>1. led'[t] = r /\ \A u \in Tags : u # t => led'[u] = led[u]
    BY <1>4 DEF TypeInv, TypeOK
  <2>2. LedgerAgrees(t)'
    BY <1>1, <1>2, <1>4, <2>1 DEF LedgerAgrees, Drawn
  <2>3. \A u \in Tags : u # t => LedgerAgrees(u)'
    BY <1>1, <2>1, SameLedger DEF LedgerInv, Drawn
  <2> QED BY <1>1, <1>2, <2>2, <2>3 DEF LedgerInv
<1>5. CASE led' = [led EXCEPT ![t] = SyncFromVenue(@, VenueNet({t}))]
  <2>1. Balanced(SyncFromVenue(led[t], VenueNet({t})))
    BY <1>2, SyncBalanced
  <2>2. \A e \in SyncFromVenue(led[t], VenueNet({t})).pending : e.id \in Drawn
    BY DEF SyncFromVenue, LedgerInv, LedgerAgrees
  <2> QED BY <1>4, <1>5, <2>1, <2>2
<1>6. CASE Register(t) /\ ~UNCHANGED led
  <2>1. PICK o \in seen :
          /\ ~IsTracked(led[t], o)
          /\ led' = [led EXCEPT ![t] =
                       OnOrderAccepted(@, o, ord[o].side, "OPEN", ord[o].qty)]
    BY <1>6 DEF Register
  <2>2. o \in Drawn /\ ord[o].side \in Sides /\ ord[o].qty \in Nat
    BY DrawnFacts DEF TypeInv, RefsDrawn, OrderRecord
  <2> DEFINE r == OnOrderAccepted(led[t], o, ord[o].side, "OPEN", ord[o].qty)
  <2>3. Balanced(r)
    BY <1>2, <2>1, <2>2, AcceptedBalanced
  <2>4. \A e \in r.pending : e.id \in Drawn
    <3>1. \A e \in led[t].pending : e.id \in Drawn
      BY DEF LedgerInv, LedgerAgrees
    <3> QED BY <2>2, <3>1, AcceptedTracks, EntryOf
  <2> QED BY <1>4, <2>1, <2>3, <2>4
<1> QED BY <1>3, <1>5, <1>6 DEF ReconcilePositions

\* A start reads the pending rows, and has no record yet.
LEMMA LedgerStart ==
  ASSUME TypeInv, LedgerInv, Start
  PROVE  LedgerInv'
BY DEF Start, LedgerInv, LedgerAgrees, Balanced, Drawn, callVars, durable

\* What the venue does is not told to the ledger either.
LEMMA LedgerVenue ==
  ASSUME TypeInv, LedgerInv, NEW o \in Ids, VenueStep(o)
  PROVE  LedgerInv'
<1>1. UNCHANGED <<phase, todo, led, pc, cur, ord>>
  BY DEF VenueStep, VenueTakes, VenueExecutes, VenueRests, VenueRefuses, VenueFills,
         VenueExpires, VenueFuse, procVars, callVars, durable
<1> QED BY <1>1, LedgerQuiet DEF LedgerInv, LedgerAgrees, AllIdle

\* The steps between start and the first strategy.
LEMMA LedgerBoot ==
  ASSUME TypeInv, LedgerInv,
         \/ RecoverFails \/ RecoverDone \/ RunStrategies \/ Shutdown
         \/ \E t \in Tags : ReconcileOrders(t) \/ Reconciled(t)
         \/ UNCHANGED vars
  PROVE  LedgerInv'
<1>1. UNCHANGED <<led, pc, cur, ord>> /\ todo' \subseteq todo
  BY DEF RecoverFails, RecoverDone, RunStrategies, Shutdown, ReconcileOrders, Reconciled,
         vars, procVars, callVars, durable
<1>2. /\ phase' # "recover" => todo' = {}
      /\ phase' \in {"down", "stopped"} => phase \in {"down", "stopped"}
      /\ phase' \notin {"run", "stop"} => AllIdle
  BY DEF RecoverFails, RecoverDone, RunStrategies, Shutdown, ReconcileOrders, Reconciled,
         vars, procVars, LedgerInv, LedgerAgrees, AllIdle
<1> QED BY <1>1, <1>2, LedgerQuiet

\* Every step keeps the books.
LEMMA LedgerStep ==
  ASSUME TypeInv, LedgerInv, [Next]_vars
  PROVE  LedgerInv'
<1>1. CASE \E t \in Tags : Worker(t)
  BY <1>1, LedgerResolve, LedgerCancels, LedgerAccept, LedgerCall, LedgerFinish,
     LedgerUpdate, LedgerFlattenPositions
  DEF Worker, WorkerStep
<1>2. CASE Runner
  BY <1>2, LedgerStart, LedgerRecover, LedgerBoot, LedgerReconcile, LedgerLoseMemory,
     LedgerCancels
  DEF Runner, Boot
<1>3. CASE \E o \in Ids : VenueStep(o)
  BY <1>3, LedgerVenue
<1>4. CASE UNCHANGED vars
  BY <1>4, LedgerBoot
<1> QED BY <1>1, <1>2, <1>3, <1>4 DEF Next

\* There is nothing to account for at first.
LEMMA LedgerInit ==
  ASSUME Init
  PROVE  LedgerInv
<1>1. \A t \in Tags : led[t] = EmptyPosition /\ pc[t] = "idle"
  BY DEF Init
<1>2. Balanced(EmptyPosition) /\ EmptyPosition.pending = {}
  BY EmptyBalanced DEF EmptyPosition
<1>3. todo = {}
  BY DEF Init
<1> QED BY <1>1, <1>2, <1>3 DEF LedgerInv, LedgerAgrees

\* The ledger agrees with its entries for ever.
LEMMA LedgerInvariant == Spec => [](TypeInv /\ LedgerInv)
<1>1. Init => TypeInv /\ LedgerInv
  BY TypeInit, LedgerInit
<1>2. TypeInv /\ LedgerInv /\ [Next]_vars => (TypeInv /\ LedgerInv)'
  BY TypeStep, LedgerStep
<1> QED BY <1>1, <1>2, PTL DEF Spec

\* Every tag's in-flight exposure is the sum of its pending orders, whatever
\* fails, crashes or arrives late: no path of send_order, flatten, recovery or
\* reconciliation books or releases an order twice.
THEOREM InFlightIsPendingHolds == Spec => []InFlightIsPending
<1>1. LedgerInv => InFlightIsPending
  BY DEF LedgerInv, LedgerAgrees, Balanced, Weights, InFlightIsPending
<1> QED BY <1>1, LedgerInvariant, PTL

-----------------------------------------------------------------------------
(* Rows.                                                                   *)

\* A step that leaves rows and workers alone.
LEMMA RowsQuiet ==
  ASSUME RowsInv, UNCHANGED <<pc, cur, res, journal>>, todo \subseteq todo',
         phase' \in {"down", "stopped", "stop"} \/ phase \notin {"down", "stopped", "stop"}
  PROVE  RowsInv'
BY DEF RowsInv

\* A worker that is not between begin() and finish() may move freely.
LEMMA RowsMove ==
  ASSUME TypeInv, RowsInv, NEW t \in Tags, pc[t] \notin {"submit", "sent", "finish"},
         \A u \in Tags : u # t => pc'[u] = pc[u] /\ cur'[u] = cur[u],
         \A u \in Tags : res'[u] = res[u] \/ res'[u] = "none",
         UNCHANGED <<phase, todo, journal>>
  PROVE  RowsInv'
<1>1. ASSUME NEW u \in Tags, pc[u] \in {"submit", "sent", "finish"}
      PROVE  pc'[u] = pc[u] /\ cur'[u] = cur[u]
  BY <1>1
<1> QED BY <1>1 DEF RowsInv

\* A row written by a worker is its own.
LEMMA RowsCall ==
  ASSUME TypeInv, RowsInv, NEW t \in Tags,
         Begin(t) \/ Submit(t) \/ Answered(t) \/ NoAnswer(t)
  PROVE  RowsInv'
<1>1. /\ \E s \in {"submit", "sent", "finish"} : pc' = [pc EXCEPT ![t] = s]
      /\ UNCHANGED <<phase, todo, cur>>
  BY DEF Begin, Submit, Answered, NoAnswer, procVars
<1>2. /\ pc'[t] \in {"submit", "sent", "finish"}
      /\ \A u \in Tags : u # t => pc'[u] = pc[u]
  BY <1>1 DEF TypeInv, TypeOK
<1>3. \A u \in Tags : res'[u] = res[u] \/ res'[u] \in {"DEAD", "UNKNOWN"}
  BY DEF Begin, Submit, Answered, NoAnswer, TypeInv, TypeOK
<1>4. \A o \in Ids : journal'[o] = journal[o] \/ o = cur[t]
  BY DEF Begin, Submit, Answered, NoAnswer, durable, TypeInv, TypeOK
<1> QED BY <1>1, <1>2, <1>3, <1>4 DEF RowsInv

\* finish() decides the row of its worker.
LEMMA RowsFinish ==
  ASSUME TypeInv, RowsInv, NEW t \in Tags, Finish(t)
  PROVE  RowsInv'
<1>1. cur[t] \in Ids
  BY DrawnFacts DEF Finish, TypeInv, RefsDrawn, Calling
<1>2. /\ journal'[cur[t]] = res[t] /\ res[t] # "SUBMITTING"
      /\ \A o \in Ids : o # cur[t] => journal'[o] = journal[o]
  BY <1>1 DEF Finish, RowsInv, TypeInv, TypeOK
<1>3. /\ \A u \in Tags : u # t => pc'[u] = pc[u] /\ cur'[u] = cur[u]
      /\ \A u \in Tags : res'[u] = res[u] \/ res'[u] = "none"
      /\ UNCHANGED <<phase, todo>>
  BY DEF Finish, Return, procVars, TypeInv, TypeOK
<1> QED BY <1>1, <1>2, <1>3 DEF RowsInv

\* Recovery decides the row it takes.
LEMMA RowsRecover ==
  ASSUME TypeInv, RowsInv, RecoverRow
  PROVE  RowsInv'
<1>1. PICK o \in NextRow, s \in {"DEAD", "IN_FLIGHT", "FILLED"} :
        todo' = todo \ {o} /\ journal' = [journal EXCEPT ![o] = s]
  BY DEF RecoverRow
<1>2. o \in Ids
  BY DEF NextRow, TypeInv, TypeOK
<1>3. journal'[o] = s /\ \A p \in Ids : p # o => journal'[p] = journal[p]
  BY <1>1, <1>2 DEF TypeInv, TypeOK
<1>4. UNCHANGED <<phase, pc, cur, res>>
  BY DEF RecoverRow
<1> QED BY <1>1, <1>3, <1>4 DEF RowsInv

\* Whatever the process forgets at its end is read again by the next start.
LEMMA RowsLoseMemory ==
  ASSUME TypeInv, RowsInv, Crash \/ Stopped \/ Start
  PROVE  RowsInv'
<1>1. CASE Crash \/ Stopped
  BY <1>1 DEF Crash, Stopped, LoseMemory, RowsInv
<1>2. CASE Start
  BY <1>2 DEF Start, callVars, durable, RowsInv, Pending
<1> QED BY <1>1, <1>2

\* The venue writes no row.
LEMMA RowsVenue ==
  ASSUME TypeInv, RowsInv, NEW o \in Ids, VenueStep(o)
  PROVE  RowsInv'
<1>1. UNCHANGED <<phase, todo, pc, cur, journal>>
  BY DEF VenueStep, VenueTakes, VenueExecutes, VenueRests, VenueRefuses, VenueFills,
         VenueExpires, VenueFuse, procVars, callVars, durable
<1>2. \A u \in Tags : res'[u] \in {res[u], "FILLED", "IN_FLIGHT", "DEAD"}
  BY DEF VenueStep, VenueTakes, VenueExecutes, VenueRests, VenueRefuses, VenueFills,
         VenueExpires, VenueFuse, Reply, callVars
<1> QED BY <1>1, <1>2 DEF RowsInv

\* The steps of a worker.
LEMMA RowsWorker ==
  ASSUME TypeInv, RowsInv, NEW t \in Tags,
         \/ Resolve(t) \/ Accept(t) \/ Update(t) \/ FlattenPositions(t)
         \/ Cancel(t) \/ StrategyFlatten(t) \/ ShutdownFlatten(t)
  PROVE  RowsInv'
<1>1. /\ \A u \in Tags : u # t => pc'[u] = pc[u] /\ cur'[u] = cur[u]
      /\ \A u \in Tags : res'[u] = res[u] \/ res'[u] = "none"
  BY DEF Resolve, Accept, Update, FlattenPositions, Cancel, StrategyFlatten,
         ShutdownFlatten, FlattenCancel, Draw, Return, callVars, TypeInv, TypeOK
<1>2. UNCHANGED <<phase, todo, journal>>
  BY DEF Resolve, Accept, Update, FlattenPositions, Cancel, StrategyFlatten,
         ShutdownFlatten, FlattenCancel, procVars, durable
<1>3. pc[t] \notin {"submit", "sent", "finish"} \/ UNCHANGED <<pc, cur, res>>
  BY DEF Resolve, Accept, Update, FlattenPositions, Cancel, StrategyFlatten,
         ShutdownFlatten, FlattenCancel, callVars
<1> QED BY <1>1, <1>2, <1>3, RowsMove, RowsQuiet

\* Every step leaves undecided rows to their workers.
LEMMA RowsStep ==
  ASSUME TypeInv, LedgerInv, RowsInv, [Next]_vars
  PROVE  RowsInv'
<1>1. CASE \E t \in Tags : Worker(t)
  BY <1>1, RowsWorker, RowsCall, RowsFinish DEF Worker, WorkerStep
<1>2. ASSUME \/ RecoverFails \/ RecoverDone \/ RunStrategies \/ Shutdown
             \/ \E t \in Tags : ReconcilePositions(t) \/ ReconcileOrders(t)
                                  \/ Register(t) \/ Reconciled(t)
             \/ UNCHANGED vars
      PROVE  RowsInv'
  <2>1. UNCHANGED <<pc, cur, res, journal>>
    BY <1>2, QuietSteps
  <2>2. phase' = "stop" \/ (todo \subseteq todo' /\ phase \notin {"down", "stopped", "stop"})
          \/ UNCHANGED <<phase, todo>>
    BY <1>2 DEF RecoverFails, RecoverDone, RunStrategies, Shutdown, ReconcilePositions,
                ReconcileOrders, Register, Reconciled, vars, procVars
  <2> QED BY <2>1, <2>2 DEF RowsInv
<1>3. CASE Runner
  BY <1>2, <1>3, RowsRecover, RowsLoseMemory, RowsWorker DEF Runner, Boot
<1>4. CASE \E o \in Ids : VenueStep(o)
  BY <1>4, RowsVenue
<1>5. CASE UNCHANGED vars
  BY <1>2, <1>5
<1> QED BY <1>1, <1>3, <1>4, <1>5 DEF Next

\* A row still SUBMITTING belongs to a call in progress once recovery is over,
\* whatever failed, crashed or arrived late before.
THEOREM RowsDecidedHolds == Spec => []RowsDecided
<1>1. Init => RowsInv
  BY DEF Init, RowsInv
<1>2. TypeInv /\ LedgerInv /\ RowsInv /\ [Next]_vars => RowsInv'
  BY RowsStep
<1>3. LedgerInv /\ RowsInv => RowsDecided
  BY DEF LedgerInv, RowsInv, RowsDecided
<1> QED BY <1>1, <1>2, <1>3, LedgerInvariant, PTL DEF Spec

-----------------------------------------------------------------------------
(* What rests at the venue is tracked, and at most once per tag and side.  *)

\* The faults under which the ledger can account for every order: statuses
\* tell the truth, reads are answered and a cancel cancels.
Accountable == Sound /\ "readFails" \notin Faults /\ "cancelFails" \notin Faults

\* An entry has its order's side, and counts as an OPEN if the order is one.
BooksMatch(t) ==
  \A e \in led[t].pending :
    ord[e.id].side = e.side /\ (ord[e.id].offset = "OPEN" => e.offset = "OPEN")

\* The status a worker updates the ledger with is the one its row has.
UpdateTells(t) ==
  pc[t] = "update" => /\ journal[cur[t]] = res[t]
                      /\ res[t] \in {"IN_FLIGHT", "FILLED", "DEAD"}

\* From the end of recovery on every resting order is tracked.
RestingTracked ==
  phase \in {"recover", "reconcile", "run"} =>
    \A o \in Drawn : vst[o] = "open" => o \in todo \/ IsTracked(led[ord[o].tag], o)

\* An OPEN order that rests, or that a worker is still sending.
Alive(o) == /\ ord[o].offset = "OPEN"
            /\ vst[o] = "open" \/ \E t \in Tags : Calling(t) /\ cur[t] = o

OneAlive ==
  \A o, p \in Drawn :
    Alive(o) /\ Alive(p) /\ ord[o].tag = ord[p].tag /\ ord[o].side = ord[p].side => o = p

LiveInv ==
  /\ \A t \in Tags : BooksMatch(t) /\ UpdateTells(t)
  /\ RestingTracked
  /\ OneAlive

-----------------------------------------------------------------------------
(* Entries match their orders.                                             *)

\* Entries kept from a record that matched.
LEMMA BooksKept ==
  ASSUME LedgerInv, NEW t \in Tags, BooksMatch(t),
         \A e \in led'[t].pending : e \in led[t].pending,
         \A o \in Drawn : ord'[o] = ord[o]
  PROVE  BooksMatch(t)'
<1>1. \A e \in led[t].pending : ord'[e.id] = ord[e.id]
  BY DEF LedgerInv, LedgerAgrees
<1> QED BY <1>1 DEF BooksMatch

\* An entry made from its order.
LEMMA BooksAdd ==
  ASSUME LedgerInv, NEW t \in Tags, BooksMatch(t), UNCHANGED ord,
         NEW o, NEW offset, NEW qty, ord[o].offset = "OPEN" => offset = "OPEN",
         led'[t] = OnOrderAccepted(led[t], o, ord[o].side, offset, qty)
  PROVE  BooksMatch(t)'
<1> DEFINE n == Entry(o, ord[o].side, offset, qty)
<1>1. n.id = o /\ n.side = ord[o].side /\ n.offset = offset
  BY EntryOf
<1>2. \A e \in led'[t].pending : e \in led[t].pending \/ e = n
  BY AcceptedTracks
<1> HIDE DEF n
<1> QED BY <1>1, <1>2 DEF BooksMatch

\* The steps that add no entry.
LEMMA BooksStay ==
  ASSUME TypeInv, LedgerInv, NEW t \in Tags, BooksMatch(t), [Next]_vars,
         \A u \in Tags : ~Accept(u) /\ ~Register(u), ~RecoverRow
  PROVE  BooksMatch(t)'
<1>1. ASSUME NEW u \in Tags, Worker(u) \/ ShutdownFlatten(u)
      PROVE  \A e \in led'[t].pending : e \in led[t].pending
  <2>1. CASE led'[t] = led[t]
    BY <2>1
  <2>2. CASE Update(u)
    BY <2>2 DEF Update, OnOrderFilled, OnOrderDead, Others, TypeInv, TypeOK
  <2>3. CASE \E scope : FlattenCancel(u, scope)
    BY <2>3 DEF FlattenCancel, ClearInFlight, TypeInv, TypeOK
  <2>4. CASE FlattenPositions(u)
    <3>1. UNCHANGED led \/ \E n : led' = [led EXCEPT ![u] = SyncFromVenue(@, n)]
      BY <2>4 DEF FlattenPositions
    <3>2. led'[t] = led[t] \/ \E n : led'[t] = SyncFromVenue(led[t], n)
      BY <3>1 DEF TypeInv, TypeOK
    <3>3. \A n : SyncFromVenue(led[t], n).pending = led[t].pending
      BY DEF SyncFromVenue
    <3>4. led'[t].pending = led[t].pending
      BY <3>2, <3>3
    <3> QED BY <3>4
  <2> QED BY <1>1, <2>1, <2>2, <2>3, <2>4
          DEF Worker, WorkerStep, Resolve, Cancel, StrategyFlatten, ShutdownFlatten,
              Begin, Submit, Answered, NoAnswer, Finish, callVars
<1>2. ASSUME NEW u \in Tags, Worker(u) \/ ShutdownFlatten(u)
      PROVE  \A o \in Drawn : ord'[o] = ord[o]
  <2>1. CASE UNCHANGED ord
    BY <2>1
  <2>2. CASE \E r : ord' = Append(ord, r)
    BY <2>2 DEF Drawn, TypeInv, TypeOK
  <2> QED BY <1>2, <2>1, <2>2
          DEF Worker, WorkerStep, Resolve, Draw, Cancel, StrategyFlatten, ShutdownFlatten,
              FlattenCancel, FlattenPositions, Accept, Begin, Submit, Answered, NoAnswer,
              Finish, Update, durable
<1>3. CASE Crash \/ Stopped
  BY <1>3 DEF Crash, Stopped, LoseMemory, EmptyPosition, BooksMatch
<1>4. ASSUME NEW u \in Tags, ReconcilePositions(u)
      PROVE  /\ \A e \in led'[t].pending : e \in led[t].pending
             /\ UNCHANGED ord
  BY <1>4 DEF ReconcilePositions, SyncFromVenue, durable, TypeInv, TypeOK
<1>5. CASE \/ Start \/ RecoverFails \/ RecoverDone \/ RunStrategies \/ Shutdown
           \/ \E u \in Tags : ReconcileOrders(u) \/ Reconciled(u)
           \/ \E o \in Ids : VenueStep(o)
           \/ UNCHANGED vars
  <2>1. UNCHANGED <<led, ord>>
    BY <1>5 DEF Start, RecoverFails, RecoverDone, RunStrategies, Shutdown, ReconcileOrders,
         Reconciled, VenueStep, VenueTakes, VenueExecutes, VenueRests, VenueRefuses,
         VenueFills, VenueExpires, VenueFuse, vars, callVars, durable
  <2> QED BY <2>1, BooksKept
<1> QED BY <1>1, <1>2, <1>3, <1>4, <1>5, BooksKept DEF Next, Runner, Boot

\* Every step makes entries from their orders, but for the OPEN of reconciliation.
LEMMA BooksStep ==
  ASSUME TypeInv, LedgerInv, \A t \in Tags : BooksMatch(t), [Next]_vars
  PROVE  \A t \in Tags : BooksMatch(t)'
<1> TAKE t \in Tags
<1>1. ASSUME UNCHANGED ord, led'[t] = led[t]
      PROVE  BooksMatch(t)'
  BY <1>1 DEF BooksMatch
<1>2. ASSUME NEW u \in Tags, Accept(u)
      PROVE  BooksMatch(t)'
  <2>1. CASE u = t
    <3>1. /\ led'[t] = OnOrderAccepted(led[t], cur[t], ord[cur[t]].side, ord[cur[t]].offset,
                                      ord[cur[t]].qty)
          /\ UNCHANGED ord
      BY <1>2, <2>1 DEF Accept, durable, TypeInv, TypeOK
    <3> QED BY <3>1, BooksAdd
  <2> QED BY <1>1, <1>2, <2>1 DEF Accept, durable, TypeInv, TypeOK
<1>3. ASSUME NEW u \in Tags, Register(u)
      PROVE  BooksMatch(t)'
  <2>1. PICK o \in seen : led' = IF IsTracked(led[u], o) THEN led
           ELSE [led EXCEPT ![u] = OnOrderAccepted(@, o, ord[o].side, "OPEN", ord[o].qty)]
    BY <1>3 DEF Register
  <2>2. UNCHANGED ord
    BY <1>3 DEF Register, durable
  <2>3. \/ led'[t] = led[t]
        \/ led'[t] = OnOrderAccepted(led[t], o, ord[o].side, "OPEN", ord[o].qty)
    BY <2>1 DEF TypeInv, TypeOK
  <2> QED BY <1>1, <2>2, <2>3, BooksAdd
<1>4. CASE RecoverRow
  <2>1. PICK o \in NextRow :
          LET found == OnOrderAccepted(led[ord[o].tag], o, ord[o].side, ord[o].offset,
                                       ord[o].qty) IN
          \/ UNCHANGED led
          \/ led' = [led EXCEPT ![ord[o].tag] = found]
          \/ led' = [led EXCEPT ![ord[o].tag] = OnOrderFilled(found, o, ord[o].side, fq[o])]
    BY <1>4 DEF RecoverRow
  <2> DEFINE found == OnOrderAccepted(led[t], o, ord[o].side, ord[o].offset, ord[o].qty)
  <2>2. \/ led'[t] = led[t]
        \/ led'[t] = found
        \/ led'[t] = OnOrderFilled(found, o, ord[o].side, fq[o])
    BY <2>1 DEF TypeInv, TypeOK
  <2>3. UNCHANGED ord
    BY <1>4 DEF RecoverRow
  <2>4. \A e \in OnOrderFilled(found, o, ord[o].side, fq[o]).pending : e \in led[t].pending
    <3>1. /\ \A e \in found.pending :
               e \in led[t].pending \/ e = Entry(o, ord[o].side, ord[o].offset, ord[o].qty)
          /\ Entry(o, ord[o].side, ord[o].offset, ord[o].qty).id = o
      BY AcceptedTracks, EntryOf
    <3> HIDE DEF found
    <3> QED BY <3>1 DEF OnOrderFilled, Others
  <2>5. CASE led'[t] = OnOrderFilled(found, o, ord[o].side, fq[o])
    BY <2>3, <2>4, <2>5, BooksKept
  <2> QED BY <1>1, <2>2, <2>3, <2>5, BooksAdd
<1> QED BY <1>2, <1>3, <1>4, BooksStay

-----------------------------------------------------------------------------
(* The status of an update is the status of the row.                       *)

\* finish() writes the status that the update then reads.
LEMMA UpdateTellsStep ==
  ASSUME TypeInv, IntentInv, Sound, \A t \in Tags : UpdateTells(t), [Next]_vars
  PROVE  \A t \in Tags : UpdateTells(t)'
<1> TAKE t \in Tags
<1>1. ASSUME pc[t] = "update", UNCHANGED <<cur, res, journal>>
      PROVE  UpdateTells(t)'
  BY <1>1 DEF UpdateTells
<1>2. ASSUME NEW u \in Tags, Finish(u)
      PROVE  UpdateTells(t)'
  <2>1. /\ cur[u] \in Ids /\ journal' = [journal EXCEPT ![cur[u]] = res[u]]
        /\ res[u] \in {"IN_FLIGHT", "UNKNOWN", "FILLED", "DEAD"}
    BY <1>2, FinishDecides
  <2>2. CASE u = t
    <3>1. pc'[t] = "update" => res[t] # "UNKNOWN" /\ cur'[t] = cur[t] /\ res'[t] = res[t]
      BY <1>2, <2>2 DEF Finish, Return, TypeInv, TypeOK
    <3> QED BY <2>1, <2>2, <3>1 DEF UpdateTells, TypeInv, TypeOK
  <2>3. CASE u # t
    <3>1. pc'[t] = pc[t] /\ cur'[t] = cur[t] /\ res'[t] = res[t] /\ Calling(u)
      BY <1>2, <2>3 DEF Finish, Return, TypeInv, TypeOK, Calling
    <3>2. pc[t] = "update" => cur[t] # cur[u]
      BY <2>3, <3>1, OwnOrders DEF Calling
    <3>3. pc[t] = "update" => cur[t] \in Ids
      BY DrawnFacts DEF Calling, TypeInv, RefsDrawn
    <3>4. pc[t] = "update" => journal'[cur[t]] = journal[cur[t]]
      BY <2>1, <3>2, <3>3 DEF TypeInv, TypeOK
    <3> QED BY <3>1, <3>4 DEF UpdateTells
  <2> QED BY <2>2, <2>3
<1>3. ASSUME NEW u \in Tags, Begin(u)
      PROVE  UpdateTells(t)'
  <2>1. /\ pc'[t] = "update" => pc[t] = "update" /\ u # t
        /\ Calling(u) /\ cur[u] \in Ids /\ journal' = [journal EXCEPT ![cur[u]] = "SUBMITTING"]
        /\ UNCHANGED <<cur, res>>
    BY <1>3, DrawnFacts DEF Begin, TypeInv, TypeOK, RefsDrawn, Calling
  <2>2. pc'[t] = "update" => cur[t] # cur[u]
    BY <2>1, OwnOrders DEF Calling
  <2> QED BY <2>1, <2>2 DEF UpdateTells, TypeInv, TypeOK
<1>4. ASSUME NEW u \in Tags, Worker(u) \/ ShutdownFlatten(u), ~Finish(u), ~Begin(u)
      PROVE  UpdateTells(t)'
  <2>1. /\ pc'[t] = "update" => pc[t] = "update" /\ cur'[t] = cur[t] /\ res'[t] = res[t]
        /\ UNCHANGED journal
    BY <1>4 DEF Worker, WorkerStep, Resolve, Draw, Accept, Submit, Answered, NoAnswer,
         Update, FlattenPositions, Return, Cancel, StrategyFlatten, ShutdownFlatten,
         FlattenCancel, callVars, durable, TypeInv, TypeOK
  <2> QED BY <2>1 DEF UpdateTells
<1>5. CASE Crash \/ Stopped
  BY <1>5 DEF Crash, Stopped, LoseMemory, UpdateTells
<1>6. CASE RecoverRow
  BY <1>6, RecoverDecides, RecoverQuiet DEF UpdateTells, AllIdle
<1>7. ASSUME NEW o \in Ids, VenueTakes(o) \/ VenueFills(o) \/ VenueExpires(o)
      PROVE  UpdateTells(t)'
  <2>1. pc[t] = "update" => res'[t] = res[t]
    BY <1>7 DEF VenueTakes, VenueExecutes, VenueRests, VenueRefuses, VenueFills,
         VenueExpires, Reply, callVars
  <2>2. UNCHANGED <<pc, cur, journal>>
    BY <1>7, VenueChanges DEF durable
  <2> QED BY <2>1, <2>2 DEF UpdateTells
<1>8. CASE UNCHANGED <<pc, cur, res, journal>>
  BY <1>8 DEF UpdateTells
<1> QED BY <1>2, <1>3, <1>4, <1>5, <1>6, <1>7, <1>8, QuietSteps
        DEF Next, Runner, Boot, VenueStep

-----------------------------------------------------------------------------
(* Which orders a step may bring to rest, or put into a worker's hands.    *)

\* Only a worker that waits for its answer gets a newly resting order.
LEMMA RestsForWorker ==
  ASSUME TypeInv, IntentInv, NEW o \in Ids, VenueStep(o)
  PROVE  /\ \A p \in Ids : vst'[p] = "open" =>
              \/ vst[p] = "open"
              \/ \E t \in Tags : pc[t] = "sent" /\ cur[t] = p /\ ord[p].tag = t
         /\ UNCHANGED <<phase, todo, led, pc, cur, ord>>
<1>1. UNCHANGED <<phase, todo, led, pc, cur, ord>>
  BY DEF VenueStep, VenueTakes, VenueExecutes, VenueRests, VenueRefuses, VenueFills,
         VenueExpires, VenueFuse, procVars, callVars, durable
<1>2. \A p \in Ids : vst'[p] = "open" => vst[p] = "open" \/ p \in wire
  <2>1. CASE VenueRests(o)
    BY <2>1 DEF VenueRests, TypeInv, TypeOK
  <2>2. CASE ~VenueRests(o)
    BY <2>2 DEF VenueStep, VenueTakes, VenueExecutes, VenueRefuses, VenueFills,
                VenueExpires, VenueFuse, Execute, TypeInv, TypeOK
  <2> QED BY <2>1, <2>2
<1>3. \A p \in wire : \E t \in Tags : pc[t] = "sent" /\ cur[t] = p /\ ord[p].tag = t
  BY DEF IntentInv, CallAgrees, Calling
<1> QED BY <1>1, <1>2, <1>3

\* No other step brings an order to rest.
LEMMA NothingRests ==
  ASSUME TypeInv, (\E t \in Tags : Worker(t)) \/ Runner \/ UNCHANGED vars
  PROVE  \A p \in Ids : vst'[p] = "open" => vst[p] = "open"
<1>1. ASSUME NEW t \in Tags, Cancel(t) \/ StrategyFlatten(t) \/ ShutdownFlatten(t)
      PROVE  \A p \in Ids : vst'[p] = "open" => vst[p] = "open"
  <2>1. CASE UNCHANGED vst
    BY <2>1
  <2>2. CASE \E S \in SUBSET OpenAt(Tags) : CancelAtVenue(S)
    BY <2>2 DEF CancelAtVenue
  <2> QED BY <1>1, <2>1, <2>2, CancelsResting DEF venueVars
<1>2. CASE UNCHANGED vst
  BY <1>2
<1> QED BY <1>1, <1>2, QuietSteps
        DEF Worker, WorkerStep, Resolve, Accept, Begin, Submit, Answered, NoAnswer, Finish,
            Update, FlattenPositions, Runner, Boot, Crash, Stopped, RecoverRow, venueVars

-----------------------------------------------------------------------------
(* Resting orders stay tracked.                                            *)

\* Tracking is only taken away by an update or a flatten of the tag.
LEMMA RestingKept ==
  ASSUME TypeInv, RestingTracked,
         phase' \in {"recover", "reconcile", "run"} =>
           phase \in {"recover", "reconcile", "run"} /\ todo \subseteq todo',
         \A o \in Drawn' : vst'[o] = "open" =>
           /\ o \in Drawn /\ vst[o] = "open" /\ ord'[o].tag = ord[o].tag
           /\ IsTracked(led[ord[o].tag], o) => IsTracked(led'[ord[o].tag], o)
  PROVE  RestingTracked'
BY DEF RestingTracked

\* Records that stay leave tracking as it was.
LEMMA RestingSameLedger ==
  ASSUME TypeInv, RestingTracked, UNCHANGED <<ord, led>>,
         phase' \in {"recover", "reconcile", "run"} =>
           phase \in {"recover", "reconcile", "run"} /\ todo \subseteq todo',
         \A o \in Ids : vst'[o] = "open" => vst[o] = "open"
  PROVE  RestingTracked'
<1>1. Drawn' = Drawn /\ Drawn \subseteq Ids
  BY DrawnFacts DEF TypeInv, Drawn
<1> QED BY <1>1 DEF RestingTracked

\* A drawn order does not rest yet.
LEMMA RestingDraw ==
  ASSUME TypeInv, RestingTracked, NEW t \in Tags, NEW side \in Sides, NEW offset \in Offsets,
         NEW kind \in Kinds, NEW qty \in Nat, Draw(t, side, offset, kind, qty),
         UNCHANGED <<phase, todo, vst>>,
         \A u \in Tags : led'[u].pending = led[u].pending
  PROVE  RestingTracked'
<1>1. \A o \in Drawn' : o \in Drawn \/ vst[o] = "none"
  BY DrawStep DEF TypeInv, RefsDrawn
<1>2. \A o \in Drawn : ord'[o] = ord[o] /\ ord[o].tag \in Tags
  BY DrawStep, DrawnFacts DEF TypeInv, OrderRecord
<1> QED BY <1>1, <1>2 DEF RestingTracked, IsTracked

\* A worker keeps its order tracked until its answer says that it is dead or filled.
LEMMA RestingWorker ==
  ASSUME TypeInv, IntentInv, LedgerInv, LiveInv, Accountable, NEW t \in Tags, Worker(t)
  PROVE  RestingTracked'
<1>1. \A p \in Ids : vst'[p] = "open" => vst[p] = "open"
  BY NothingRests
<1>2. RestingTracked /\ Drawn \subseteq Ids /\ UNCHANGED <<phase, todo>>
  BY DrawnFacts DEF LiveInv, TypeInv, Worker, WorkerStep, Resolve, Cancel, StrategyFlatten, Accept, Begin,
         Submit, Answered, NoAnswer, Finish, Update, FlattenPositions, procVars
<1>3. CASE Resolve(t)
  <2>1. PICK r \in Requests, qty \in 1 .. MaxOrders :
          Draw(t, r.side, r.offset, r.kind, qty)
    BY <1>3 DEF Resolve
  <2>2. r.side \in Sides /\ r.offset \in Offsets /\ r.kind \in Kinds /\ qty \in Nat
    BY RequestAssumption, BoundAssumption DEF Kinds
  <2>3. UNCHANGED <<phase, todo, vst, led>>
    BY <1>3 DEF Resolve, procVars, venueVars
  <2> QED BY <1>2, <2>1, <2>2, <2>3, RestingDraw
<1>4. CASE FlattenPositions(t)
  <2>1. UNCHANGED vst
    BY <1>4 DEF FlattenPositions, venueVars
  <2>2. CASE UNCHANGED <<led, ord>>
    BY <1>1, <1>2, <2>2, RestingSameLedger
  <2>3. CASE ~UNCHANGED <<led, ord>>
    <3>1. PICK T \in {{t}, Tags} :
            /\ led' = [led EXCEPT ![t] = SyncFromVenue(@, VenueNet(T))]
            /\ Draw(t, IF VenueNet(T) > 0 THEN "SELL" ELSE "BUY", "CLOSE", "MARKET",
                    Abs(VenueNet(T)))
      BY <1>4, <2>3 DEF FlattenPositions, ScopeTags
    <3>2. VenueNet(T) \in Int
      BY VenueNetInt DEF TypeInv
    <3>3. /\ Abs(VenueNet(T)) \in Nat /\ "CLOSE" \in Offsets /\ "MARKET" \in Kinds
          /\ (IF VenueNet(T) > 0 THEN "SELL" ELSE "BUY") \in Sides
      BY <3>2 DEF Abs, Offsets, Kinds, Sides
    <3>4. \A u \in Tags : led'[u].pending = led[u].pending
      BY <3>1 DEF SyncFromVenue, TypeInv, TypeOK
    <3> QED BY <1>2, <2>1, <3>1, <3>3, <3>4, RestingDraw
  <2> QED BY <2>2, <2>3
<1>5. CASE Accept(t)
  <2>1. /\ led' = [led EXCEPT ![t] = OnOrderAccepted(led[t], cur[t], ord[cur[t]].side,
                                        ord[cur[t]].offset, ord[cur[t]].qty)]
        /\ UNCHANGED <<ord, vst>>
    BY <1>5 DEF Accept, durable, venueVars
  <2>2. \A u \in Tags, o \in Ids : IsTracked(led[u], o) => IsTracked(led'[u], o)
    BY <2>1, AcceptedTracks DEF TypeInv, TypeOK
  <2>3. Drawn' = Drawn /\ \A o \in Drawn : ord[o].tag \in Tags
    BY <2>1, DrawnFacts DEF Drawn, TypeInv, OrderRecord
  <2> QED BY <1>2, <2>1, <2>2, <2>3 DEF RestingTracked
<1>6. CASE Update(t)
  <2>1. /\ pc[t] = "update" /\ UNCHANGED <<ord, vst, journal>>
        /\ cur[t] \in Ids
    BY <1>6, DrawnFacts DEF Update, durable, venueVars, Calling, TypeInv, RefsDrawn
  <2>2. /\ res[t] \in {"IN_FLIGHT", "FILLED", "DEAD"}
        /\ res[t] # "IN_FLIGHT" => vst[cur[t]] # "open"
    BY <2>1 DEF LiveInv, UpdateTells, IntentInv, JournalTruthful
  <2>3. CASE res[t] = "IN_FLIGHT"
    <3>1. UNCHANGED led
      BY <1>6, <2>3 DEF Update, TypeInv, TypeOK
    <3> QED BY <1>1, <1>2, <2>1, <3>1, RestingSameLedger
  <2>4. CASE res[t] # "IN_FLIGHT"
    <3>1. \A u \in Tags, o \in Ids :
            o # cur[t] /\ IsTracked(led[u], o) => IsTracked(led'[u], o)
      BY <1>6, <2>2, <2>4 DEF Update, OnOrderFilled, OnOrderDead, Others, IsTracked,
                              TypeInv, TypeOK
    <3>2. Drawn' = Drawn /\ \A o \in Drawn : ord[o].tag \in Tags
      BY <2>1, DrawnFacts DEF Drawn, TypeInv, OrderRecord
    <3> QED BY <1>2, <2>1, <2>2, <2>4, <3>1, <3>2 DEF RestingTracked
  <2> QED BY <2>3, <2>4
<1>7. CASE StrategyFlatten(t)
  <2>1. PICK scope \in FlattenScopes : FlattenCancel(t, scope)
    BY <1>7 DEF StrategyFlatten
  <2>2. CancelAtVenue(OpenAt(ScopeTags(t, scope)))
    BY <2>1 DEF FlattenCancel, Accountable
  <2>3. \A o \in Drawn : vst'[o] = "open" => vst[o] = "open" /\ ord[o].tag # t
    BY <1>2, <2>2 DEF CancelAtVenue, OpenAt, ScopeTags
  <2>4. UNCHANGED ord /\ \A u \in Tags : u # t => led'[u] = led[u]
    BY <2>1 DEF FlattenCancel, durable, TypeInv, TypeOK
  <2>5. Drawn' = Drawn /\ \A o \in Drawn : ord[o].tag \in Tags
    BY <2>4, DrawnFacts DEF Drawn, TypeInv, OrderRecord
  <2> QED BY <1>2, <2>3, <2>4, <2>5 DEF RestingTracked
<1>8. CASE UNCHANGED <<led, ord>>
  BY <1>1, <1>2, <1>8, RestingSameLedger
<1> QED BY <1>3, <1>4, <1>5, <1>6, <1>7, <1>8
        DEF Worker, WorkerStep, Cancel, Begin, Submit, Answered, NoAnswer, Finish,
            callVars, durable

\* Recovery leaves a resting order in todo or in the ledger of its tag.
LEMMA RestingRecover ==
  ASSUME TypeInv, IntentInv, LedgerInv, LiveInv, Accountable, RecoverRow
  PROVE  RestingTracked'
<1>1. PICK o \in NextRow :
        LET r == ord[o]
            found == OnOrderAccepted(led[r.tag], o, r.side, r.offset, r.qty) IN
        /\ todo' = todo \ {o}
        /\ \/ vst[o] # "open" /\ UNCHANGED led
           \/ led' = [led EXCEPT ![r.tag] = found]
           \/ /\ vst[o] # "open"
              /\ led' = [led EXCEPT ![r.tag] = OnOrderFilled(found, o, r.side, fq[o])]
  BY DEF RecoverRow, OutcomeIs, Accountable
<1>2. /\ phase = "recover" /\ UNCHANGED <<phase, ord, vst>>
      /\ RestingTracked
  BY DEF RecoverRow, venueVars, LiveInv
<1>3. /\ Drawn' = Drawn /\ \A p \in Drawn : ord[p].tag \in Tags
      /\ o \in Drawn
  BY <1>2, DrawnFacts DEF Drawn, TypeInv, RefsDrawn, OrderRecord, NextRow
<1>4. PICK t \in Tags : t = ord[o].tag
  BY <1>3
<1> DEFINE found == OnOrderAccepted(led[t], o, ord[o].side, ord[o].offset, ord[o].qty)
           filled == OnOrderFilled(found, o, ord[o].side, fq[o])
<1>5. /\ IsTracked(found, o)
      /\ \A p : IsTracked(led[t], p) => IsTracked(found, p)
  BY AcceptedTracks
<1>6. \/ vst[o] # "open" /\ led'[t] \in {led[t], filled}
      \/ led'[t] = found
  BY <1>1, <1>4 DEF TypeInv, TypeOK
<1>7. \A u \in Tags : u # t => led'[u] = led[u]
  BY <1>1, <1>4 DEF TypeInv, TypeOK
<1> HIDE DEF found
<1>8. \A p : p # o /\ IsTracked(found, p) => IsTracked(filled, p)
  BY DEF OnOrderFilled, Others, IsTracked
<1> HIDE DEF filled
<1>9. \A p \in Drawn : p # o /\ IsTracked(led[ord[p].tag], p) => IsTracked(led'[ord[p].tag], p)
  BY <1>3, <1>5, <1>6, <1>7, <1>8
<1>10. vst[o] = "open" => IsTracked(led'[ord[o].tag], o)
  BY <1>4, <1>5, <1>6
<1> QED BY <1>1, <1>2, <1>3, <1>9, <1>10 DEF RestingTracked

\* Start, recovery, reconciliation and shutdown.
LEMMA RestingRunner ==
  ASSUME TypeInv, RowsAhead, IntentInv, LedgerInv, LiveInv, Accountable, Runner
  PROVE  RestingTracked'
<1>1. \A p \in Ids : vst'[p] = "open" => vst[p] = "open"
  BY NothingRests
<1>2. RestingTracked /\ Drawn \subseteq Ids /\ \A o \in Drawn : ord[o].tag \in Tags
  BY DrawnFacts DEF LiveInv, TypeInv, OrderRecord
<1>3. CASE Start
  <2>1. \A o \in Ids : vst[o] = "open" => journal[o] \in Pending
    <3>1. ASSUME NEW o \in Ids, vst[o] = "open" PROVE journal[o] \in Pending
      <4>1. journal[o] \notin {"none", "FILLED", "DEAD"}
        BY <3>1 DEF RowsAhead, WriteAhead, IntentInv, JournalTruthful
      <4> QED BY <4>1 DEF TypeInv, TypeOK, Terminal
    <3> QED BY <3>1
  <2>2. UNCHANGED <<vst, ord, led>> /\ todo' = {o \in Ids : journal[o] \in Pending}
    BY <1>3 DEF Start, callVars, durable, venueVars
  <2> QED BY <1>2, <2>1, <2>2 DEF RestingTracked, Drawn
<1>4. CASE Crash \/ Stopped \/ Shutdown \/ RecoverFails \/ \E t \in Tags : ShutdownFlatten(t)
  BY <1>4 DEF Crash, Stopped, Shutdown, RecoverFails, ShutdownFlatten, RestingTracked
<1>5. CASE RecoverRow
  BY <1>5, RestingRecover
<1>6. ASSUME NEW t \in Tags, ReconcilePositions(t)
      PROVE  RestingTracked'
  <2>1. led'[t] = led[t] \/ led'[t] = SyncFromVenue(led[t], VenueNet({t}))
    BY <1>6 DEF ReconcilePositions, TypeInv, TypeOK
  <2>2. \A u \in Tags : u # t => led'[u] = led[u]
    BY <1>6 DEF ReconcilePositions, TypeInv, TypeOK
  <2>3. \A u \in Tags, o \in Drawn : IsTracked(led[u], o) => IsTracked(led'[u], o)
    BY <2>1, <2>2 DEF IsTracked, SyncFromVenue
  <2>4. UNCHANGED <<phase, todo, ord, vst>>
    BY <1>6 DEF ReconcilePositions, durable, venueVars
  <2>5. Drawn' = Drawn
    BY <2>4 DEF Drawn
  <2> QED BY <1>2, <2>3, <2>4, <2>5 DEF RestingTracked
<1>7. ASSUME NEW t \in Tags, Register(t)
      PROVE  RestingTracked'
  <2>1. PICK o \in seen : led' = IF IsTracked(led[t], o) THEN led
           ELSE [led EXCEPT ![t] = OnOrderAccepted(@, o, ord[o].side, "OPEN", ord[o].qty)]
    BY <1>7 DEF Register
  <2>2. \A u \in Tags, p \in Drawn : IsTracked(led[u], p) => IsTracked(led'[u], p)
    BY <2>1, AcceptedTracks DEF TypeInv, TypeOK
  <2>3. UNCHANGED <<phase, todo, ord, vst>>
    BY <1>7 DEF Register, durable, venueVars
  <2>4. Drawn' = Drawn
    BY <2>3 DEF Drawn
  <2> QED BY <1>2, <2>2, <2>3, <2>4 DEF RestingTracked
<1>8. CASE RecoverDone \/ RunStrategies \/ \E t \in Tags : ReconcileOrders(t) \/ Reconciled(t)
  <2>1. /\ UNCHANGED <<todo, ord, led>>
        /\ phase \in {"recover", "reconcile", "run"}
    BY <1>8 DEF RecoverDone, RunStrategies, ReconcileOrders, Reconciled, callVars, durable
  <2> QED BY <1>1, <1>2, <2>1, RestingSameLedger
<1> QED BY <1>3, <1>4, <1>5, <1>6, <1>7, <1>8 DEF Runner, Boot

\* Every step keeps the resting orders tracked.
LEMMA RestingStep ==
  ASSUME TypeInv, RowsAhead, IntentInv, LedgerInv, LiveInv, Accountable, [Next]_vars
  PROVE  RestingTracked'
<1>1. RestingTracked
  BY DEF LiveInv
<1>2. ASSUME NEW o \in Ids, VenueStep(o)
      PROVE  RestingTracked'
  <2>1. \A p \in Ids : vst'[p] = "open" =>
          \/ vst[p] = "open"
          \/ \E t \in Tags : pc[t] = "sent" /\ cur[t] = p /\ ord[p].tag = t
    BY <1>2, RestsForWorker
  <2>2. UNCHANGED <<phase, todo, led, ord>>
    BY <1>2, RestsForWorker
  <2>3. \A t \in Tags : pc[t] = "sent" => IsTracked(led[t], cur[t])
    BY DEF LedgerInv, LedgerAgrees
  <2>4. Drawn' = Drawn /\ Drawn \subseteq Ids
    BY <2>2, DrawnFacts DEF Drawn, TypeInv
  <2> QED BY <1>1, <2>1, <2>2, <2>3, <2>4 DEF RestingTracked
<1>3. CASE UNCHANGED vars
  BY <1>1, <1>3, RestingSameLedger DEF vars, procVars, callVars, durable, venueVars
<1> QED BY <1>2, <1>3, RestingWorker, RestingRunner DEF Next

-----------------------------------------------------------------------------
(* One OPEN alive per tag and side.                                        *)

\* No order comes alive, and what is alive stays what it was.
LEMMA AliveKept ==
  ASSUME TypeInv, OneAlive,
         \A o \in Drawn' : Alive(o)' => o \in Drawn /\ Alive(o) /\ ord'[o] = ord[o]
  PROVE  OneAlive'
BY DEF OneAlive

\* A step that draws nothing and brings nothing to rest.
LEMMA AliveSame ==
  ASSUME TypeInv, OneAlive, UNCHANGED ord,
         \A o \in Ids : vst'[o] = "open" =>
           vst[o] = "open" \/ \E t \in Tags : Calling(t) /\ cur[t] = o,
         \A t \in Tags : Calling(t)' => Calling(t) /\ cur'[t] = cur[t]
  PROVE  OneAlive'
<1>1. Drawn' = Drawn /\ Drawn \subseteq Ids
  BY DrawnFacts DEF Drawn, TypeInv
<1>2. ASSUME NEW o \in Drawn', Alive(o)'
      PROVE  Alive(o)
  BY <1>1, <1>2 DEF Alive
<1> QED BY <1>1, <1>2, AliveKept

\* The resolver lets an OPEN through only when none of its side is in flight,
\* and a tag's resting OPEN is in flight in its ledger.
LEMMA AliveResolve ==
  ASSUME TypeInv, IntentInv, LedgerInv, LiveInv, NEW t \in Tags, Resolve(t)
  PROVE  OneAlive'
<1>1. PICK r \in Requests, qty \in 1 .. MaxOrders :
        /\ ResolverAccepts(led[t], r.side, r.offset, qty)
        /\ Draw(t, r.side, r.offset, r.kind, qty)
  BY DEF Resolve
<1>2. /\ r.side \in Sides /\ r.offset \in Offsets /\ r.kind \in Kinds /\ qty \in Nat
      /\ pc[t] = "idle" /\ phase = "run" /\ UNCHANGED vst
  BY RequestAssumption, BoundAssumption DEF Kinds, Resolve, venueVars
<1> PICK n : n = Len(ord) + 1
  OBVIOUS
<1>3. /\ Drawn' = Drawn \cup {n} /\ n \in Ids \ Drawn
      /\ \A o \in Drawn : ord'[o] = ord[o]
      /\ ord \in Seq(OrderRecord) /\ Drawn \subseteq Ids
  BY <1>1, <1>2, DrawStep, DrawnFacts DEF TypeInv, TypeOK
<1>4. ord'[n] = [tag |-> t, side |-> r.side, offset |-> r.offset, kind |-> r.kind, qty |-> qty]
  BY <1>1, <1>3 DEF Draw
<1>5. cur' = [cur EXCEPT ![t] = n] /\ pc' = [pc EXCEPT ![t] = "accept"]
  BY <1>1 DEF Draw
<1>6. \A u \in Tags : Calling(u)' => (u = t /\ cur'[u] = n)
            \/ (Calling(u) /\ cur'[u] = cur[u])
  BY <1>5 DEF Calling, TypeInv, TypeOK
<1>7. ASSUME NEW o \in Drawn, Alive(o)' PROVE Alive(o)
  BY <1>2, <1>3, <1>6, <1>7 DEF Alive
<1>8. ASSUME NEW o \in Drawn, Alive(o), ord[o].tag = t, ord[o].side = r.side,
             r.offset = "OPEN"
      PROVE  FALSE
  <2>1. vst[o] = "open"
    <3>1. \A u \in Tags : Calling(u) /\ cur[u] = o => u = t
      BY <1>8 DEF IntentInv, CallAgrees
    <3>2. ~Calling(t)
      BY <1>2 DEF Calling
    <3> QED BY <1>8, <3>1, <3>2 DEF Alive
  <2>2. IsTracked(led[t], o)
    BY <1>2, <1>8, <2>1 DEF LiveInv, RestingTracked, LedgerInv
  <2>3. PICK e \in led[t].pending : e.id = o
    BY <2>2 DEF IsTracked
  <2>4. e.side = r.side /\ e.offset = "OPEN"
    BY <1>8, <2>3 DEF LiveInv, BooksMatch, Alive
  <2>5. HasInFlightOpen(led[t], r.side)
    BY <2>4 DEF HasInFlightOpen
  <2> QED BY <1>1, <1>8, <2>5 DEF ResolverAccepts
<1>9. OneAlive
  BY DEF LiveInv
<1>10. Alive(n)' => r.offset = "OPEN"
  BY <1>4 DEF Alive
<1>11. \A o \in Drawn : Alive(o)' /\ Alive(n)' /\ ord'[o].tag = ord'[n].tag
                          /\ ord'[o].side = ord'[n].side => FALSE
  BY <1>3, <1>4, <1>7, <1>8, <1>10
<1> QED BY <1>3, <1>7, <1>9, <1>11 DEF OneAlive

\* A flatten draws closes only.
LEMMA AliveFlattenPositions ==
  ASSUME TypeInv, OneAlive, NEW t \in Tags, FlattenPositions(t)
  PROVE  OneAlive'
<1>1. UNCHANGED vst
  BY DEF FlattenPositions, venueVars
<1>2. CASE Return(t) /\ UNCHANGED ord
  BY <1>1, <1>2, AliveSame DEF Return, Calling, TypeInv, TypeOK
<1>3. CASE ~(Return(t) /\ UNCHANGED ord)
  <2>1. PICK T \in {{t}, Tags} :
          Draw(t, IF VenueNet(T) > 0 THEN "SELL" ELSE "BUY", "CLOSE", "MARKET",
                  Abs(VenueNet(T)))
    BY <1>3 DEF FlattenPositions, ScopeTags
  <2>2. VenueNet(T) \in Int
    BY VenueNetInt DEF TypeInv
  <2>3. /\ Abs(VenueNet(T)) \in Nat /\ "CLOSE" \in Offsets /\ "MARKET" \in Kinds
        /\ (IF VenueNet(T) > 0 THEN "SELL" ELSE "BUY") \in Sides
    BY <2>2 DEF Abs, Offsets, Kinds, Sides
  <2> DEFINE n == Len(ord) + 1
  <2>4. /\ Drawn' = Drawn \cup {n} /\ n \in Ids \ Drawn
        /\ \A o \in Drawn : ord'[o] = ord[o]
        /\ ord \in Seq(OrderRecord) /\ Drawn \subseteq Ids
    BY <2>1, <2>3, DrawStep, DrawnFacts DEF TypeInv, TypeOK
  <2>5. ord'[n].offset = "CLOSE"
    BY <2>1, <2>4 DEF Draw
  <2>6. cur' = [cur EXCEPT ![t] = n] /\ pc' = [pc EXCEPT ![t] = "accept"]
    BY <2>1 DEF Draw
  <2> HIDE DEF n
  <2>7. \A u \in Tags : Calling(u)' => (u = t /\ cur'[u] = n)
            \/ (Calling(u) /\ cur'[u] = cur[u])
    BY <2>6 DEF Calling, TypeInv, TypeOK
  <2>8. ASSUME NEW o \in Drawn', Alive(o)' PROVE o \in Drawn /\ Alive(o) /\ ord'[o] = ord[o]
    BY <1>1, <2>4, <2>5, <2>7, <2>8 DEF Alive
  <2> QED BY <2>8, AliveKept
<1> QED BY <1>2, <1>3

\* Every step keeps at most one OPEN alive per tag and side.
LEMMA AliveStep ==
  ASSUME TypeInv, IntentInv, LedgerInv, LiveInv, [Next]_vars
  PROVE  OneAlive'
<1>1. OneAlive
  BY DEF LiveInv
<1>2. ASSUME NEW o \in Ids, VenueStep(o)
      PROVE  OneAlive'
  <2>1. \A p \in Ids : vst'[p] = "open" =>
          vst[p] = "open" \/ \E t \in Tags : Calling(t) /\ cur[t] = p
    BY <1>2, RestsForWorker DEF Calling
  <2>2. UNCHANGED <<pc, cur, ord>>
    BY <1>2, RestsForWorker
  <2> QED BY <1>1, <2>1, <2>2, AliveSame DEF Calling
<1>3. ASSUME NEW t \in Tags, Worker(t) \/ ShutdownFlatten(t), ~Resolve(t), ~FlattenPositions(t)
      PROVE  /\ UNCHANGED ord
             /\ \A u \in Tags : Calling(u)' => Calling(u) /\ cur'[u] = cur[u]
  BY <1>3 DEF Worker, WorkerStep, Cancel, StrategyFlatten, ShutdownFlatten, FlattenCancel,
       Accept, Begin, Submit, Answered, NoAnswer, Finish, Update, Return, callVars, durable,
       Calling, TypeInv, TypeOK
<1>4. CASE Crash \/ Stopped
  <2>1. UNCHANGED <<ord, vst>> /\ \A t \in Tags : ~Calling(t)'
    BY <1>4 DEF Crash, Stopped, LoseMemory, durable, venueVars, Calling
  <2> QED BY <1>1, <2>1, AliveSame
<1>5. CASE UNCHANGED <<pc, cur, ord, vst>>
  BY <1>1, <1>5, AliveSame DEF Calling
<1>6. CASE RecoverRow
  BY <1>5, <1>6 DEF RecoverRow, venueVars
<1>7. ASSUME NEW t \in Tags, Worker(t) \/ ShutdownFlatten(t)
      PROVE  OneAlive'
  <2>1. \A p \in Ids : vst'[p] = "open" => vst[p] = "open"
    BY <1>7, NothingRests DEF Runner
  <2> QED BY <1>1, <1>3, <1>7, <2>1, AliveSame, AliveResolve, AliveFlattenPositions
<1> QED BY <1>2, <1>4, <1>5, <1>6, <1>7, QuietSteps DEF Next, Runner, Boot

-----------------------------------------------------------------------------

\* All of it together.
LEMMA LiveInvariant ==
  ASSUME Accountable
  PROVE  Spec => [](TypeInv /\ LedgerInv /\ LiveInv)
<1>1. ASSUME Init
      PROVE  LiveInv
  <2>1. \A t \in Tags : led[t].pending = {} /\ pc[t] = "idle"
    BY <1>1 DEF Init, EmptyPosition
  <2>2. Drawn = {}
    BY <1>1 DEF Init, Drawn
  <2> QED BY <2>1, <2>2 DEF LiveInv, BooksMatch, UpdateTells, RestingTracked, OneAlive
<1>2. Sound
  BY DEF Accountable
<1>3. TypeInv /\ RowsAhead /\ IntentInv /\ LedgerInv /\ LiveInv /\ [Next]_vars => LiveInv'
  BY <1>2, BooksStep, UpdateTellsStep, RestingStep, AliveStep DEF LiveInv
<1>4. Spec => [](TypeInv /\ RowsAhead /\ IntentInv)
  BY <1>2, IntentInvariant
<1> QED BY <1>1, <1>3, <1>4, LedgerInvariant, PTL DEF Spec

\* What the ledger has in flight is what is on its way: no order counted
\* twice, no intent left undecided, no order at rest forgotten.
THEOREM LedgerAccountsHolds ==
  ASSUME Accountable
  PROVE  Spec => []LedgerAccounts
<1>1. TypeInv /\ LedgerInv /\ LiveInv => LiveOrdersTracked
  BY DEF LedgerInv, LiveInv, RestingTracked, LiveOrdersTracked
<1>2. Spec => []LiveOrdersTracked
  BY <1>1, LiveInvariant, PTL
<1>3. InFlightIsPending /\ RowsDecided /\ LiveOrdersTracked => LedgerAccounts
  BY DEF LedgerAccounts
<1> QED BY <1>2, <1>3, InFlightIsPendingHolds, RowsDecidedHolds, PTL

\* At most one OPEN of a tag rests on each side.
THEOREM OneLiveOpenHolds ==
  ASSUME Accountable
  PROVE  Spec => []OneLiveOpen
<1>1. LiveInv => OneLiveOpen
  BY DEF LiveInv, OneAlive, Alive, OneLiveOpen
<1> QED BY <1>1, LiveInvariant, PTL
==================================================================================
