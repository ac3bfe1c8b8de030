---------------------------- MODULE ExposureLedger ----------------------------
(***************************************************************************)
(* The exposure ledger of core/trade_engine/ledger.py, as pure operators   *)
(* on the position record of one (symbol, tag).                            *)
(*                                                                         *)
(* Every public method of ExposureLedger runs under one lock, so a call is *)
(* one atomic update of one record; the modules that own a ledger apply    *)
(* these operators in their actions.                                       *)
(*                                                                         *)
(* Abstracted: average entry price and realised profit, which no property  *)
(* here tells apart; quantities are whole lots.                            *)
(***************************************************************************)
EXTENDS Integers, FiniteSets

Sides   == {"BUY", "SELL"}
Offsets == {"OPEN", "CLOSE"}

\* The signed contribution of an order to a position: the offset does not
\* matter, only the side does.
Signed(side, qty) == IF side = "BUY" THEN qty ELSE -qty

Abs(n) == IF n < 0 THEN -n ELSE n

\* The position records over order ids I.
Positions(I) ==
  [volume : Int, inFlight : Int,
   pending : SUBSET [id : I, side : Sides, offset : Offsets, qty : Nat]]

\* The record a tag starts with: no filled volume, nothing in flight.
EmptyPosition == [volume |-> 0, inFlight |-> 0, pending |-> {}]

\* A pending entry: what the ledger remembers of an order it accepted.
Entry(o, side, offset, qty) ==
  [id |-> o, side |-> side, offset |-> offset, qty |-> qty]

\* The entries of a record other than the one of order o.
Others(tp, o) == {e \in tp.pending : e.id # o}

IsTracked(tp, o) == \E e \in tp.pending : e.id = o

\* What popping order o takes out of in_flight: the signed quantity of its
\* entry, or of the caller's arguments when there is no entry.
Released(tp, o, signed) ==
  IF IsTracked(tp, o)
  THEN LET e == CHOOSE e \in tp.pending : e.id = o IN Signed(e.side, e.qty)
  ELSE signed

OnOrderAccepted(tp, o, side, offset, qty) ==
  [volume   |-> tp.volume,
   inFlight |-> tp.inFlight + Signed(side, qty),
   pending  |-> Others(tp, o) \cup {Entry(o, side, offset, qty)}]

OnOrderFilled(tp, o, side, fillQty) ==
  [volume   |-> tp.volume + Signed(side, fillQty),
   inFlight |-> tp.inFlight - Released(tp, o, Signed(side, fillQty)),
   pending  |-> Others(tp, o)]

OnOrderDead(tp, o, side, qty) ==
  [volume   |-> tp.volume,
   inFlight |-> tp.inFlight - Released(tp, o, Signed(side, qty)),
   pending  |-> Others(tp, o)]

SyncFromVenue(tp, venueVolume) ==
  [volume |-> venueVolume, inFlight |-> tp.inFlight, pending |-> tp.pending]

ClearInFlight(tp) ==
  [volume |-> tp.volume, inFlight |-> 0, pending |-> {}]

HasInFlightOpen(tp, side) ==
  \E e \in tp.pending : e.offset = "OPEN" /\ e.side = side

AvailableToClose(tp) == Abs(tp.volume)
=============================================================================
