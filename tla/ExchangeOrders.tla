----------------------------- MODULE ExchangeOrders -----------------------------
(***************************************************************************)
(* OrderManager (core/trade_engine/order_manager.py) over the exchanges    *)
(* reached by HTTP (executors/okx_executor.py,                             *)
(* binance_futures_executor.py): submit, cancel and sync await the         *)
(* exchange, several at a time, and what they return replaces the          *)
(* manager's record of the order, whatever became of it meanwhile.         *)
(*                                                                         *)
(* A record is an object: an executor returns a new one, or, when the      *)
(* exchange refuses, the one it was given. Abstracted: quantities, prices  *)
(* and signatures; filled quantities matter only as part or all.           *)
(***************************************************************************)
EXTENDS Integers, Sequences, FiniteSets

CONSTANTS
  Exchanges,       \* exchanges to consider, of "okx" and "futures"
  ExchangeOrderIds,\* the orders created
  MaxExchangeCalls \* bound: calls of the manager, over the whole run

ASSUME ExchangeAssumption ==
  Exchanges \subseteq {"okx", "futures"} /\ MaxExchangeCalls \in Nat

HttpCalls == 1 .. MaxExchangeCalls
NoCall == [kind |-> "none", order |-> "none", copy |-> 0, answer |-> "none"]

LiveStates  == {"NEW", "PARTIAL"}
VenueStates == {"none", "NEW", "PARTIAL", "FILLED", "CANCELED", "REFUSED"}
ActiveStatuses == {"PENDING", "SUBMITTED", "PARTIAL", "CANCELING"}

VARIABLES
  exchange,   \* which exchange it is
  copies,     \* per order: the objects that stand or stood for it
  current,    \* per order: the one in the manager's _orders
  atVenue,    \* per order: its state at the exchange
  requests,   \* the calls under way: order, object passed, answer
  unsure      \* orders whose submit got no proper answer

exchangeVars == <<exchange, copies, current, atVenue, requests, unsure>>

ExchangeTypeOK ==
  /\ exchange \in Exchanges
  /\ \A o \in ExchangeOrderIds : current[o] \in DOMAIN copies[o]
  /\ atVenue \in [ExchangeOrderIds -> VenueStates]
  /\ DOMAIN requests = HttpCalls
  /\ unsure \subseteq ExchangeOrderIds

\* create_order: PENDING, and no exchange_order_id.
ExchangeInit ==
  /\ exchange \in Exchanges
  /\ copies = [o \in ExchangeOrderIds |-> <<[status |-> "PENDING", known |-> FALSE]>>]
  /\ current = [o \in ExchangeOrderIds |-> 1]
  /\ atVenue = [o \in ExchangeOrderIds |-> "none"]
  /\ requests = [c \in HttpCalls |-> NoCall]
  /\ unsure = {}

Record(o) == copies[o][current[o]]

\* _STATUS_MAP, _OKX_STATUS_MAP.
Mapped(state) == IF state = "NEW" THEN "SUBMITTED" ELSE state

-----------------------------------------------------------------------------
(* The manager's side of a call.                                           *)

FreeCall(c) ==
  /\ requests[c] = NoCall
  /\ \A d \in HttpCalls : requests[d] = NoCall => c <= d

StartCall(c, kind, o) ==
  requests' = [requests EXCEPT ![c] =
    [kind |-> kind, order |-> o, copy |-> current[o], answer |-> "awaited"]]

StartSubmit(c, o) ==
  /\ FreeCall(c) /\ Record(o).status = "PENDING"
  /\ \A d \in HttpCalls : requests[d].kind = "submit" => requests[d].order # o
  /\ StartCall(c, "submit", o)
  /\ UNCHANGED <<exchange, copies, current, atVenue, unsure>>

\* The transition to CANCELING is made where the table allows it; the call goes
\* out in any case.
StartCancel(c, o) ==
  /\ FreeCall(c)
  /\ copies' = IF Record(o).status \in {"SUBMITTED", "PARTIAL"}
               THEN [copies EXCEPT ![o][current[o]].status = "CANCELING"] ELSE copies
  /\ StartCall(c, "cancel", o)
  /\ UNCHANGED <<exchange, current, atVenue, unsure>>

StartSync(c, o) ==
  /\ FreeCall(c)
  /\ StartCall(c, "query", o)
  /\ UNCHANGED <<exchange, copies, current, atVenue, unsure>>

-----------------------------------------------------------------------------
(* The exchange.                                                           *)

HttpAnswer(c, a) == requests' = [requests EXCEPT ![c].answer = a]
Awaited(c, kind) ==
  requests[c].kind = kind /\ requests[c].answer = "awaited"
\* The object names the order by the id the exchange gave it.
Named(c) == copies[requests[c].order][requests[c].copy].known

\* What submit_order makes of a proper response and of a bad HTTP status: okx
\* raises there, at the futures exchange it counts as a rejection, whatever came
\* of the order.
OkxSubmit(state) == [proper |-> "SUBMITTED", badStatus |-> "error"]
FuturesSubmit(state) == [proper |-> Mapped(state), badStatus |-> "REJECTED"]

\* A lost answer raises at both.
AcceptOrder(c) ==
  /\ Awaited(c, "submit")
  /\ LET o == requests[c].order IN
     \E state \in {"NEW", "FILLED"} :
       LET made == IF exchange = "okx" THEN OkxSubmit(state) ELSE FuturesSubmit(state) IN
       /\ atVenue' = [atVenue EXCEPT ![o] = state]
       /\ \/ HttpAnswer(c, made.proper) /\ UNCHANGED unsure
          \/ /\ HttpAnswer(c, made.badStatus) \/ HttpAnswer(c, "error")
             /\ unsure' = unsure \cup {o}
  /\ UNCHANGED <<exchange, copies, current>>

RefuseOrder(c) ==
  /\ Awaited(c, "submit")
  /\ LET o == requests[c].order IN
     /\ atVenue' = [atVenue EXCEPT ![o] = "REFUSED"]
     /\ \/ HttpAnswer(c, "REJECTED") /\ UNCHANGED unsure
        \/ HttpAnswer(c, "error") /\ unsure' = unsure \cup {o}
  /\ UNCHANGED <<exchange, copies, current>>

AnswerCancel(c) ==
  /\ Awaited(c, "cancel")
  /\ LET o == requests[c].order IN
     \/ /\ Named(c) /\ atVenue[o] \in LiveStates
        /\ atVenue' = [atVenue EXCEPT ![o] = "CANCELED"]
        /\ HttpAnswer(c, "CANCELED") \/ HttpAnswer(c, "error")
     \/ /\ ~Named(c) \/ atVenue[o] \notin LiveStates
        /\ HttpAnswer(c, "refused") \/ HttpAnswer(c, "error")
        /\ UNCHANGED atVenue
  /\ UNCHANGED <<exchange, copies, current, unsure>>

AnswerQuery(c) ==
  /\ Awaited(c, "query")
  /\ \/ HttpAnswer(c, IF Named(c) THEN Mapped(atVenue[requests[c].order]) ELSE "refused")
     \/ HttpAnswer(c, "error")
  /\ UNCHANGED <<exchange, copies, current, atVenue, unsure>>

VenueFills(o) ==
  /\ atVenue[o] \in LiveStates
  /\ \E s \in {"PARTIAL", "FILLED"} \ {atVenue[o]} : atVenue' = [atVenue EXCEPT ![o] = s]
  /\ UNCHANGED <<exchange, copies, current, requests, unsure>>

-----------------------------------------------------------------------------
(* The answer.                                                             *)

\* Mutant: whatever raises makes the order FAILED.
DeliverFailsAny(c) ==
  /\ requests[c].answer \notin {"none", "awaited", "done"}
  /\ LET r == requests[c]
         o == r.order IN
     \/ /\ r.answer \notin {"error", "refused"}
        /\ copies' = [copies EXCEPT ![o] = Append(@,
             [status |-> r.answer, known |-> r.kind # "submit" \/ r.answer # "REJECTED"])]
        /\ current' = [current EXCEPT ![o] = Len(copies'[o])]
     \/ r.answer = "refused" /\ current' = [current EXCEPT ![o] = r.copy] /\ UNCHANGED copies
     \/ /\ r.answer = "error"
        /\ copies' = [copies EXCEPT ![o][r.copy].status = "FAILED"]
        /\ UNCHANGED current
  /\ HttpAnswer(c, "done")
  /\ UNCHANGED <<exchange, atVenue, unsure>>

Deliver(c) ==
  /\ requests[c].answer \notin {"none", "awaited", "done"}
  /\ LET r == requests[c]
         o == r.order IN
     \/ /\ r.answer \notin {"error", "refused"}
        /\ copies' = [copies EXCEPT ![o] = Append(@,
             [status |-> r.answer, known |-> r.kind # "submit" \/ r.answer # "REJECTED"])]
        /\ current' = [current EXCEPT ![o] = Len(copies'[o])]
     \* The exchange refused: the object that was passed is put back.
     \/ /\ r.answer = "refused"
        /\ current' = [current EXCEPT ![o] = r.copy]
        /\ UNCHANGED copies
     \* Only a submit that raises changes the order, the object that was passed.
     \/ /\ r.answer = "error"
        /\ copies' = IF r.kind = "submit"
                     THEN [copies EXCEPT ![o][r.copy].status = "FAILED"] ELSE copies
        /\ UNCHANGED current
  /\ HttpAnswer(c, "done")
  /\ UNCHANGED <<exchange, atVenue, unsure>>

ExchangeNext ==
  \/ \E c \in HttpCalls, o \in ExchangeOrderIds :
       StartSubmit(c, o) \/ StartCancel(c, o) \/ StartSync(c, o)
  \/ \E c \in HttpCalls : AcceptOrder(c) \/ RefuseOrder(c) \/ AnswerCancel(c)
                        \/ AnswerQuery(c) \/ Deliver(c)
  \/ \E o \in ExchangeOrderIds : VenueFills(o)

ExchangeSpec == ExchangeInit /\ [][ExchangeNext]_exchangeVars

-----------------------------------------------------------------------------
(* Properties.                                                             *)

Submitted(o) == \E c \in HttpCalls :
  requests[c].kind = "submit" /\ requests[c].order = o /\ requests[c].answer = "done"

\* Answers overtake each other and put old records back, but never a dead one
\* over a live order: an order the manager has as filled or canceled is so at
\* the exchange, and an order that may still fill is active in the manager,
\* unless its submit was never answered properly (submit_order, cancel_order,
\* sync_order).
RecordsTruthful ==
  \A o \in ExchangeOrderIds :
    /\ Record(o).status \in {"FILLED", "CANCELED"} => atVenue[o] = Record(o).status
    /\ (atVenue[o] \in LiveStates /\ Submitted(o) /\ o \notin unsure)
         => Record(o).status \in ActiveStatuses
==============================================================================
