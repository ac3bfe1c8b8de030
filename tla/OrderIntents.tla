------------------------------ MODULE OrderIntents ------------------------------
(***************************************************************************)
(* What the order journal promises, without threads, crashes or recovery:  *)
(* per order one durable row and the fate of the order at the venue.       *)
(*                                                                         *)
(*  - an order reaches the venue only while its row says SUBMITTING, and   *)
(*    at most once;                                                        *)
(*  - a row is decided from a pending state only, never against the fate,  *)
(*    and a decided row is final.                                          *)
(***************************************************************************)
CONSTANT Ids

VARIABLES
  row,    \* per id: "none", or the status of its journal row
  fate    \* per id: what became of the order at the venue

vars == <<row, fate>>

Pending  == {"SUBMITTING", "IN_FLIGHT", "UNKNOWN"}
Terminal == {"FILLED", "DEAD"}

Init == /\ row = [o \in Ids |-> "none"]
        /\ fate = [o \in Ids |-> "none"]

\* The intent is written down.
Intend(o) ==
  /\ row[o] = "none"
  /\ row' = [row EXCEPT ![o] = "SUBMITTING"]
  /\ UNCHANGED fate

\* The venue takes the order.
Reach(o) ==
  /\ row[o] = "SUBMITTING" /\ fate[o] = "none"
  /\ \E f \in {"refused", "open", "filled"} : fate' = [fate EXCEPT ![o] = f]
  /\ UNCHANGED row

\* A resting order executes.
Fill(o) ==
  /\ fate[o] = "open"
  /\ fate' = [fate EXCEPT ![o] = "filled"]
  /\ UNCHANGED row

\* Resting orders are cancelled, several at once by a flatten.
CancelSome(S) ==
  /\ \A o \in S : fate[o] = "open"
  /\ fate' = [o \in Ids |-> IF o \in S THEN "canceled" ELSE fate[o]]
  /\ UNCHANGED row

\* What the journal may say of an order whose fate is f.
Agrees(status, f) ==
  CASE status = "FILLED"    -> f = "filled"
    [] status = "DEAD"      -> f \in {"none", "refused", "canceled"}
    [] status = "IN_FLIGHT" -> f \in {"open", "filled", "canceled"}
    [] status = "UNKNOWN"   -> TRUE
    [] OTHER                -> FALSE

\* The journal learns something of a pending order.
Decide(o) ==
  /\ row[o] \in Pending
  /\ \E s \in (Pending \cup Terminal) \ {"SUBMITTING"} :
       /\ Agrees(s, fate[o])
       /\ row' = [row EXCEPT ![o] = s]
  /\ UNCHANGED fate

Next == \/ \E o \in Ids : Intend(o) \/ Reach(o) \/ Fill(o) \/ Decide(o)
        \/ \E S \in SUBSET Ids : CancelSome(S)

Spec == Init /\ [][Next]_vars
=================================================================================
