------------------------------- MODULE OrderPath -------------------------------
(***************************************************************************)
(* The live order path of the strategy SDK, end to end on one symbol:      *)
(* KqApi.send_order / cancel / flatten (kqsdk/api.py), the write-ahead     *)
(* journal (kqsdk/order_journal.py), the exposure ledger                   *)
(* (core/trade_engine/ledger.py), start-up recovery and shutdown           *)
(* (kqsdk/live_runner.py), reconciliation (kqsdk/backend.py), and the      *)
(* venue behind an executor (external).                                    *)
(*                                                                         *)
(* One worker thread per tag sends that tag's orders one step at a time;   *)
(* steps of different tags, of the venue, and crashes interleave freely.   *)
(* The journal and the id counter are durable, everything else of the      *)
(* process is lost in a crash.                                             *)
(*                                                                         *)
(* Abstracted: an OPEN order is one lot, a close a whole number of lots;   *)
(* prices, tickets, broadcasting to followers and the stale-feed gate are  *)
(* left out (a request the gate or the resolver rejects changes nothing).  *)
(* A CLOSE is a market order, as every close the SDK itself sends is.      *)
(***************************************************************************)
EXTENDS ExposureLedger, Sequences, FiniteSetsExt

CONSTANTS
  Tags,         \* the ledger tags trading the symbol, one worker thread each
  Venue,        \* the executor: "mt5" (position tickets) or "binance" (net)
  Faults,       \* which environment faults may happen
  Requests,     \* the (side, offset, kind) combinations strategies ask for
  FlattenScopes,\* scopes of a flatten call by a strategy: "own", "all"
  MaxRequests,  \* bound: orders strategies may send
  MaxOrders,    \* bound: orders in all, closes sent by flatten included
  MaxStarts     \* bound: starts of the process

ASSUME VenueAssumption  == Venue \in {"mt5", "binance"}
ASSUME FaultsAssumption ==
  Faults \subseteq {"crash", "lostReply", "readFails", "cancelFails",
                    "lateExecution", "fuse", "expire", "refuse"}
ASSUME RequestAssumption ==
  Requests \subseteq [side : Sides, offset : Offsets, kind : {"MARKET", "LIMIT"}]
ASSUME ScopeAssumption == FlattenScopes \subseteq {"own", "all"}
ASSUME BoundAssumption ==
  MaxRequests \in Nat /\ MaxOrders \in Nat /\ MaxStarts \in Nat

Ids         == 1 .. MaxOrders
Kinds       == {"MARKET", "LIMIT"}
OrderRecord == [tag : Tags, side : Sides, offset : Offsets, kind : Kinds, qty : Nat]
Pending     == {"SUBMITTING", "IN_FLIGHT", "UNKNOWN"}
Terminal    == {"FILLED", "DEAD"}
Steps       == {"idle", "accept", "begin", "submit", "sent", "finish", "update",
                "flatten_own", "flatten_all"}

VARIABLES
  phase,     \* "down", "recover", "reconcile", "run", "stop", "stopped"
  starts,    \* how many times the process was started
  todo,      \* rows _recover has still to converge
  rstep,     \* per tag: what reconcile_positions does next
  seen,      \* resting orders it read and has still to look at
  stopping,  \* tags _shutdown has still to flatten
  led,       \* the ledger: per tag a position record
  pc,        \* per tag: the next step of its worker's call
  cur,       \* per tag: the order its worker is sending, 0 for none
  res,       \* per tag: the submit status its worker was given
  ord,       \* the orders drawn so far, by id (the durable id counter)
  journal,   \* per id: the status of the write-ahead row, "none" before begin
  wire,      \* ids sent to the venue and not yet processed
  vst,       \* per id: the venue's state of the order
  fq,        \* per id: lots the venue executed
  held,      \* mt5: ids of OPEN orders whose position is still held
  fillNo,    \* mt5: per id, its rank in the venue's order of opening positions
  net        \* the account's net position in the symbol

procVars  == <<phase, starts, todo, rstep, seen, stopping>>
callVars  == <<led, pc, cur, res>>
durable   == <<ord, journal>>
venueVars == <<wire, vst, fq, held, fillNo, net>>
vars      == <<procVars, callVars, durable, venueVars>>

Ticketed == Venue = "mt5"

TypeOK ==
  /\ phase \in {"down", "recover", "reconcile", "run", "stop", "stopped"}
  /\ starts \in 0 .. MaxStarts
  /\ todo \subseteq Ids
  /\ rstep \in [Tags -> {"positions", "orders", "register", "done"}]
  /\ seen \subseteq Ids
  /\ stopping \subseteq Tags
  /\ led \in [Tags -> Positions(Ids)]
  /\ pc \in [Tags -> Steps]
  /\ cur \in [Tags -> Ids \cup {0}]
  /\ res \in [Tags -> Pending \cup Terminal \cup {"none"}]
  /\ ord \in Seq(OrderRecord)
  /\ Len(ord) <= MaxOrders
  /\ journal \in [Ids -> Pending \cup Terminal \cup {"none"}]
  /\ wire \subseteq Ids
  /\ vst \in [Ids -> {"none", "refused", "open", "filled", "canceled"}]
  /\ fq \in [Ids -> Nat]
  /\ held \subseteq Ids
  /\ fillNo \in [Ids -> Nat]
  /\ net \in Int

Init ==
  /\ phase = "down" /\ starts = 0 /\ todo = {} /\ seen = {} /\ stopping = {}
  /\ rstep = [t \in Tags |-> "done"]
  /\ led = [t \in Tags |-> EmptyPosition]
  /\ pc = [t \in Tags |-> "idle"]
  /\ cur = [t \in Tags |-> 0]
  /\ res = [t \in Tags |-> "none"]
  /\ ord = <<>>
  /\ journal = [o \in Ids |-> "none"]
  /\ wire = {}
  /\ vst = [o \in Ids |-> "none"]
  /\ fq = [o \in Ids |-> 0]
  /\ held = {}
  /\ fillNo = [o \in Ids |-> 0]
  /\ net = 0

-----------------------------------------------------------------------------
(* What the executor reads of the venue.                                   *)

Drawn     == 1 .. Len(ord)
OpenAt(T) == {o \in Drawn : vst[o] = "open" /\ ord[o].tag \in T}

Longs(T)  == {o \in held : ord[o].tag \in T /\ ord[o].side = "BUY"}
Shorts(T) == {o \in held : ord[o].tag \in T /\ ord[o].side = "SELL"}

\* The signed sum of the positions query_positions returns for the tags T:
\* mt5 filters positions by magic, binance ignores magic and reports the net.
VenueNet(T) ==
  IF Ticketed THEN Cardinality(Longs(T)) - Cardinality(Shorts(T)) ELSE net

ScopeTags(t, scope) == IF scope = "own" THEN {t} ELSE Tags

-----------------------------------------------------------------------------
(* KqApi.send_order, one step per effect.                                  *)

AllIdle == \A t \in Tags : pc[t] = "idle"

\* Mutant: no check for an OPEN already in flight.
ResolverAcceptsDuplicates(tp, side, offset, qty) ==
  offset = "CLOSE" => qty <= AvailableToClose(tp)

\* UnifiedResolver._validate, for the conditions that depend on state.
ResolverAccepts(tp, side, offset, qty) ==
  IF offset = "OPEN"
  THEN ~HasInFlightOpen(tp, side)
  ELSE qty <= AvailableToClose(tp)

\* A validated request draws its id and its worker goes on to the ledger.
Draw(t, side, offset, kind, qty) ==
  /\ Len(ord) < MaxOrders
  /\ ord' = Append(ord, [tag |-> t, side |-> side, offset |-> offset,
                         kind |-> kind, qty |-> qty])
  /\ cur' = [cur EXCEPT ![t] = Len(ord) + 1]
  /\ pc'  = [pc EXCEPT ![t] = "accept"]

Resolve(t) ==
  /\ phase = "run" /\ pc[t] = "idle" /\ Len(ord) < MaxRequests
  /\ \E r \in Requests, qty \in 1 .. MaxOrders :
       /\ r.offset = "OPEN" => qty = 1
       /\ r.offset = "CLOSE" => r.kind = "MARKET"
       /\ ResolverAccepts(led[t], r.side, r.offset, qty)
       /\ Draw(t, r.side, r.offset, r.kind, qty)
  /\ UNCHANGED <<procVars, led, res, journal, venueVars>>

\* Mutant: the order goes out before its row is written.
AcceptThenSubmit(t) ==
  /\ pc[t] = "accept"
  /\ LET o == cur[t] IN
       led' = [led EXCEPT ![t] =
                 OnOrderAccepted(@, o, ord[o].side, ord[o].offset, ord[o].qty)]
  /\ pc' = [pc EXCEPT ![t] = "submit"]
  /\ UNCHANGED <<procVars, cur, res, durable, venueVars>>

Accept(t) ==
  /\ pc[t] = "accept"
  /\ LET o == cur[t] IN
       led' = [led EXCEPT ![t] =
                 OnOrderAccepted(@, o, ord[o].side, ord[o].offset, ord[o].qty)]
  /\ pc' = [pc EXCEPT ![t] = "begin"]
  /\ UNCHANGED <<procVars, cur, res, durable, venueVars>>

Begin(t) ==
  /\ pc[t] = "begin"
  /\ journal' = [journal EXCEPT ![cur[t]] = "SUBMITTING"]
  /\ pc' = [pc EXCEPT ![t] = "submit"]
  /\ UNCHANGED <<procVars, led, cur, res, ord, venueVars>>

Submit(t) ==
  /\ pc[t] = "submit"
  /\ wire' = wire \cup {cur[t]}
  /\ pc' = [pc EXCEPT ![t] = "sent"]
  /\ UNCHANGED <<procVars, led, cur, res, durable, vst, fq, held, fillNo, net>>

\* The executor returns what the venue answered.
Answered(t) ==
  /\ pc[t] = "sent" /\ res[t] # "none"
  /\ pc' = [pc EXCEPT ![t] = "finish"]
  /\ UNCHANGED <<procVars, led, cur, res, durable, venueVars>>

\* Mutant: the timeout leaks out as a status of its own.
NoAnswerTimeout(t) ==
  /\ "lostReply" \in Faults
  /\ pc[t] = "sent"
  /\ res' = [res EXCEPT ![t] = "TIMEOUT"]
  /\ wire' = wire \ {cur[t]}
  /\ pc' = [pc EXCEPT ![t] = "finish"]
  /\ UNCHANGED <<procVars, led, cur, durable, vst, fq, held, fillNo, net>>

\* No answer in time: the mt5 driver kills its worker and returns None, which
\* the executor reports as DEAD; the binance bridge raises, which send_order
\* records as UNKNOWN. The request may or may not have reached the venue, and
\* only with "lateExecution" may it still arrive.
NoAnswer(t) ==
  /\ "lostReply" \in Faults
  /\ pc[t] = "sent"
  /\ res' = [res EXCEPT ![t] = IF Ticketed THEN "DEAD" ELSE "UNKNOWN"]
  /\ wire' = IF "lateExecution" \in Faults THEN wire ELSE wire \ {cur[t]}
  /\ pc' = [pc EXCEPT ![t] = "finish"]
  /\ UNCHANGED <<procVars, led, cur, durable, vst, fq, held, fillNo, net>>

\* The call ends and its worker is free for the next request.
Return(t) ==
  /\ pc'  = [pc EXCEPT ![t] = "idle"]
  /\ cur' = [cur EXCEPT ![t] = 0]
  /\ res' = [res EXCEPT ![t] = "none"]

\* Mutant: the exception path returns without deciding the row.
FinishAnsweredOnly(t) ==
  /\ pc[t] = "finish"
  /\ IF res[t] = "UNKNOWN"
     THEN Return(t) /\ UNCHANGED journal
     ELSE /\ journal' = [journal EXCEPT ![cur[t]] = res[t]]
          /\ pc' = [pc EXCEPT ![t] = "update"] /\ UNCHANGED <<cur, res>>
  /\ UNCHANGED <<procVars, led, ord, venueVars>>

Finish(t) ==
  /\ pc[t] = "finish"
  /\ journal' = [journal EXCEPT ![cur[t]] = res[t]]
  /\ IF res[t] = "UNKNOWN"
     THEN Return(t)
     ELSE pc' = [pc EXCEPT ![t] = "update"] /\ UNCHANGED <<cur, res>>
  /\ UNCHANGED <<procVars, led, ord, venueVars>>

\* Mutant: whatever is not FILLED releases its exposure.
UpdateReleasesResting(t) ==
  /\ pc[t] = "update"
  /\ LET o == cur[t] IN
       led' = [led EXCEPT ![t] =
                 IF res[t] = "FILLED"
                 THEN OnOrderFilled(@, o, ord[o].side, fq[o])
                 ELSE OnOrderDead(@, o, ord[o].side, ord[o].qty)]
  /\ Return(t)
  /\ UNCHANGED <<procVars, durable, venueVars>>

\* Mutant: the ledger books the ordered quantity instead of the filled one.
UpdateBooksOrdered(t) ==
  /\ pc[t] = "update"
  /\ LET o == cur[t] IN
       led' = [led EXCEPT ![t] =
                 CASE res[t] = "FILLED"    -> OnOrderFilled(@, o, ord[o].side, ord[o].qty)
                   [] res[t] = "IN_FLIGHT" -> @
                   [] OTHER                -> OnOrderDead(@, o, ord[o].side, ord[o].qty)]
  /\ Return(t)
  /\ UNCHANGED <<procVars, durable, venueVars>>

Update(t) ==
  /\ pc[t] = "update"
  /\ LET o == cur[t] IN
       led' = [led EXCEPT ![t] =
                 CASE res[t] = "FILLED"    -> OnOrderFilled(@, o, ord[o].side, fq[o])
                   [] res[t] = "IN_FLIGHT" -> @
                   [] OTHER                -> OnOrderDead(@, o, ord[o].side, ord[o].qty)]
  /\ Return(t)
  /\ UNCHANGED <<procVars, durable, venueVars>>

-----------------------------------------------------------------------------
(* KqApi.cancel and KqApi.flatten.                                         *)

CancelAtVenue(S) == vst' = [o \in Ids |-> IF o \in S THEN "canceled" ELSE vst[o]]

\* cancel goes to the venue only: neither ledger nor journal is told.
Cancel(t) ==
  /\ phase = "run" /\ pc[t] = "idle"
  /\ \E o \in OpenAt({t}) : CancelAtVenue({o})
  /\ UNCHANGED <<procVars, callVars, durable, wire, fq, held, fillNo, net>>

\* Mutant: flatten closes the position but leaves resting orders alone.
FlattenNoCancel(t, scope) ==
  /\ pc[t] = "idle"
  /\ led' = [led EXCEPT ![t] = ClearInFlight(@)]
  /\ pc'  = [pc EXCEPT ![t] = IF scope = "own" THEN "flatten_own" ELSE "flatten_all"]
  /\ UNCHANGED <<cur, res, durable, venueVars>>

\* flatten, first half: cancel every resting order in scope, forget what is in
\* flight. With "cancelFails" any of the cancels may be refused.
FlattenCancel(t, scope) ==
  /\ pc[t] = "idle"
  /\ \E S \in SUBSET OpenAt(ScopeTags(t, scope)) :
       /\ \/ S = OpenAt(ScopeTags(t, scope))
          \/ "cancelFails" \in Faults
          \/ ("readFails" \in Faults /\ S = {})
       /\ CancelAtVenue(S)
  /\ led' = [led EXCEPT ![t] = ClearInFlight(@)]
  /\ pc'  = [pc EXCEPT ![t] = IF scope = "own" THEN "flatten_own" ELSE "flatten_all"]
  /\ UNCHANGED <<cur, res, durable, wire, fq, held, fillNo, net>>

StrategyFlatten(t) ==
  /\ phase = "run"
  /\ \E scope \in FlattenScopes : FlattenCancel(t, scope)
  /\ UNCHANGED procVars

\* flatten, second half: net zero ends the call with the ledger as it is,
\* otherwise the ledger takes the venue's net and a close for it is sent.
FlattenPositions(t) ==
  /\ pc[t] \in {"flatten_own", "flatten_all"}
  /\ LET scope  == IF pc[t] = "flatten_own" THEN "own" ELSE "all"
         netVol == VenueNet(ScopeTags(t, scope)) IN
       \/ /\ netVol = 0 \/ "readFails" \in Faults
          /\ Return(t)
          /\ UNCHANGED <<led, ord>>
       \/ /\ netVol # 0
          /\ led' = [led EXCEPT ![t] = SyncFromVenue(@, netVol)]
          /\ Draw(t, IF netVol > 0 THEN "SELL" ELSE "BUY", "CLOSE", "MARKET", Abs(netVol))
          /\ UNCHANGED res
  /\ UNCHANGED <<procVars, journal, venueVars>>

-----------------------------------------------------------------------------
(* LiveRunner: start, recovery, reconciliation, shutdown, crash.           *)

\* What a process loses when it ends.
LoseMemory ==
  /\ led' = [t \in Tags |-> EmptyPosition]
  /\ pc'  = [t \in Tags |-> "idle"]
  /\ cur' = [t \in Tags |-> 0]
  /\ res' = [t \in Tags |-> "none"]
  /\ todo' = {} /\ seen' = {} /\ stopping' = {}
  /\ rstep' = [t \in Tags |-> "done"]

Crash ==
  /\ "crash" \in Faults
  /\ phase \notin {"down", "stopped"}
  /\ phase' = "down"
  /\ LoseMemory
  /\ wire' = IF "lateExecution" \in Faults THEN wire ELSE {}
  /\ UNCHANGED <<starts, durable, vst, fq, held, fillNo, net>>

\* run() up to the read of journal.pending().
Start ==
  /\ phase \in {"down", "stopped"} /\ starts < MaxStarts
  /\ phase' = "recover" /\ starts' = starts + 1
  /\ todo' = {o \in Ids : journal[o] \in Pending}
  /\ UNCHANGED <<rstep, seen, stopping, callVars, durable, venueVars>>

\* Rows are converged oldest first.
NextRow == {o \in todo : \A p \in todo : o <= p}

\* query_order_outcome: resting, filled, or not known (dead); mt5 turns a
\* failed read into "not known".
OutcomeIs(o, state) ==
  \/ /\ state = "DEAD"
     /\ vst[o] \in {"none", "refused", "canceled"} \/ (Ticketed /\ "readFails" \in Faults)
  \/ state = "IN_FLIGHT" /\ vst[o] = "open"
  \/ state = "FILLED" /\ vst[o] = "filled"

\* Mutant: recovery does not look among the resting orders.
RecoverRowSkipsResting ==
  /\ phase = "recover"
  /\ \E o \in NextRow :
     LET r     == ord[o]
         found == OnOrderAccepted(led[r.tag], o, r.side, r.offset, r.qty) IN
       /\ todo' = todo \ {o}
       /\ IF vst[o] = "filled"
          THEN /\ journal' = [journal EXCEPT ![o] = "FILLED"]
               /\ led' = [led EXCEPT ![r.tag] = OnOrderFilled(found, o, r.side, fq[o])]
          ELSE /\ journal' = [journal EXCEPT ![o] = "DEAD"]
               /\ UNCHANGED led
  /\ UNCHANGED <<phase, starts, rstep, seen, stopping, pc, cur, res, ord, venueVars>>

\* Mutant: an order that rests no more is taken for filled.
RecoverRowGoneIsFilled ==
  /\ phase = "recover"
  /\ \E o \in NextRow :
     LET r     == ord[o]
         found == OnOrderAccepted(led[r.tag], o, r.side, r.offset, r.qty) IN
       /\ todo' = todo \ {o}
       /\ IF vst[o] = "open"
          THEN /\ journal' = [journal EXCEPT ![o] = "IN_FLIGHT"]
               /\ led' = [led EXCEPT ![r.tag] = found]
          ELSE /\ journal' = [journal EXCEPT ![o] = "FILLED"]
               /\ led' = [led EXCEPT ![r.tag] = OnOrderFilled(found, o, r.side, r.qty)]
  /\ UNCHANGED <<phase, starts, rstep, seen, stopping, pc, cur, res, ord, venueVars>>

\* _recover, one row: the venue's outcome decides the row and the ledger. The
\* ledger is not yet visible to anyone, so the row is one step; an outcome the
\* venue reaches after the query is as if the query had come first.
RecoverRow ==
  /\ phase = "recover"
  /\ \E o \in NextRow :
     LET r     == ord[o]
         found == OnOrderAccepted(led[r.tag], o, r.side, r.offset, r.qty) IN
       /\ todo' = todo \ {o}
       /\ \/ /\ OutcomeIs(o, "DEAD")
             /\ journal' = [journal EXCEPT ![o] = "DEAD"]
             /\ UNCHANGED led
          \/ /\ OutcomeIs(o, "IN_FLIGHT")
             /\ journal' = [journal EXCEPT ![o] = "IN_FLIGHT"]
             /\ led' = [led EXCEPT ![r.tag] = found]
          \/ /\ OutcomeIs(o, "FILLED")
             /\ journal' = [journal EXCEPT ![o] = "FILLED"]
             /\ led' = [led EXCEPT ![r.tag] = OnOrderFilled(found, o, r.side, fq[o])]
  /\ UNCHANGED <<phase, starts, rstep, seen, stopping, pc, cur, res, ord, venueVars>>

\* The venue stays unreachable: _recover raises and run() goes to _shutdown.
RecoverFails ==
  /\ "readFails" \in Faults
  /\ phase = "recover" /\ todo # {}
  /\ phase' = "stop" /\ stopping' = Tags /\ todo' = {}
  /\ UNCHANGED <<starts, rstep, seen, callVars, durable, venueVars>>

RecoverDone ==
  /\ phase = "recover" /\ todo = {}
  /\ phase' = "reconcile" /\ rstep' = [t \in Tags |-> "positions"]
  /\ UNCHANGED <<starts, todo, seen, stopping, callVars, durable, venueVars>>

\* reconcile_positions, first read: a net that is not zero is taken over, no
\* position (or an empty answer after a failed read) changes nothing.
ReconcilePositions(t) ==
  /\ phase = "reconcile" /\ rstep[t] = "positions"
  /\ \/ /\ VenueNet({t}) # 0
        /\ led' = [led EXCEPT ![t] = SyncFromVenue(@, VenueNet({t}))]
     \/ /\ VenueNet({t}) = 0 \/ "readFails" \in Faults
        /\ UNCHANGED led
  /\ rstep' = [rstep EXCEPT ![t] = "orders"]
  /\ UNCHANGED <<phase, starts, todo, seen, stopping, pc, cur, res, durable, venueVars>>

\* The orders query_orders returns for tag t: binance ignores the magic.
RestingFor(t) == OpenAt(IF Ticketed THEN {t} ELSE Tags)

\* reconcile_positions, second read: the resting orders, one tag at a time.
ReconcileOrders(t) ==
  /\ phase = "reconcile" /\ rstep[t] = "orders"
  /\ \A u \in Tags : rstep[u] # "register"
  /\ \/ seen' = RestingFor(t)
     \/ "readFails" \in Faults /\ seen' = {}
  /\ rstep' = [rstep EXCEPT ![t] = "register"]
  /\ UNCHANGED <<phase, starts, todo, stopping, callVars, durable, venueVars>>

\* Each order read that the ledger does not track is put in flight, as an OPEN
\* whatever it is.
Register(t) ==
  /\ phase = "reconcile" /\ rstep[t] = "register"
  /\ \E o \in seen :
       /\ seen' = seen \ {o}
       /\ led' = IF IsTracked(led[t], o) THEN led
                 ELSE [led EXCEPT ![t] =
                         OnOrderAccepted(@, o, ord[o].side, "OPEN", ord[o].qty)]
  /\ UNCHANGED <<phase, starts, todo, rstep, stopping, pc, cur, res, durable, venueVars>>

Reconciled(t) ==
  /\ phase = "reconcile" /\ rstep[t] = "register" /\ seen = {}
  /\ rstep' = [rstep EXCEPT ![t] = "done"]
  /\ UNCHANGED <<phase, starts, todo, seen, stopping, callVars, durable, venueVars>>

RunStrategies ==
  /\ phase = "reconcile" /\ \A t \in Tags : rstep[t] = "done"
  /\ phase' = "run"
  /\ UNCHANGED <<starts, todo, rstep, seen, stopping, callVars, durable, venueVars>>

\* The deadline or SIGINT: every worker returns from its call and is joined.
Shutdown ==
  /\ phase = "run" /\ AllIdle
  /\ phase' = "stop" /\ stopping' = Tags
  /\ UNCHANGED <<starts, todo, rstep, seen, callVars, durable, venueVars>>

\* _shutdown flattens one strategy after another, whole symbol each time; a
\* flatten that raises is logged and the next one is tried.
ShutdownFlatten(t) ==
  /\ phase = "stop" /\ t \in stopping /\ AllIdle
  /\ stopping' = stopping \ {t}
  /\ UNCHANGED <<phase, starts, todo, rstep, seen>>
  /\ \/ FlattenCancel(t, "all")
     \/ "readFails" \in Faults /\ UNCHANGED <<callVars, durable, venueVars>>

Stopped ==
  /\ phase = "stop" /\ stopping = {} /\ AllIdle
  /\ phase' = "stopped"
  /\ LoseMemory
  /\ UNCHANGED <<starts, durable, venueVars>>

-----------------------------------------------------------------------------
(* The venue (external), as the executors in src see it.                   *)

\* The worker that waits for order o, if any, is given the status.
Reply(o, status) ==
  res' = [t \in Tags |->
            IF pc[t] = "sent" /\ cur[t] = o THEN status ELSE res[t]]

\* Positions a close on side s may take: mt5 takes the opposite positions of
\* the symbol oldest first, whatever their magic.
Opposite(s) == {p \in held : ord[p].side # s}

OldestFirst(S, all) == \A p \in S, q \in all \ S : fillNo[p] < fillNo[q]

\* Order o executes, entirely or, for a close, as far as there is a position.
Execute(o) ==
  LET r == ord[o] IN
  /\ vst' = [vst EXCEPT ![o] = "filled"]
  /\ \/ /\ r.offset = "OPEN"
        /\ fq' = [fq EXCEPT ![o] = r.qty]
        /\ net' = net + Signed(r.side, r.qty)
        /\ held' = IF Ticketed THEN held \cup {o} ELSE held
        /\ fillNo' = IF Ticketed
                     THEN [fillNo EXCEPT ![o] =
                             1 + Cardinality({p \in Ids : fillNo[p] # 0})]
                     ELSE fillNo
     \/ /\ r.offset = "CLOSE" /\ Ticketed
        /\ \E S \in SUBSET Opposite(r.side) :
             /\ S # {} /\ Cardinality(S) <= r.qty
             /\ "refuse" \in Faults \/ Cardinality(S) = r.qty \/ S = Opposite(r.side)
             /\ OldestFirst(S, Opposite(r.side))
             /\ held' = held \ S
             /\ fq'  = [fq EXCEPT ![o] = Cardinality(S)]
             /\ net' = net + Signed(r.side, Cardinality(S))
        /\ UNCHANGED fillNo
     \/ /\ r.offset = "CLOSE" /\ ~Ticketed
        /\ Signed(r.side, 1) * net < 0
        /\ LET k == IF r.qty < Abs(net) THEN r.qty ELSE Abs(net) IN
             /\ fq'  = [fq EXCEPT ![o] = k]
             /\ net' = net + Signed(r.side, k)
        /\ UNCHANGED <<held, fillNo>>

VenueExecutes(o) ==
  /\ o \in wire
  /\ ord[o].kind = "MARKET"
  /\ wire' = wire \ {o}
  /\ Execute(o)
  /\ Reply(o, "FILLED")
  /\ UNCHANGED <<procVars, led, pc, cur, durable>>

\* A limit order rests; binance may also answer a market order with NEW.
VenueRests(o) ==
  /\ o \in wire
  /\ ord[o].kind = "LIMIT" \/ ~Ticketed
  /\ wire' = wire \ {o}
  /\ vst' = [vst EXCEPT ![o] = "open"]
  /\ Reply(o, "IN_FLIGHT")
  /\ UNCHANGED <<procVars, led, pc, cur, durable, fq, held, fillNo, net>>

\* A close with nothing to close is always refused.
VenueRefuses(o) ==
  /\ o \in wire
  /\ \/ "refuse" \in Faults
     \/ /\ ord[o].offset = "CLOSE"
        /\ IF Ticketed THEN Opposite(ord[o].side) = {}
                       ELSE Signed(ord[o].side, 1) * net >= 0
  /\ wire' = wire \ {o}
  /\ vst' = [vst EXCEPT ![o] = "refused"]
  /\ Reply(o, "DEAD")
  /\ UNCHANGED <<procVars, led, pc, cur, durable, fq, held, fillNo, net>>

VenueFills(o) ==
  /\ o \in Drawn /\ vst[o] = "open"
  /\ Execute(o)
  /\ UNCHANGED <<procVars, callVars, durable, wire>>

\* A resting order ends on its own: expiry, or a cancel made elsewhere.
VenueExpires(o) ==
  /\ "expire" \in Faults
  /\ vst[o] = "open"
  /\ vst' = [vst EXCEPT ![o] = "canceled"]
  /\ UNCHANGED <<procVars, callVars, durable, wire, fq, held, fillNo, net>>

\* The stop-loss or take-profit of a position, or a close by hand.
VenueFuse(o) ==
  /\ "fuse" \in Faults
  /\ o \in held
  /\ held' = held \ {o}
  /\ net' = net - Signed(ord[o].side, 1)
  /\ UNCHANGED <<procVars, callVars, durable, wire, vst, fq, fillNo>>

-----------------------------------------------------------------------------

WorkerStep(t) ==
  \/ Accept(t) \/ Begin(t) \/ Submit(t) \/ Answered(t) \/ NoAnswer(t)
  \/ Finish(t) \/ Update(t) \/ FlattenPositions(t)

Worker(t) == Resolve(t) \/ Cancel(t) \/ StrategyFlatten(t) \/ WorkerStep(t)

Boot == \/ RecoverRow \/ RecoverFails \/ RecoverDone \/ RunStrategies
        \/ \E t \in Tags : \/ ReconcilePositions(t) \/ ReconcileOrders(t)
                           \/ Register(t) \/ Reconciled(t)

Runner == \/ Start \/ Boot \/ Crash \/ Shutdown \/ Stopped
          \/ \E t \in Tags : ShutdownFlatten(t)

VenueTakes(o) == VenueExecutes(o) \/ VenueRests(o) \/ VenueRefuses(o)
VenueStep(o)  == VenueTakes(o) \/ VenueFills(o) \/ VenueExpires(o) \/ VenueFuse(o)

Next == \/ \E t \in Tags : Worker(t)
        \/ Runner
        \/ \E o \in Ids : VenueStep(o)

Spec == Init /\ [][Next]_vars

-----------------------------------------------------------------------------
(* Safety.                                                                 *)

\* Write ahead: whatever the venue was ever sent has a row in the journal, so
\* that a restart can ask for it. The order of begin() and submit() in
\* send_order, through every crash and restart.
WriteAhead == \A o \in Ids : o \in wire \/ vst[o] # "none" => journal[o] # "none"

\* The in-flight exposure of a tag is the signed sum of its pending orders at
\* every moment: no path of send_order, flatten, recovery or reconciliation
\* adds or releases an order twice.
InFlightIsPending ==
  \A t \in Tags : led[t].inFlight =
    MapThenSumSet(LAMBDA e : Signed(e.side, e.qty), led[t].pending)

\* Once recovery is over, a row still SUBMITTING belongs to a call in progress:
\* recovery leaves no intent of an earlier life undecided.
RowsDecided ==
  phase \in {"reconcile", "run"} =>
    \A o \in Ids : journal[o] = "SUBMITTING" =>
      \E t \in Tags : cur[t] = o /\ pc[t] \in {"submit", "sent", "finish"}

\* A terminal row tells the truth: FILLED was executed by the venue, and DEAD
\* is not, nor ever will be, executing there.
JournalTruthful ==
  \A o \in Ids :
    /\ journal[o] = "FILLED" => vst[o] = "filled"
    /\ journal[o] = "DEAD" => o \notin wire /\ vst[o] \in {"none", "refused", "canceled"}

\* While strategies run, every order resting at the venue is tracked by the
\* ledger of its tag, whatever crashes, lost answers and restarts came before.
LiveOrdersTracked ==
  phase = "run" =>
    \A o \in Drawn : vst[o] = "open" => IsTracked(led[ord[o].tag], o)

\* What the ledger of a tag has in flight is what is on its way: every pending
\* order counted once, no intent of an earlier life undecided, no order at
\* rest forgotten.
LedgerAccounts == InFlightIsPending /\ RowsDecided /\ LiveOrdersTracked

\* At most one OPEN order of a tag rests at the venue on each side: the
\* DUPLICATE_OPEN check holds across lost answers, crashes and restarts.
OneLiveOpen ==
  \A o, p \in Drawn :
    /\ vst[o] = "open" /\ vst[p] = "open"
    /\ ord[o].offset = "OPEN" /\ ord[p].offset = "OPEN"
    /\ ord[o].tag = ord[p].tag /\ ord[o].side = ord[p].side
    => o = p

\* The lots of a tag's orders that the venue executed and the ledger still
\* keeps as pending.
Unbooked(t) ==
  MapThenSumSet(LAMBDA e : Signed(e.side, fq[e.id]),
                {e \in led[t].pending : vst[e.id] = "filled"})

\* Within the first life of the process nothing the venue executes is lost or
\* counted twice: filled volume plus executed orders still pending is the net.
ExposureKnown ==
  phase = "run" /\ starts = 1 /\ AllIdle =>
    \A t \in Tags : led[t].volume + Unbooked(t) = VenueNet({t})

\* Shutdown leaves no orphan: after the last flatten the venue holds neither a
\* position nor a resting order, unless the close that flatten sent, the last
\* order of all, was refused or cut short; even then no other order rests.
ShutdownLeavesFlat ==
  phase = "stopped" =>
    \/ held = {} /\ net = 0 /\ OpenAt(Tags) = {}
    \/ /\ ord # <<>>
       /\ LET o == Len(ord) IN
            /\ ord[o].offset = "CLOSE" /\ fq[o] < ord[o].qty
            /\ OpenAt(Tags) \subseteq {o}

\* A restart ends with the ledger agreeing with the venue: a tag with nothing
\* pending has the volume the venue holds for it.
RestartAgreesWithVenue ==
  [][phase = "reconcile" /\ phase' = "run" =>
       \A t \in Tags : led[t].pending = {} => led[t].volume = VenueNet({t})]_vars

-----------------------------------------------------------------------------
(* Refinement: the order path keeps the journal's promise.                  *)

Intents == INSTANCE OrderIntents WITH row <- journal, fate <- vst

\* Through every interleaving, crash and restart an order reaches the venue at
\* most once and only with a SUBMITTING row, rows are decided once, and never
\* against what the venue did.
ImplementsIntents == Intents!Spec

-----------------------------------------------------------------------------
(* Liveness. A worker, the runner's boot and the venue keep working: threads *)
(* are scheduled, and an executor call ends by an answer or its timeout.     *)

Fairness ==
  /\ \A t \in Tags : WF_vars(WorkerStep(t))
  /\ WF_vars(Boot)
  /\ \A o \in Ids : WF_vars(VenueTakes(o))
  /\ \A t \in Tags : WF_vars(ShutdownFlatten(t))
  /\ WF_vars(Stopped)

FairSpec == Spec /\ Fairness

\* Every intent journalled as SUBMITTING is decided, or the process is not up.
IntentsDecided ==
  \A o \in Ids : journal[o] = "SUBMITTING" ~>
                   journal[o] # "SUBMITTING" \/ phase \in {"down", "stopped"}
=============================================================================
