-------------------------------- MODULE Sizing --------------------------------
(***************************************************************************)
(* What becomes of a quantity between a strategy and two venues: the       *)
(* backends load what their venues say of the symbol, the resolver of the  *)
(* lead checks and rounds what a strategy asks for, and the order agent    *)
(* scales what the lead broadcasts and sends it through a resolver of its  *)
(* own.  Quantities are counted in units finer than a lot step.            *)
(*                                                                         *)
(* Abstracted: prices, which are rounded to the tick by the same           *)
(* operation; orders at rest (OrderPath has them): a venue executes an     *)
(* order at once or refuses it, for whatever reason of its own (the mode   *)
(* of the account, a minimal notional).                                    *)
(***************************************************************************)
EXTENDS Integers, Sequences

CONSTANTS
  SizeVenues,    \* what a venue says of the symbol: [kind, listed, step, min, max, mode]
  Asked,         \* quantities a strategy asks for
  Ratios,        \* scales of the follower, <<numerator, denominator>>
  MaxSized       \* orders of the lead (bound)

ASSUME SizingAssumption ==
  /\ \A v \in SizeVenues : /\ v.step \in Nat \ {0} /\ {v.min, v.max, v.mode} \subseteq Nat
                           /\ v.min % v.step = 0 /\ v.max % v.step = 0
  /\ Ratios \subseteq (Nat \ {0}) \X (Nat \ {0}) /\ Asked \subseteq Nat

VARIABLES
  sizeVenue,     \* the venue of each party
  scaleBy,         \* the follower's scale
  hostStage,     \* how far each party's backend is
  sizeSpec,      \* what it loaded of the symbol
  holding,       \* signed position of each party
  intentsSent,   \* what the lead broadcast and the follower has not handled
  leadOrders,         \* orders of the lead so far
  lastLeg,       \* the last order that went to a venue
  roundings,     \* scaled orders since both were flat
  refusal        \* since both were flat, an order was refused on one side

sizingVars == <<sizeVenue, scaleBy, hostStage, sizeSpec, holding, intentsSent,
                leadOrders, lastLeg, roundings, refusal>>

Parties == {"lead", "follower"}
Size(n) == IF n < 0 THEN -n ELSE n
Toward(side, qty) == IF side = "BUY" THEN qty ELSE -qty
NoSpec == [step |-> 0, min |-> 0, max |-> 0, canShort |-> FALSE]
NoLeg  == [party |-> "lead", offset |-> "OPEN", qty |-> 0, before |-> 0]

\* A terminal tells by its trade mode whether it takes short positions, the
\* exchange always does.
SpecLoaded(v) ==
  [step |-> v.step, min |-> v.min, max |-> v.max,
   canShort |-> v.kind = "binance" \/ v.mode \in 2 .. 4]

\* Mutant: a quantity is cut down to the step.
CutTo(n, d, step) == IF step <= 0 THEN n \div d ELSE (n \div (d * step)) * step

\* n/d to the nearest multiple of the step, halves up.
RoundedTo(n, d, step) ==
  IF step <= 0 THEN n \div d ELSE ((2 * n + d * step) \div (2 * d * step)) * step

\* The checks before the rounding and after it.
SizeAccepted(req, spec, held) ==
  /\ req.qty > 0
  /\ spec.step > 0 => req.qty >= spec.min
  /\ spec.max > 0 => req.qty <= spec.max
  /\ req.side = "SELL" /\ req.offset = "OPEN" => spec.canShort
  /\ req.offset = "CLOSE" => held # 0 /\ req.qty <= Size(held)
  /\ LET qty == RoundedTo(req.qty, 1, spec.step)
     IN  qty > 0 /\ (spec.min > 0 => qty >= spec.min)

\* The one leg of an order, an opening one and a closing one alike.
LegOf(req, spec) == [req EXCEPT !.qty = RoundedTo(req.qty, 1, spec.step)]

SizingInit ==
  /\ sizeVenue \in [Parties -> SizeVenues]
  /\ scaleBy \in Ratios
  /\ hostStage = [p \in Parties |-> "down"]
  /\ sizeSpec = [p \in Parties |-> NoSpec]
  /\ holding = [p \in Parties |-> 0]
  /\ intentsSent = <<>> /\ leadOrders = 0 /\ lastLeg = NoLeg
  /\ roundings = 0 /\ refusal = FALSE

HostMoves(p, stage) ==
  /\ hostStage' = [hostStage EXCEPT ![p] = stage]
  /\ UNCHANGED <<sizeVenue, scaleBy, holding, intentsSent, leadOrders, lastLeg, roundings, refusal>>

\* The terminal or the exchange is reached or the backend fails; that the
\* clock, the position mode and the leverage were set is not insisted on.
ConnectHost(p) ==
  /\ hostStage[p] = "down"
  /\ \E stage \in {"connected", "failed"} : HostMoves(p, stage)
  /\ UNCHANGED sizeSpec

\* A symbol the venue does not list ends the start.
LoadSizes(p) ==
  /\ hostStage[p] = "connected"
  /\ IF sizeVenue[p].listed
     THEN HostMoves(p, "trading") /\ sizeSpec' = [sizeSpec EXCEPT ![p] = SpecLoaded(sizeVenue[p])]
     ELSE HostMoves(p, "failed") /\ UNCHANGED sizeSpec

\* Nothing is left of earlier refusals and roundings once both are flat and
\* the follower has handled everything.
Settled(left, refused, rounded) ==
  LET clean == left = <<>> /\ \A p \in Parties : holding'[p] = 0
  IN  /\ refusal' = (~clean /\ (refusal \/ refused))
      /\ roundings' = IF clean THEN 0 ELSE roundings + rounded

\* A request of one party: what the resolver lets through is a leg at the
\* venue, which takes it or refuses it.
Traded(p, req, left, rounded) ==
  \E taken \in BOOLEAN :
    LET ok  == SizeAccepted(req, sizeSpec[p], holding[p])
        leg == LegOf(req, sizeSpec[p])
    IN  /\ taken => ok
        /\ holding' = IF taken THEN [holding EXCEPT ![p] = @ + Toward(leg.side, leg.qty)] ELSE holding
        /\ lastLeg' = IF ok THEN [party |-> p, offset |-> leg.offset, qty |-> leg.qty, before |-> holding[p]]
                            ELSE lastLeg
        /\ Settled(left, ~taken, rounded)

Running == \A p \in Parties : hostStage[p] = "trading"
NetClose(net) == [side |-> IF net > 0 THEN "SELL" ELSE "BUY", offset |-> "CLOSE", qty |-> Size(net)]

\* What the resolver lets through is broadcast as it goes to the venue.
LeadSends(side, offset, qty) ==
  LET req == [side |-> side, offset |-> offset, qty |-> qty]
  IN  /\ Running /\ leadOrders < MaxSized
      /\ offset = "CLOSE" => side = NetClose(holding["lead"]).side
      /\ SizeAccepted(req, sizeSpec["lead"], holding["lead"])
      /\ intentsSent' = Append(intentsSent, LegOf(req, sizeSpec["lead"]))
      /\ leadOrders' = leadOrders + 1
      /\ Traded("lead", req, intentsSent', 0)
      /\ UNCHANGED <<sizeVenue, scaleBy, hostStage, sizeSpec>>

\* A flatten is broadcast as such, the close it sends is not.
LeadFlattens ==
  /\ Running /\ leadOrders < MaxSized /\ holding["lead"] # 0
  /\ intentsSent' = Append(intentsSent, [side |-> "SELL", offset |-> "FLATTEN", qty |-> 0])
  /\ leadOrders' = leadOrders + 1
  /\ Traded("lead", NetClose(holding["lead"]), intentsSent', 0)
  /\ UNCHANGED <<sizeVenue, scaleBy, hostStage, sizeSpec>>

\* The lead's quantity by the follower's scale, to the follower's step.
ScaledLeg(leg) == RoundedTo(leg.qty * scaleBy[1], scaleBy[2], sizeSpec["follower"].step)

\* A leg that is scaled to nothing is skipped; a flatten closes what there is.
FollowerActs ==
  /\ Running /\ intentsSent # <<>>
  /\ intentsSent' = Tail(intentsSent)
  /\ LET leg == Head(intentsSent)
         net == holding["follower"]
     IN  \/ /\ leg.offset = "FLATTEN" /\ net # 0
            /\ Traded("follower", NetClose(net), intentsSent', 0)
         \/ /\ leg.offset = "FLATTEN" /\ net = 0
            /\ UNCHANGED <<holding, lastLeg>> /\ Settled(intentsSent', FALSE, 0)
         \/ /\ leg.offset # "FLATTEN" /\ ScaledLeg(leg) = 0
            /\ UNCHANGED <<holding, lastLeg>> /\ Settled(intentsSent', FALSE, 1)
         \/ /\ leg.offset # "FLATTEN" /\ ScaledLeg(leg) > 0
            /\ Traded("follower", [leg EXCEPT !.qty = ScaledLeg(leg)], intentsSent', 1)
  /\ UNCHANGED <<sizeVenue, scaleBy, hostStage, sizeSpec, leadOrders>>

SizingNext ==
  \/ \E p \in Parties : ConnectHost(p) \/ LoadSizes(p)
  \/ \E side \in {"BUY", "SELL"}, offset \in {"OPEN", "CLOSE"}, qty \in Asked : LeadSends(side, offset, qty)
  \/ LeadFlattens \/ FollowerActs

-------------------------------------------------------------------------------
\* Every order that reaches a venue has a size its lot filter allows, and a
\* closing one is no larger than the position it was checked against, although
\* the quantity is rounded after it was checked.
VenueTakesSizes ==
  lastLeg.qty > 0 =>
    LET v == sizeVenue[lastLeg.party]
    IN  /\ lastLeg.qty % v.step = 0 /\ lastLeg.qty >= v.min
        /\ v.max > 0 => lastLeg.qty <= v.max
        /\ lastLeg.offset = "CLOSE" => lastLeg.qty <= Size(lastLeg.before)

\* A follower that was refused nothing and has handled everything differs from
\* the scaled position of its lead by no more than half a step per order.
DriftIsRounding ==
  intentsSent = <<>> /\ ~refusal =>
    2 * Size(scaleBy[2] * holding["follower"] - scaleBy[1] * holding["lead"])
      <= scaleBy[2] * sizeSpec["follower"].step * roundings

\* A quantity survives the two roundings on its way (resolver.py:355 and
\* order_agent.py:416).
SizesHold == VenueTakesSizes /\ DriftIsRounding
===============================================================================
