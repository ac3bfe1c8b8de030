------------------------------- MODULE DerivedBars -------------------------------
(***************************************************************************)
(* The live bar of a derived timeframe (gateway/market_sources/manager.py: *)
(* publish_bar, _feed_derived, _seed_derived_state): every update of a     *)
(* base bar is folded into the bucket it belongs to; a bucket begun in the *)
(* middle is first filled from history, with an await.                     *)
(*                                                                         *)
(* The terminal is polled by one loop; the binance source has its stream   *)
(* and, while that is down, a poll whose answer may come after the stream  *)
(* is back. Abstracted: a bar's content is its volume, which grows while   *)
(* the bar is open, as its high does and its low falls.                    *)
(***************************************************************************)
EXTENDS Integers, FiniteSets, FiniteSetsExt

CONSTANTS
  Paths,        \* of "stream" and "poll"
  BucketSize,   \* base bars of a bucket
  LastBase,     \* bound: base bars there are
  MaxVolume     \* bound: volume of a base bar

ASSUME DerivedAssumption ==
  /\ Paths \subseteq {"stream", "poll"}
  /\ BucketSize \in Nat \ {0} /\ LastBase \in Nat /\ MaxVolume \in Nat

BaseBars == 0 .. LastBase
NoBase   == 0 - 1
NoState  == [label |-> NoBase, carried |-> 0, base |-> NoBase, inBase |-> 0]
NoUpdate == [step |-> "none", base |-> NoBase, volume |-> 0]

VARIABLES
  volume,     \* the source's base bars
  formingBase,    \* the base bar that is open
  update,     \* per path: the update it is publishing
  lastSig,    \* the last update published, against duplicates
  state,      \* _derived_state: label, base_vol, day_ts, day_vol
  folded      \* ghost: per base bar of the bucket: the volume it was last read with

derivedVars == <<volume, formingBase, update, lastSig, state, folded>>

DerivedTypeOK ==
  /\ volume \in [BaseBars -> 0 .. MaxVolume] /\ formingBase \in BaseBars
  /\ DOMAIN update = Paths
  /\ state.label \in BaseBars \cup {NoBase}
  /\ folded \in [BaseBars -> 0 .. MaxVolume]

DerivedInit ==
  /\ volume = [b \in BaseBars |-> 0] /\ formingBase = 0
  /\ update = [p \in Paths |-> NoUpdate]
  /\ lastSig = NoUpdate
  /\ state = NoState
  /\ folded = [b \in BaseBars |-> 0]

\* bucket_label for the intraday multiples.
BucketLabel(b) == (b \div BucketSize) * BucketSize

BaseTrade ==
  /\ volume[formingBase] < MaxVolume
  /\ volume' = [volume EXCEPT ![formingBase] = @ + 1]
  /\ UNCHANGED <<formingBase, update, lastSig, state, folded>>

NextBase ==
  /\ formingBase < LastBase /\ formingBase' = formingBase + 1
  /\ UNCHANGED <<volume, update, lastSig, state, folded>>

\* An update leaves the source with the bar as it is then.
ReadBase(p) ==
  /\ update[p].step = "none"
  /\ update' = [update EXCEPT ![p] =
       [step |-> "read", base |-> formingBase, volume |-> volume[formingBase]]]
  /\ UNCHANGED <<volume, formingBase, lastSig, state, folded>>

\* The sum over the bucket, the fold of the base bars into it.
Fold(st, b, v) ==
  [ label   |-> st.label,
    carried |-> IF st.base # b THEN st.carried + st.inBase ELSE st.carried,
    base    |-> b,
    inBase  |-> v ]

Idled(p) == update' = [update EXCEPT ![p] = NoUpdate]

\* publish_bar drops an update that has the prices of the last one, whatever
\* its volume.
DropUpdate(p) ==
  /\ update[p].step = "read" /\ update[p].base = lastSig.base
  /\ Idled(p)
  /\ UNCHANGED <<volume, formingBase, lastSig, state, folded>>

\* One of a bucket that is not the state's waits for history.
PublishBar(p) ==
  /\ update[p].step = "read" /\ update[p] # lastSig
  /\ lastSig' = update[p]
  /\ LET u == update[p] IN
     IF state.label = BucketLabel(u.base)
     THEN /\ state' = Fold(state, u.base, u.volume)
          /\ folded' = [folded EXCEPT ![u.base] = u.volume]
          /\ Idled(p)
     ELSE /\ update' = [update EXCEPT ![p].step = "seed"]
          /\ UNCHANGED <<state, folded>>
  /\ UNCHANGED <<volume, formingBase>>

\* _seed_derived_state: the bars of the bucket before this one, the last of
\* which the cache may have from a moment before it closed, or none, when the
\* fetch fails.
SeedState(p) ==
  /\ update[p].step = "seed"
  /\ LET u      == update[p]
         label  == BucketLabel(u.base)
         before == {b \in BaseBars : label <= b /\ b < u.base}
     IN \E known \in {{}, before} : \E last \in 0 .. MaxVolume :
          LET read == [b \in BaseBars |->
                         IF b \notin known THEN 0
                         ELSE IF b = u.base - 1 THEN last ELSE volume[b]]
          IN /\ known # {} => last <= volume[u.base - 1]
             /\ state' = Fold([label |-> label, base |-> NoBase, inBase |-> 0,
                               carried |-> MapThenSumSet(LAMBDA b : read[b], BaseBars)],
                              u.base, u.volume)
             /\ folded' = [read EXCEPT ![u.base] = u.volume]
  /\ Idled(p)
  /\ UNCHANGED <<volume, formingBase, lastSig>>

\* The subscriptions change: the loop is cancelled where it is and begins anew.
RestartStream(p) ==
  /\ update[p].step # "none"
  /\ Idled(p)
  /\ UNCHANGED <<volume, formingBase, lastSig, state, folded>>

DerivedNext ==
  \/ BaseTrade \/ NextBase
  \/ \E p \in Paths : ReadBase(p) \/ DropUpdate(p) \/ PublishBar(p) \/ SeedState(p) \/ RestartStream(p)

DerivedSpec == DerivedInit /\ [][DerivedNext]_derivedVars

\* The live bar of a bucket is the sum of its base bars, each as it was last
\* read and counted once, however many updates there were, whichever base bars
\* were missed, and wherever the loop was restarted (_feed_derived's carry).
DerivedIsAggregate ==
  state # NoState =>
    state.carried + state.inBase = MapThenSumSet(LAMBDA b : folded[b], BaseBars)
==============================================================================
