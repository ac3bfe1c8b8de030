---------------------------- MODULE ExchangeStream ----------------------------
(***************************************************************************)
(* The market adapters of the exchanges (core/market_engine/adapters/      *)
(* base.py, binance.py, binance_futures.py, okx.py): streams are           *)
(* subscribed and given up while a loop dials, receives and dials again    *)
(* after a backoff. Binance and its futures name the streams in the URL    *)
(* they dial; OKX sends its list once the connection is up, and keeps a    *)
(* task that pings.                                                        *)
(*                                                                         *)
(* Abstracted: what a message says; connect and disconnect of the REST     *)
(* client; a send is taken by the exchange before anything else happens.   *)
(***************************************************************************)
EXTENDS Integers, Sequences, FiniteSets, SequencesExt

CONSTANTS
  Adapters,     \* of "binance", "futures", "okx"
  Streams,      \* the streams that can be subscribed
  MaxCallbacks, MaxAttempts, MaxLinkBreaks \* bounds

ASSUME StreamAssumption ==
  /\ Adapters \subseteq {"binance", "futures", "okx"}
  /\ {MaxCallbacks, MaxAttempts, MaxLinkBreaks} \subseteq Nat

VARIABLES
  adapter,
  subscribed,       \* _subscriptions, _sub_args
  callbacks,    \* _kline_callbacks: the streams they were registered for
  loop,         \* _ws_loop: "off", "dial", "up", "backoff", "stopped"
  socket,       \* _ws: "none", "open", "closed"
  named,        \* the streams in the URL that is dialled
  flowing,       \* the streams the exchange sends on the open connection
  dials,     \* _reconnect_count
  pings,        \* the ping tasks that have not ended
  heard,        \* the callbacks a message was passed to, the last one
  breaks,
  duringDial    \* history: the streams whose subscription changed during the dial

streamVars == <<adapter, subscribed, callbacks, loop, socket, named, flowing, dials,
                pings, heard, breaks, duringDial>>

ExchangeStreamTypeOK ==
  /\ subscribed \subseteq Streams /\ flowing \subseteq Streams /\ named \subseteq Streams
  /\ loop \in {"off", "dial", "up", "backoff", "stopped"}
  /\ socket \in {"none", "open", "closed"}
  /\ dials \in 0 .. MaxAttempts /\ pings \in Nat

StreamInit ==
  /\ adapter \in Adapters
  /\ subscribed = {} /\ callbacks = <<>> /\ loop = "off" /\ socket = "none"
  /\ named = {} /\ flowing = {} /\ dials = 0 /\ pings = 0
  /\ heard = <<>> /\ breaks = 0 /\ duringDial = {}

-----------------------------------------------------------------------------
(* Subscriptions. A send on a socket that closed raises to the caller, who *)
(* leaves the subscription behind; Binance looks whether it is open first. *)

Noted(s) == duringDial' = IF loop = "dial" THEN duringDial \cup {s} ELSE duringDial

SubscribeStream(s) ==
  /\ loop # "stopped" /\ Len(callbacks) < MaxCallbacks
  /\ subscribed' = subscribed \cup {s}
  /\ callbacks' = Append(callbacks, s)
  /\ flowing' = IF socket = "open" THEN flowing \cup {s} ELSE flowing
  /\ Noted(s)
  /\ UNCHANGED <<adapter, loop, socket, named, dials, pings, heard, breaks>>

\* Binance gives up a stream whether or not it had it; OKX one of its list.
UnsubscribeName(s) ==
  /\ adapter # "okx" /\ loop # "stopped"
  /\ subscribed' = subscribed \ {s}
  /\ flowing' = IF socket = "open" THEN flowing \ {s} ELSE flowing
  /\ Noted(s)
  /\ UNCHANGED <<adapter, callbacks, loop, socket, named, dials, pings, heard, breaks>>

UnsubscribeArg(s) ==
  /\ adapter = "okx" /\ loop # "stopped" /\ s \in subscribed
  /\ subscribed' = subscribed \ {s}
  /\ flowing' = IF socket = "open" THEN flowing \ {s} ELSE flowing
  /\ Noted(s)
  /\ UNCHANGED <<adapter, callbacks, loop, socket, named, dials, pings, heard, breaks>>

-----------------------------------------------------------------------------
(* The loop.                                                               *)

\* start_ws: nothing starts without a subscription.
StartStream ==
  /\ loop = "off" /\ subscribed # {}
  /\ loop' = "dial" /\ named' = subscribed /\ duringDial' = {}
  /\ UNCHANGED <<adapter, subscribed, callbacks, socket, flowing, dials, pings, heard, breaks>>

\* The URL names what was subscribed when it was dialled.
ConnectedByName ==
  /\ adapter # "okx" /\ loop = "dial"
  /\ loop' = "up" /\ socket' = "open" /\ dials' = 0
  /\ flowing' = named
  /\ UNCHANGED <<adapter, subscribed, callbacks, named, pings, heard, breaks, duringDial>>

\* OKX sends the whole list, and starts one more ping task.
ConnectedByArgs ==
  /\ adapter = "okx" /\ loop = "dial"
  /\ loop' = "up" /\ socket' = "open" /\ dials' = 0
  /\ flowing' = subscribed
  /\ pings' = pings + 1
  /\ UNCHANGED <<adapter, subscribed, callbacks, named, heard, breaks, duringDial>>

DialFails ==
  /\ loop = "dial" /\ dials < MaxAttempts
  /\ loop' = "backoff" /\ dials' = dials + 1
  /\ UNCHANGED <<adapter, subscribed, callbacks, socket, named, flowing, pings, heard, breaks,
                 duringDial>>

\* A connection closed in good order is dialled again at once.
LinkEnds(clean) ==
  /\ loop = "up" /\ breaks < MaxLinkBreaks /\ dials < MaxAttempts
  /\ socket' = "closed" /\ flowing' = {} /\ breaks' = breaks + 1
  /\ IF clean
     THEN loop' = "dial" /\ named' = subscribed /\ duringDial' = {} /\ UNCHANGED dials
     ELSE loop' = "backoff" /\ dials' = dials + 1 /\ UNCHANGED <<named, duringDial>>
  /\ UNCHANGED <<adapter, subscribed, callbacks, pings, heard>>

BackoffOver ==
  /\ loop = "backoff"
  /\ loop' = "dial" /\ named' = subscribed /\ duringDial' = {}
  /\ UNCHANGED <<adapter, subscribed, callbacks, socket, flowing, dials, pings, heard, breaks>>

\* A message of one stream goes to the callbacks of all, in order, up to one
\* that raises.
Heard(s) ==
  /\ loop = "up" /\ s \in flowing
  /\ \E n \in 0 .. Len(callbacks) : heard' = SubSeq(callbacks, 1, n)
  /\ UNCHANGED <<adapter, subscribed, callbacks, loop, socket, named, flowing, dials, pings, breaks,
                 duringDial>>

HeardEvent(s) == adapter # "okx" /\ Heard(s)

\* OKX packs several rows in a message, each dispatched like one.
HeardPush(s) == adapter = "okx" /\ Heard(s)

\* A ping task wakes: it ends where its send raises, on whatever socket there
\* is by now.
PingFires ==
  /\ pings > 0
  /\ pings' = IF socket = "open" THEN pings ELSE pings - 1
  /\ UNCHANGED <<adapter, subscribed, callbacks, loop, socket, named, flowing, dials, heard, breaks,
                 duringDial>>

\* disconnect cancels the loop and the last ping task.
StopStream ==
  /\ loop # "stopped" /\ loop' = "stopped"
  /\ socket' = "none" /\ flowing' = {}
  /\ pings' = IF pings = 0 THEN 0 ELSE pings - 1
  /\ UNCHANGED <<adapter, subscribed, callbacks, named, dials, heard, breaks,
                 duringDial>>

StreamNext ==
  \/ \E s \in Streams : SubscribeStream(s) \/ UnsubscribeName(s) \/ UnsubscribeArg(s) \/ HeardEvent(s)
                        \/ HeardPush(s)
  \/ StartStream \/ ConnectedByName \/ ConnectedByArgs \/ DialFails
  \/ \E clean \in BOOLEAN : LinkEnds(clean)
  \/ BackoffOver \/ PingFires \/ StopStream

StreamSpec == StreamInit /\ [][StreamNext]_streamVars

-----------------------------------------------------------------------------
(* Properties.                                                             *)

\* On an open connection the exchange sends what is subscribed, through
\* breaks and changes at any time (_ws_connect, _send_subscribe): OKX without
\* exception, Binance except for the streams that changed while the URL was
\* being dialled, which wait for the next connection.
SubscribedIsServed ==
  loop = "up" => \A s \in Streams : \/ (s \in subscribed) = (s \in flowing)
                                  \/ (adapter # "okx" /\ s \in duringDial)
===============================================================================
