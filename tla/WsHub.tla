-------------------------------- MODULE WsHub ---------------------------------
(***************************************************************************)
(* The browser side of the gateway: the connections and subscriptions of   *)
(* the WebSocket hub (gateway/ws.py), the endpoint that serves a client    *)
(* (gateway/app.py), and the market source manager, which publishes the    *)
(* bars of a source to the subscribers and keeps the stream of the source  *)
(* on the topics that are subscribed (market_sources/manager.py).          *)
(*                                                                         *)
(* One event loop runs everything: a step is what happens between two      *)
(* awaits, and publish awaits each send while it iterates the very set     *)
(* that subscribe, unsubscribe and disconnect change.                      *)
(*                                                                         *)
(* Abstracted: one exchange; a topic is a symbol and timeframe the source  *)
(* supplies itself, the older forms of its name have no subscriber; a bar  *)
(* is its signature; a client that comes back is another client.           *)
(***************************************************************************)
EXTENDS Naturals, FiniteSets

CONSTANTS
  Clients,         \* ws ids
  Topics,          \* klines.{exchange}.{symbol}.{tf}
  WatchedTargets,  \* watched_targets: what the source streams without subscribers
  Signatures       \* signatures of bars

ASSUME HubAssumption == WatchedTargets \subseteq Topics

VARIABLES
  connections,  \* _connections
  endpoint,     \* per client: "none", "reads", "acks" or "over"
  socketUp,     \* the clients whose socket still takes data
  subscribers,  \* _subscriptions, {} for a topic that is no key
  stream,       \* the targets the stream loop was started with
  streamOn,     \* the dispatch loop has started it
  lastBar,      \* _last_bar: topic -> signature
  pub,          \* the publication under way
  missed        \* subscribers all along that a finished publication passed over

hubVars == <<connections, endpoint, socketUp, subscribers, stream, streamOn, lastBar, pub, missed>>

\* size: of the set when the iteration began; emptied: the set has become
\* empty and left the dictionary; visited: the ids the iteration has passed;
\* owed: those subscribed since it began; at: the one a send is awaited for.
NoPub == [topic |-> "none", size |-> 0, emptied |-> FALSE, visited |-> {}, owed |-> {},
          dead |-> {}, got |-> {}, at |-> "none"]

HubTypeOK ==
  /\ connections \subseteq Clients /\ socketUp \subseteq Clients
  /\ endpoint \in [Clients -> {"none", "reads", "acks", "over"}]
  /\ subscribers \in [Topics -> SUBSET Clients]
  /\ stream \subseteq Topics /\ streamOn \in BOOLEAN
  /\ pub.topic \in Topics \cup {"none"} /\ pub.at \in Clients \cup {"none"}

HubInit ==
  /\ connections = {} /\ endpoint = [c \in Clients |-> "none"] /\ socketUp = {}
  /\ subscribers = [t \in Topics |-> {}]
  /\ stream = {} /\ streamOn = FALSE
  /\ lastBar = [t \in Topics |-> "none"] /\ pub = NoPub /\ missed = {}

-----------------------------------------------------------------------------
(* Connections and subscriptions.                                          *)

\* What a publication sees of a change of the set it iterates.
Noticed(p, subs) ==
  IF p = NoPub THEN p
  ELSE [p EXCEPT !.emptied = @ \/ subs[p.topic] = {}, !.owed = @ \cap subs[p.topic]]

\* disconnect(ws_id) for every client of C.
Disconnect(C, p) ==
  /\ connections' = connections \ C
  /\ subscribers' = [t \in Topics |-> subscribers[t] \ C]
  /\ pub' = Noticed(p, subscribers')

ConnectClient(c) ==
  /\ endpoint[c] = "none"
  /\ connections' = connections \cup {c} /\ socketUp' = socketUp \cup {c}
  /\ endpoint' = [endpoint EXCEPT ![c] = "reads"]
  /\ UNCHANGED <<subscribers, stream, streamOn, lastBar, pub, missed>>

SocketBreaks(c) ==
  /\ c \in socketUp /\ socketUp' = socketUp \ {c}
  /\ UNCHANGED <<connections, endpoint, subscribers, stream, streamOn, lastBar, pub, missed>>

\* handle_message, up to the await of the acknowledgement; a client that a
\* publication has disconnected meanwhile gets none.
HandleMessage(c, t, wants) ==
  /\ endpoint[c] = "reads"
  /\ subscribers' = [subscribers EXCEPT ![t] = IF wants THEN @ \cup {c} ELSE @ \ {c}]
  /\ pub' = Noticed(pub, subscribers')
  /\ endpoint' = [endpoint EXCEPT ![c] = IF c \in connections THEN "acks" ELSE "reads"]
  /\ UNCHANGED <<connections, socketUp, stream, streamOn, lastBar, missed>>

Acknowledged(c) ==
  /\ endpoint[c] = "acks" /\ c \in socketUp
  /\ endpoint' = [endpoint EXCEPT ![c] = "reads"]
  /\ UNCHANGED <<connections, socketUp, subscribers, stream, streamOn, lastBar, pub, missed>>

\* The read or the acknowledgement raises: the endpoint disconnects and ends.
EndpointEnds(c) ==
  /\ endpoint[c] \in {"reads", "acks"} /\ c \notin socketUp
  /\ endpoint' = [endpoint EXCEPT ![c] = "over"]
  /\ Disconnect({c}, pub)
  /\ UNCHANGED <<socketUp, stream, streamOn, lastBar, missed>>

-----------------------------------------------------------------------------
(* Publication of a bar.                                                   *)

\* The iterator compares the size of the set with the one it began with.
Iterable(p) == ~p.emptied /\ Cardinality(subscribers[p.topic]) = p.size

\* "Set changed size during iteration": publish and publish_bar raise.
Raise(p) ==
  /\ ~Iterable(p)
  /\ missed' = p.owed \ (p.got \cup p.dead) /\ pub' = NoPub
  /\ UNCHANGED <<connections, subscribers>>

\* The next client a send is awaited for, after ids that have no connection;
\* an id that was added in place of a removed one may be visited or not.
Visit(p) ==
  /\ Iterable(p)
  /\ LET left == subscribers[p.topic] \ p.visited IN
     \E c \in left \cap connections, ghosts \in SUBSET (left \ connections) :
       pub' = [p EXCEPT !.visited = @ \cup ghosts \cup {c}, !.dead = @ \cup ghosts, !.at = c]
  /\ UNCHANGED <<connections, subscribers, missed>>

\* The iteration is over: the dead are disconnected.
Finish(p) ==
  /\ Iterable(p)
  /\ \E ghosts \in SUBSET (subscribers[p.topic] \ (p.visited \cup connections)) :
       /\ p.owed \subseteq p.visited \cup ghosts
       /\ missed' = p.owed \ (p.got \cup p.dead \cup ghosts)
       /\ Disconnect(p.dead \cup ghosts, NoPub)

Continue(p) == Raise(p) \/ Visit(p) \/ Finish(p)

\* publish_bar, up to the first await of publish: the signature is noted
\* first; without subscribers nothing is sent.
PublishBar(t, s) ==
  /\ pub = NoPub /\ streamOn /\ t \in stream /\ lastBar[t] # s
  /\ lastBar' = [lastBar EXCEPT ![t] = s]
  /\ IF subscribers[t] = {} THEN UNCHANGED <<connections, subscribers, pub, missed>>
     ELSE Continue([NoPub EXCEPT !.topic = t, !.size = Cardinality(subscribers[t]),
                                 !.owed = subscribers[t]])
  /\ UNCHANGED <<endpoint, socketUp, stream, streamOn>>

Sent ==
  /\ pub.at # "none"
  /\ Continue(IF pub.at \in socketUp THEN [pub EXCEPT !.got = @ \cup {pub.at}]
              ELSE [pub EXCEPT !.dead = @ \cup {pub.at}])
  /\ UNCHANGED <<endpoint, socketUp, stream, streamOn, lastBar>>

-----------------------------------------------------------------------------
(* The dispatch loop.                                                      *)

ActiveTargets ==
  LET wanted == {t \in Topics : subscribers[t] # {}} IN
  IF wanted = {} THEN WatchedTargets ELSE wanted

\* Mutant: as many topics are taken for the same topics.
DispatchBySize ==
  /\ ~streamOn \/ Cardinality(ActiveTargets) # Cardinality(stream)
  /\ stream' = ActiveTargets /\ streamOn' = TRUE /\ pub' = NoPub
  /\ UNCHANGED <<connections, endpoint, socketUp, subscribers, lastBar, missed>>

\* _dispatch_loop: the loop of the source is cancelled, with the publication
\* it awaits, and started again on the new targets.
Dispatch ==
  /\ ~streamOn \/ ActiveTargets # stream
  /\ stream' = ActiveTargets /\ streamOn' = TRUE /\ pub' = NoPub
  /\ UNCHANGED <<connections, endpoint, socketUp, subscribers, lastBar, missed>>

HubNext ==
  \/ \E c \in Clients :
       \/ ConnectClient(c) \/ SocketBreaks(c) \/ Acknowledged(c) \/ EndpointEnds(c)
       \/ \E t \in Topics, wants \in BOOLEAN : HandleMessage(c, t, wants)
  \/ \E t \in Topics, s \in Signatures : PublishBar(t, s)
  \/ Sent \/ Dispatch

HubSpec == HubInit /\ [][HubNext]_hubVars

-----------------------------------------------------------------------------
(* Properties.                                                             *)

\* A topic that stays subscribed is streamed in the end: the dispatch loop
\* polls the subscriptions for ever (MarketSourceManager._dispatch_loop).
StreamFollows ==
  \A t \in Topics : subscribers[t] # {} ~> (t \in stream \/ subscribers[t] = {})

\* publish sends to all subscribers of the topic, says its docstring: a client
\* subscribed all along is sent the bar or found dead (ConnectionManager.publish).
\* No run checks it, since the code does not keep it (README, section 5).
AllSubscribersServed == missed = {}
==============================================================================
