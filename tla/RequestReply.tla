------------------------------ MODULE RequestReply ------------------------------
(***************************************************************************)
(* Requests over ZeroMQ (protocol/transport/zmq_transport.py): the         *)
(* coroutines of a strategy process that ask a service through one         *)
(* ZmqReqClient (core/strategy_engine/clients.py), and the serve loop of   *)
(* the ZmqRepServer. The client's socket is a DEALER, so a request that    *)
(* timed out does not block the next one; nothing in a reply names its     *)
(* request.                                                                *)
(*                                                                         *)
(* Abstracted: one client process; a request is its number, a reply the    *)
(* number of the request it answers. The sockets keep the order.           *)
(***************************************************************************)
EXTENDS Integers, Sequences, FiniteSets

CONSTANTS
  Coroutines,     \* the coroutines of the strategy that use the client
  MaxRequests,    \* bound: requests sent
  HandlerRaises   \* whether a handler may raise

ASSUME RequestAssumption == MaxRequests \in Nat /\ HandlerRaises \in BOOLEAN

VARIABLES
  sent,            \* requests sent so far
  mine, reply,     \* per coroutine: its request, the reply it was given
  awaiting,        \* per coroutine: "none", "poll" or "recv"
  requestQ,        \* requests on their way to the server
  replyQ,          \* replies on their way to the client
  serving,         \* the request the server's handler works on, 0 for none
  stuckServer,     \* the REP socket owes a send that will never come
  timedOut         \* requests given up

requestVars == <<sent, mine, reply, awaiting, requestQ, replyQ, serving,
                 stuckServer, timedOut>>

Requests == 1 .. MaxRequests

RequestTypeOK ==
  /\ sent \in 0 .. MaxRequests
  /\ mine \in [Coroutines -> 0 .. MaxRequests]
  /\ reply \in [Coroutines -> 0 .. MaxRequests]
  /\ awaiting \in [Coroutines -> {"none", "poll", "recv"}]
  /\ requestQ \in Seq(Requests) /\ replyQ \in Seq(Requests)
  /\ serving \in 0 .. MaxRequests /\ stuckServer \in BOOLEAN
  /\ timedOut \subseteq Requests

RequestInit ==
  /\ sent = 0
  /\ mine = [c \in Coroutines |-> 0] /\ reply = [c \in Coroutines |-> 0]
  /\ awaiting = [c \in Coroutines |-> "none"]
  /\ requestQ = <<>> /\ replyQ = <<>>
  /\ serving = 0 /\ stuckServer = FALSE
  /\ timedOut = {}

-----------------------------------------------------------------------------
(* ZmqReqClient.request: send, poll with a timeout, receive without one.   *)

SendRequest(c) ==
  /\ awaiting[c] = "none" /\ sent < MaxRequests
  /\ sent' = sent + 1
  /\ mine' = [mine EXCEPT ![c] = sent'] /\ reply' = [reply EXCEPT ![c] = 0]
  /\ awaiting' = [awaiting EXCEPT ![c] = "poll"]
  /\ requestQ' = Append(requestQ, sent')
  /\ UNCHANGED <<replyQ, serving, stuckServer, timedOut>>

\* The coroutines polling one socket are woken in the order they came.
Woken(c) ==
  /\ awaiting[c] = "poll" /\ replyQ # <<>>
  /\ \A d \in Coroutines : awaiting[d] = "poll" => mine[c] <= mine[d]
  /\ awaiting' = [awaiting EXCEPT ![c] = "recv"]
  /\ UNCHANGED <<sent, mine, reply, requestQ, replyQ, serving, stuckServer,
                 timedOut>>

TakeReply(c) ==
  /\ awaiting[c] = "recv" /\ replyQ # <<>>
  /\ \A d \in Coroutines : awaiting[d] = "recv" => mine[c] <= mine[d]
  /\ reply' = [reply EXCEPT ![c] = Head(replyQ)] /\ replyQ' = Tail(replyQ)
  /\ awaiting' = [awaiting EXCEPT ![c] = "none"]
  /\ UNCHANGED <<sent, mine, requestQ, serving, stuckServer, timedOut>>

\* TimeoutError: the request stays with the server.
RequestTimesOut(c) ==
  /\ awaiting[c] = "poll" /\ replyQ = <<>>
  /\ awaiting' = [awaiting EXCEPT ![c] = "none"]
  /\ timedOut' = timedOut \cup {mine[c]}
  /\ UNCHANGED <<sent, mine, reply, requestQ, replyQ, serving, stuckServer>>

-----------------------------------------------------------------------------
(* ZmqRepServer._serve_loop.                                               *)

ServeRequest ==
  /\ serving = 0 /\ ~stuckServer /\ requestQ # <<>>
  /\ serving' = Head(requestQ) /\ requestQ' = Tail(requestQ)
  /\ UNCHANGED <<sent, mine, reply, awaiting, replyQ, stuckServer, timedOut>>

\* Mutant: the reply is sent by the branch and once more after it.
SendReplyTwice ==
  /\ serving # 0
  /\ replyQ' = replyQ \o <<serving, serving>> /\ serving' = 0
  /\ UNCHANGED <<sent, mine, reply, awaiting, requestQ, stuckServer, timedOut>>

\* The answer of the handler, or the error message when none is registered.
SendReply ==
  /\ serving # 0
  /\ replyQ' = Append(replyQ, serving) /\ serving' = 0
  /\ UNCHANGED <<sent, mine, reply, awaiting, requestQ, stuckServer, timedOut>>

\* A handler that raises is logged; a REP socket that has received must send
\* before it can receive again, so every later recv fails.
HandlerFails ==
  /\ HandlerRaises /\ serving # 0
  /\ serving' = 0 /\ stuckServer' = TRUE
  /\ UNCHANGED <<sent, mine, reply, awaiting, requestQ, replyQ, timedOut>>

RequestNext ==
  \/ \E c \in Coroutines :
       SendRequest(c) \/ Woken(c) \/ TakeReply(c) \/ RequestTimesOut(c)
  \/ ServeRequest \/ SendReply \/ HandlerFails

RequestSpec == RequestInit /\ [][RequestNext]_requestVars

-----------------------------------------------------------------------------
(* Properties.                                                             *)

\* A reply is never given to a request that was not sent when it was made, and
\* it is late by no more than the requests given up before: as long as none
\* timed out, every coroutine gets its own reply (request, _serve_loop).
ReplyShift ==
  \A c \in Coroutines : reply[c] # 0 =>
    /\ reply[c] <= mine[c]
    /\ mine[c] - reply[c] <= Cardinality({r \in timedOut : r < mine[c]})

\* What request promises: the response to the message it sent. No run checks it,
\* since the code does not keep it (README, section 5).
ReplyIsMine == \A c \in Coroutines : reply[c] \in {0, mine[c]}
==============================================================================
