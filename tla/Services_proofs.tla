---------------------------- MODULE Services_proofs ----------------------------
(***************************************************************************)
(* The services of MCServices, each for every value of its constants: any  *)
(* number of coroutines, threads, rows, failures and restarts. Each        *)
(* component has an invariant of its own, kept by its own steps; what the  *)
(* properties of MCServices say of several components follows at the end,  *)
(* because a behaviour of MCServices is one of each component.             *)
(***************************************************************************)
EXTENDS MCServices, SetSums, SequenceTheorems

-----------------------------------------------------------------------------
(* One socket, many coroutines. Nothing in a reply names its request, yet  *)
(* a reply is late by no more than the requests given up before.           *)

Active == {c \in Coroutines : awaiting[c] # "none"}

\* The requests that were given some reply, their own or an earlier one.
Served == {r \in 1 .. sent : r \notin timedOut /\ \A c \in Active : mine[c] # r}

TypedInv ==
  /\ sent \in Nat
  /\ mine \in [Coroutines -> Nat] /\ reply \in [Coroutines -> Nat]
  /\ awaiting \in [Coroutines -> {"none", "poll", "recv"}]
  /\ serving \in Nat /\ stuckServer \in BOOLEAN
  /\ timedOut \subseteq 1 .. sent

\* The coroutines are served in the order of their requests: whoever is woken
\* is older than whoever polls, and younger than all that were given a reply.
WaitersInv ==
  /\ \A c \in Active : mine[c] \in 1 .. sent /\ mine[c] \notin timedOut
  /\ \A c, d \in Active : mine[c] = mine[d] => c = d
  /\ \A c, d \in Active : awaiting[c] = "recv" /\ awaiting[d] = "poll" => mine[c] < mine[d]
  /\ \A c \in Active : \A r \in Served : r < mine[c]

\* A queue that holds the numbers after n, in order.
From(s, n) == s \in Seq(Nat) /\ \A i \in 1 .. Len(s) : s[i] = n + i

InService == IF serving = 0 THEN 0 ELSE 1

\* The replies taken, those on their way, the request in hand and those that
\* wait are the numbers of all requests sent, without a hole, until the server
\* is stuck.
PipelineInv ==
  LET k == Cardinality(Served) IN
  /\ From(replyQ, k)
  /\ serving # 0 => serving = k + Len(replyQ) + 1
  /\ stuckServer => serving = 0
  /\ ~stuckServer => /\ From(requestQ, k + Len(replyQ) + InService)
                     /\ sent = k + Len(replyQ) + InService + Len(requestQ)

GivenUpBefore(n) == {r \in timedOut : r < n}

ShiftInv ==
  \A c \in Coroutines : reply[c] # 0 =>
    /\ reply[c] <= mine[c]
    /\ mine[c] - reply[c] <= Cardinality(GivenUpBefore(mine[c]))

RequestInv == TypedInv /\ WaitersInv /\ PipelineInv /\ ShiftInv

-----------------------------------------------------------------------------
(* Queues and counts.                                                      *)

LEMMA FromTail ==
  ASSUME NEW s, NEW n \in Nat, From(s, n), s # <<>>
  PROVE  Head(s) = n + 1 /\ From(Tail(s), n + 1) /\ Len(Tail(s)) = Len(s) - 1 /\ Len(s) \in Nat
<1>1. s \in Seq(Nat) /\ Len(s) \in Nat /\ Len(s) # 0
  BY DEF From
<1>2. Tail(s) \in Seq(Nat) /\ Len(Tail(s)) = Len(s) - 1 /\ Head(s) = s[1]
  BY <1>1
<1>3. \A i \in 1 .. Len(Tail(s)) : Tail(s)[i] = s[i + 1]
  BY <1>1, <1>2
<1> QED
  BY <1>1, <1>2, <1>3 DEF From

LEMMA FromAppend ==
  ASSUME NEW s, NEW n \in Nat, NEW e, From(s, n), e = n + Len(s) + 1
  PROVE  From(Append(s, e), n) /\ Len(Append(s, e)) = Len(s) + 1 /\ Len(s) \in Nat
<1>1. s \in Seq(Nat) /\ Len(s) \in Nat /\ e \in Nat
  BY DEF From
<1>2. Append(s, e) \in Seq(Nat) /\ Len(Append(s, e)) = Len(s) + 1
  BY <1>1
<1>3. \A i \in 1 .. Len(s) + 1 : Append(s, e)[i] = IF i <= Len(s) THEN s[i] ELSE e
  BY <1>1
<1>4. ASSUME NEW i \in 1 .. Len(s) + 1 PROVE Append(s, e)[i] = n + i
  <2>1. CASE i <= Len(s)
    BY <1>1, <1>3, <2>1 DEF From
  <2>2. CASE i = Len(s) + 1
    BY <1>1, <1>3, <2>2
  <2> QED
    BY <1>1, <2>1, <2>2
<1> QED
  BY <1>1, <1>2, <1>4 DEF From

LEMMA ServedFinite ==
  ASSUME TypedInv
  PROVE  /\ IsFiniteSet(Served) /\ Cardinality(Served) \in Nat
         /\ IsFiniteSet(timedOut)
         /\ \A n \in Nat : /\ IsFiniteSet(GivenUpBefore(n))
                           /\ Cardinality(GivenUpBefore(n)) \in Nat
<1>1. IsFiniteSet(1 .. sent)
  BY FS_Interval DEF TypedInv
<1>2. IsFiniteSet(Served) /\ IsFiniteSet(timedOut)
  BY <1>1, FS_Subset DEF TypedInv, Served
<1>3. \A n \in Nat : IsFiniteSet(GivenUpBefore(n))
  BY <1>2, FS_Subset DEF GivenUpBefore
<1> QED
  BY <1>2, <1>3, FS_CardinalityType

\* The oldest coroutine that waits: every request before its own was answered
\* or given up.
LEMMA OldestWaiter ==
  ASSUME TypedInv, WaitersInv, NEW c \in Active, \A d \in Active : mine[c] <= mine[d]
  PROVE  mine[c] - 1 = Cardinality(Served) + Cardinality(GivenUpBefore(mine[c]))
<1>1. mine[c] \in 1 .. sent /\ mine[c] - 1 \in Nat /\ sent \in Nat /\ mine[c] \in Nat
  BY DEF TypedInv, WaitersInv
<1>2. Served \cup GivenUpBefore(mine[c]) = 1 .. (mine[c] - 1)
  <2>1. Served \cup GivenUpBefore(mine[c]) \subseteq 1 .. (mine[c] - 1)
    <3>1. \A r \in Served : r \in 1 .. sent /\ r < mine[c]
      BY DEF WaitersInv, Served
    <3>2. \A r \in GivenUpBefore(mine[c]) : r \in 1 .. sent /\ r < mine[c]
      BY DEF TypedInv, GivenUpBefore
    <3>3. \A r \in 1 .. sent : r < mine[c] => r \in 1 .. (mine[c] - 1)
      BY <1>1
    <3> QED
      BY <3>1, <3>2, <3>3
  <2>2. ASSUME NEW r \in 1 .. (mine[c] - 1) PROVE r \in Served \cup GivenUpBefore(mine[c])
    <3>1. r \in 1 .. sent /\ r < mine[c]
      BY <1>1
    <3>2. \A d \in Active : mine[d] # r
      <4> SUFFICES ASSUME NEW d \in Active, mine[d] = r PROVE FALSE
        OBVIOUS
      <4>1. mine[c] <= r
        OBVIOUS
      <4> QED
        BY <3>1, <4>1, <1>1
    <3> QED
      BY <3>1, <3>2 DEF Served, GivenUpBefore
  <2> QED
    BY <2>1, <2>2
<1>3. Served \cap GivenUpBefore(mine[c]) = {}
  BY DEF Served, GivenUpBefore
<1>4. Cardinality(Served \cup GivenUpBefore(mine[c]))
        = Cardinality(Served) + Cardinality(GivenUpBefore(mine[c]))
  <2>1. /\ IsFiniteSet(Served) /\ Cardinality(Served) \in Nat
        /\ IsFiniteSet(GivenUpBefore(mine[c])) /\ Cardinality(GivenUpBefore(mine[c])) \in Nat
    BY <1>1, ServedFinite
  <2>2. Cardinality(Served \cup GivenUpBefore(mine[c]))
          = Cardinality(Served) + Cardinality(GivenUpBefore(mine[c])) - Cardinality({})
    BY <1>3, <2>1, FS_Union
  <2> QED
    BY <2>1, <2>2, FS_EmptySet
<1>5. Cardinality(1 .. (mine[c] - 1)) = mine[c] - 1
  BY <1>1, FS_Interval
<1> QED
  BY <1>2, <1>4, <1>5

-----------------------------------------------------------------------------
(* What the steps do to the waiters and to the requests served.            *)

LEMMA ServeKeeps ==
  ASSUME TypedInv, WaitersInv, UNCHANGED <<sent, mine, awaiting, timedOut>>
  PROVE  WaitersInv' /\ Served' = Served
BY DEF TypedInv, WaitersInv, Served, Active

LEMMA SendKeeps ==
  ASSUME TypedInv, WaitersInv, NEW c \in Coroutines, SendRequest(c)
  PROVE  TypedInv' /\ WaitersInv' /\ Served' = Served
<1>1. /\ sent' = sent + 1 /\ sent \in Nat
      /\ mine' = [mine EXCEPT ![c] = sent + 1]
      /\ awaiting' = [awaiting EXCEPT ![c] = "poll"]
      /\ timedOut' = timedOut /\ c \notin Active
  BY DEF SendRequest, TypedInv, Active
<1>2. TypedInv'
  BY <1>1 DEF SendRequest, TypedInv
<1>3. Active' = Active \cup {c}
  BY <1>1 DEF TypedInv, Active
<1>4. mine'[c] = sent + 1 /\ \A d \in Active : mine'[d] = mine[d] /\ mine[d] \in 1 .. sent
  BY <1>1 DEF TypedInv, WaitersInv, Active
<1>5. Served' = Served
  <2>1. ASSUME NEW r \in 1 .. sent PROVE r \in Served' <=> r \in Served
    BY <1>1, <1>3, <1>4 DEF Served
  <2>2. sent + 1 \notin Served' /\ 1 .. sent' = (1 .. sent) \cup {sent + 1}
    BY <1>1, <1>3, <1>4 DEF Served
  <2> QED
    BY <2>1, <2>2, <1>1 DEF Served
<1>6. WaitersInv'
  <2>1. \A d \in Active' : mine'[d] \in 1 .. sent' /\ mine'[d] \notin timedOut'
    BY <1>1, <1>3, <1>4 DEF TypedInv, WaitersInv
  <2>2. \A d, e \in Active' : mine'[d] = mine'[e] => d = e
    BY <1>1, <1>3, <1>4 DEF WaitersInv
  <2>3. \A d, e \in Active' : awaiting'[d] = "recv" /\ awaiting'[e] = "poll" => mine'[d] < mine'[e]
    BY <1>1, <1>3, <1>4 DEF TypedInv, WaitersInv, Active
  <2>4. \A d \in Active' : \A r \in Served' : r < mine'[d]
    BY <1>1, <1>3, <1>4, <1>5 DEF WaitersInv, Served
  <2> QED
    BY <2>1, <2>2, <2>3, <2>4 DEF WaitersInv
<1> QED
  BY <1>2, <1>5, <1>6

LEMMA WokenKeeps ==
  ASSUME TypedInv, WaitersInv, NEW c \in Coroutines, Woken(c)
  PROVE  TypedInv' /\ WaitersInv' /\ Served' = Served
<1>1. /\ UNCHANGED <<sent, mine, timedOut>> /\ c \in Active
      /\ awaiting' = [awaiting EXCEPT ![c] = "recv"] /\ awaiting[c] = "poll"
      /\ \A d \in Coroutines : awaiting[d] = "poll" => mine[c] <= mine[d]
  BY DEF Woken, Active
<1>2. TypedInv'
  BY <1>1 DEF Woken, TypedInv
<1>3. Active' = Active
  BY <1>1 DEF TypedInv, Active
<1>4. Served' = Served
  BY <1>1, <1>3 DEF Served
<1>5. ASSUME NEW d \in Active, NEW e \in Active, awaiting'[d] = "recv", awaiting'[e] = "poll"
      PROVE  mine[d] < mine[e]
  <2>1. e # c /\ awaiting[e] = "poll" /\ e \in Coroutines /\ d \in Coroutines
    BY <1>1, <1>5 DEF TypedInv, Active
  <2>2. CASE d = c
    <3>1. mine[c] <= mine[e] /\ mine[c] # mine[e]
      BY <1>1, <2>1 DEF WaitersInv
    <3>2. mine[c] \in Nat /\ mine[e] \in Nat
      BY <2>1 DEF TypedInv
    <3> QED
      BY <3>1, <3>2, <2>2
  <2>3. CASE d # c
    BY <1>1, <1>5, <2>1, <2>3 DEF TypedInv, WaitersInv
  <2> QED
    BY <2>2, <2>3
<1> QED
  BY <1>1, <1>2, <1>3, <1>4, <1>5 DEF WaitersInv

\* The request of the oldest is served by taking a reply, whosever it is.
LEMMA TakeKeeps ==
  ASSUME TypedInv, WaitersInv, NEW c \in Coroutines, TakeReply(c), Head(replyQ) \in Nat
  PROVE  /\ TypedInv' /\ WaitersInv'
         /\ \A d \in Active : mine[c] <= mine[d]
         /\ Served' = Served \cup {mine[c]} /\ mine[c] \notin Served
<1>1. /\ UNCHANGED <<sent, mine, timedOut>> /\ c \in Active
      /\ awaiting' = [awaiting EXCEPT ![c] = "none"] /\ awaiting[c] = "recv"
      /\ \A d \in Coroutines : awaiting[d] = "recv" => mine[c] <= mine[d]
  BY DEF TakeReply, Active
<1>2. TypedInv'
  BY <1>1 DEF TakeReply, TypedInv
<1>3. Active' = Active \ {c}
  BY <1>1 DEF TypedInv, Active
<1>4. ASSUME NEW d \in Active PROVE mine[c] <= mine[d]
  <2>1. d \in Coroutines /\ awaiting[d] \in {"poll", "recv"} /\ mine[c] \in Nat /\ mine[d] \in Nat
    BY <1>1 DEF TypedInv, Active
  <2> QED
    BY <1>1, <2>1 DEF WaitersInv
<1>5. mine[c] \notin Served /\ mine[c] \in 1 .. sent /\ mine[c] \notin timedOut
  BY <1>1 DEF Served, WaitersInv
<1>6. \A d \in Active' : mine[d] # mine[c] /\ mine[c] < mine[d]
  <2> SUFFICES ASSUME NEW d \in Active' PROVE mine[d] # mine[c] /\ mine[c] < mine[d]
    OBVIOUS
  <2>1. d \in Active /\ d # c
    BY <1>3
  <2>2. mine[d] # mine[c] /\ mine[c] <= mine[d] /\ mine[c] \in Nat /\ mine[d] \in Nat
    BY <1>1, <1>4, <2>1 DEF WaitersInv, TypedInv, Active
  <2> QED
    BY <2>2
<1>7. Served' = Served \cup {mine[c]}
  BY <1>1, <1>3, <1>5, <1>6 DEF Served
<1>8. WaitersInv'
  <2>1. \A d \in Active' : \A r \in Served' : r < mine'[d]
    BY <1>1, <1>3, <1>6, <1>7 DEF WaitersInv
  <2>2. \A d, e \in Active' : awaiting'[d] = "recv" /\ awaiting'[e] = "poll" => mine'[d] < mine'[e]
    BY <1>1, <1>3 DEF TypedInv, WaitersInv, Active
  <2> QED
    BY <1>1, <1>3, <2>1, <2>2 DEF WaitersInv
<1> QED
  BY <1>2, <1>4, <1>5, <1>7, <1>8

LEMMA TimeoutKeeps ==
  ASSUME TypedInv, WaitersInv, NEW c \in Coroutines, RequestTimesOut(c)
  PROVE  TypedInv' /\ WaitersInv' /\ Served' = Served
<1>1. /\ UNCHANGED <<sent, mine>> /\ c \in Active /\ timedOut' = timedOut \cup {mine[c]}
      /\ awaiting' = [awaiting EXCEPT ![c] = "none"]
  BY DEF RequestTimesOut, Active
<1>2. mine[c] \in 1 .. sent
  BY <1>1 DEF WaitersInv
<1>3. TypedInv'
  BY <1>1, <1>2 DEF RequestTimesOut, TypedInv
<1>4. Active' = Active \ {c}
  BY <1>1 DEF TypedInv, Active
<1>5. Served' = Served
  BY <1>1, <1>4 DEF Served
<1>6. WaitersInv'
  <2>1. \A d \in Active' : mine'[d] \in 1 .. sent' /\ mine'[d] \notin timedOut'
    BY <1>1, <1>4 DEF WaitersInv
  <2>2. \A d, e \in Active' : awaiting'[d] = "recv" /\ awaiting'[e] = "poll" => mine'[d] < mine'[e]
    BY <1>1, <1>4 DEF TypedInv, WaitersInv, Active
  <2> QED
    BY <1>1, <1>4, <1>5, <2>1, <2>2 DEF WaitersInv
<1> QED
  BY <1>3, <1>5, <1>6

-----------------------------------------------------------------------------
(* The invariant.                                                          *)

LEMMA RequestInitOK == RequestInit => RequestInv
<1> SUFFICES ASSUME RequestInit PROVE RequestInv
  OBVIOUS
<1>1. Active = {} /\ Served = {} /\ TypedInv
  <2>1. Active = {}
    BY DEF RequestInit, Active
  <2>2. Served = {}
    BY DEF RequestInit, Served
  <2>3. timedOut \subseteq 1 .. sent
    BY DEF RequestInit
  <2> QED
    BY <2>1, <2>2, <2>3 DEF RequestInit, TypedInv
<1>2. Cardinality(Served) = 0
  BY <1>1, FS_EmptySet
<1>3. <<>> \in Seq(Nat) /\ Len(<<>>) = 0
  OBVIOUS
<1>4. PipelineInv
  BY <1>2, <1>3 DEF RequestInit, PipelineInv, From, InService
<1> QED
  BY <1>1, <1>4 DEF RequestInit, RequestInv, WaitersInv, ShiftInv

\* A step that gives nobody a reply and takes no request back keeps the shift.
LEMMA ShiftKept ==
  ASSUME TypedInv, TypedInv', ShiftInv, timedOut \subseteq timedOut',
         \A c \in Coroutines : reply'[c] = 0 \/ (reply'[c] = reply[c] /\ mine'[c] = mine[c])
  PROVE  ShiftInv'
<1> SUFFICES ASSUME NEW c \in Coroutines, reply'[c] # 0
             PROVE  /\ reply'[c] <= mine'[c]
                    /\ mine'[c] - reply'[c] <= Cardinality(GivenUpBefore(mine[c])')
  BY DEF ShiftInv, GivenUpBefore
<1>1. reply'[c] = reply[c] /\ mine'[c] = mine[c] /\ mine[c] \in Nat /\ reply[c] \in Nat
  BY DEF TypedInv
<1>2. GivenUpBefore(mine[c]) \subseteq GivenUpBefore(mine[c])'
  BY <1>1 DEF GivenUpBefore
<1>3. timedOut' \subseteq 1 .. sent' /\ sent' \in Nat
  BY DEF TypedInv
<1>4. IsFiniteSet(GivenUpBefore(mine[c])')
  <2>1. IsFiniteSet(1 .. sent')
    BY <1>3, FS_Interval
  <2>2. GivenUpBefore(mine[c])' \subseteq 1 .. sent'
    BY <1>3 DEF GivenUpBefore
  <2> QED
    BY <2>1, <2>2, FS_Subset
<1>5. Cardinality(GivenUpBefore(mine[c])) <= Cardinality(GivenUpBefore(mine[c])')
  BY <1>2, <1>4, FS_Subset
<1>6. Cardinality(GivenUpBefore(mine[c])) \in Nat /\ Cardinality(GivenUpBefore(mine[c])') \in Nat
  BY <1>1, <1>4, ServedFinite, FS_CardinalityType
<1> QED
  BY <1>1, <1>5, <1>6 DEF ShiftInv

LEMMA RequestStep == RequestInv /\ [RequestNext]_requestVars => RequestInv'
<1> SUFFICES ASSUME RequestInv, [RequestNext]_requestVars PROVE RequestInv'
  OBVIOUS
<1>0. TypedInv /\ WaitersInv /\ PipelineInv /\ ShiftInv
  BY DEF RequestInv
<1> DEFINE k == Cardinality(Served)
<1>k. k \in Nat
  BY <1>0, ServedFinite
<1>p. /\ From(replyQ, k) /\ Len(replyQ) \in Nat
      /\ serving # 0 => serving = k + Len(replyQ) + 1
      /\ stuckServer => serving = 0
      /\ ~stuckServer => /\ From(requestQ, k + Len(replyQ) + InService)
                         /\ sent = k + Len(replyQ) + InService + Len(requestQ)
                         /\ Len(requestQ) \in Nat
      /\ InService \in Nat
  BY <1>0 DEF PipelineInv, From, InService
<1> HIDE DEF k
<1>1. ASSUME NEW c \in Coroutines, SendRequest(c) PROVE RequestInv'
  <2>1. TypedInv' /\ WaitersInv' /\ Cardinality(Served)' = k
    BY <1>0, <1>1, SendKeeps DEF k
  <2>2. UNCHANGED <<replyQ, serving, stuckServer, timedOut, InService>>
    BY <1>1 DEF SendRequest, InService
  <2>3. requestQ' = Append(requestQ, sent + 1) /\ sent' = sent + 1
    BY <1>1 DEF SendRequest
  <2>4. ~stuckServer => /\ From(requestQ', k + Len(replyQ) + InService)
                        /\ Len(requestQ') = Len(requestQ) + 1
    BY <1>k, <1>p, <2>3, FromAppend
  <2>5. PipelineInv'
    BY <1>k, <1>p, <2>1, <2>2, <2>3, <2>4 DEF PipelineInv, From
  <2>6. ShiftInv'
    <3>1. \A d \in Coroutines : reply'[d] = 0 \/ (reply'[d] = reply[d] /\ mine'[d] = mine[d])
      BY <1>0, <1>1 DEF SendRequest, TypedInv
    <3> QED
      BY <1>0, <2>1, <2>2, <3>1, ShiftKept
  <2> QED
    BY <2>1, <2>5, <2>6 DEF RequestInv
<1>2. ASSUME NEW c \in Coroutines, Woken(c) PROVE RequestInv'
  <2>1. TypedInv' /\ WaitersInv' /\ Cardinality(Served)' = k
    BY <1>0, <1>2, WokenKeeps DEF k
  <2>2. UNCHANGED <<replyQ, serving, stuckServer, timedOut, InService, requestQ, sent, mine, reply>>
    BY <1>2 DEF Woken, InService
  <2>3. PipelineInv'
    BY <1>p, <2>1, <2>2 DEF PipelineInv, From
  <2>4. ShiftInv'
    BY <1>0, <2>1, <2>2, ShiftKept
  <2> QED
    BY <2>1, <2>3, <2>4 DEF RequestInv
<1>3. ASSUME NEW c \in Coroutines, TakeReply(c) PROVE RequestInv'
  <2>1. /\ replyQ # <<>> /\ replyQ' = Tail(replyQ)
        /\ reply' = [reply EXCEPT ![c] = Head(replyQ)]
        /\ UNCHANGED <<serving, stuckServer, timedOut, InService, requestQ, sent, mine>>
        /\ c \in Active
    BY <1>3 DEF TakeReply, InService, Active
  <2>2. Head(replyQ) = k + 1 /\ From(replyQ', k + 1) /\ Len(replyQ') = Len(replyQ) - 1
    BY <1>k, <1>p, <2>1, FromTail
  <2>3. /\ TypedInv' /\ WaitersInv' /\ \A d \in Active : mine[c] <= mine[d]
        /\ Served' = Served \cup {mine[c]} /\ mine[c] \notin Served
    BY <1>0, <1>3, <1>k, <2>2, TakeKeeps
  <2>4. Cardinality(Served)' = k + 1
    BY <1>0, <2>3, ServedFinite, FS_AddElement DEF k
  <2>5. PipelineInv'
    BY <1>k, <1>p, <2>1, <2>2, <2>4 DEF PipelineInv, From
  <2>6. mine[c] - 1 = k + Cardinality(GivenUpBefore(mine[c]))
    BY <1>0, <2>1, <2>3, OldestWaiter DEF k
  <2>7. mine[c] \in Nat /\ Cardinality(GivenUpBefore(mine[c])) \in Nat
    BY <1>0, ServedFinite DEF TypedInv
  <2>8. ShiftInv'
    <3> SUFFICES ASSUME NEW d \in Coroutines, reply'[d] # 0
                 PROVE  /\ reply'[d] <= mine[d]
                        /\ mine[d] - reply'[d] <= Cardinality(GivenUpBefore(mine[d]))
      BY <2>1 DEF ShiftInv, GivenUpBefore
    <3>1. CASE d = c
      <4>1. reply'[c] = k + 1
        BY <1>0, <2>1, <2>2 DEF TypedInv
      <4> QED
        BY <3>1, <4>1, <1>k, <2>6, <2>7
    <3>2. CASE d # c
      BY <1>0, <2>1, <3>2 DEF ShiftInv, TypedInv
    <3> QED
      BY <3>1, <3>2
  <2> QED
    BY <2>3, <2>5, <2>8 DEF RequestInv
<1>4. ASSUME NEW c \in Coroutines, RequestTimesOut(c) PROVE RequestInv'
  <2>1. TypedInv' /\ WaitersInv' /\ Cardinality(Served)' = k
    BY <1>0, <1>4, TimeoutKeeps DEF k
  <2>2. /\ UNCHANGED <<replyQ, serving, stuckServer, InService, requestQ, sent, mine, reply>>
        /\ timedOut \subseteq timedOut'
    BY <1>4 DEF RequestTimesOut, InService
  <2>3. PipelineInv'
    BY <1>p, <2>1, <2>2 DEF PipelineInv, From
  <2>4. ShiftInv'
    BY <1>0, <2>1, <2>2, ShiftKept
  <2> QED
    BY <2>1, <2>3, <2>4 DEF RequestInv
<1>5. ASSUME UNCHANGED <<sent, mine, reply, awaiting, timedOut>>, TypedInv',
             From(replyQ', k), serving' # 0 => serving' = k + Len(replyQ') + 1,
             stuckServer' => serving' = 0,
             ~stuckServer' => /\ From(requestQ', k + Len(replyQ') + InService')
                              /\ sent = k + Len(replyQ') + InService' + Len(requestQ')
      PROVE  RequestInv'
  <2>1. WaitersInv' /\ Cardinality(Served)' = k
    BY <1>0, <1>5, ServeKeeps DEF k
  <2>2. PipelineInv'
    BY <1>5, <2>1 DEF PipelineInv
  <2>3. ShiftInv'
    BY <1>0, <1>5, ShiftKept
  <2> QED
    BY <1>5, <2>1, <2>2, <2>3 DEF RequestInv
<1>6. CASE ServeRequest
  <2>1. /\ serving = 0 /\ ~stuckServer /\ requestQ # <<>> /\ InService = 0
        /\ serving' = Head(requestQ) /\ requestQ' = Tail(requestQ)
        /\ UNCHANGED <<sent, mine, reply, awaiting, timedOut, replyQ, stuckServer>>
    BY <1>6 DEF ServeRequest, InService
  <2>2. From(requestQ, k + Len(replyQ)) /\ k + Len(replyQ) \in Nat
    BY <1>k, <1>p, <2>1
  <2>3. /\ Head(requestQ) = k + Len(replyQ) + 1
        /\ From(requestQ', k + Len(replyQ) + 1) /\ Len(requestQ') = Len(requestQ) - 1
    BY <2>1, <2>2, FromTail
  <2>4. serving' # 0 /\ InService' = 1
    BY <1>k, <1>p, <2>1, <2>3 DEF InService
  <2>5. TypedInv'
    BY <1>0, <1>k, <1>p, <2>1, <2>3 DEF TypedInv
  <2> QED
    BY <1>5, <1>k, <1>p, <2>1, <2>3, <2>4, <2>5
<1>7. CASE SendReply
  <2>1. /\ serving # 0 /\ InService = 1 /\ serving' = 0 /\ InService' = 0
        /\ replyQ' = Append(replyQ, serving)
        /\ UNCHANGED <<sent, mine, reply, awaiting, timedOut, requestQ, stuckServer>>
    BY <1>7 DEF SendReply, InService
  <2>2. From(replyQ', k) /\ Len(replyQ') = Len(replyQ) + 1
    BY <1>k, <1>p, <2>1, FromAppend
  <2>3. TypedInv'
    BY <1>0, <2>1 DEF TypedInv
  <2> QED
    BY <1>5, <1>k, <1>p, <2>1, <2>2, <2>3
<1>8. CASE HandlerFails
  <2>1. /\ serving' = 0 /\ stuckServer' = TRUE
        /\ UNCHANGED <<sent, mine, reply, awaiting, timedOut, requestQ, replyQ>>
    BY <1>8 DEF HandlerFails
  <2>2. TypedInv'
    BY <1>0, <2>1 DEF TypedInv
  <2> QED
    BY <1>5, <1>p, <2>1, <2>2
<1>9. CASE UNCHANGED requestVars
  <2>1. UNCHANGED <<sent, mine, reply, awaiting, timedOut, requestQ, replyQ, serving,
                    stuckServer, InService>>
    BY <1>9 DEF requestVars, InService
  <2>2. TypedInv'
    BY <1>0, <2>1 DEF TypedInv
  <2> QED
    BY <1>5, <1>p, <2>1, <2>2
<1> QED
  BY <1>1, <1>2, <1>3, <1>4, <1>6, <1>7, <1>8, <1>9 DEF RequestNext

\* A reply is never given to a request that was not sent when it was made, and
\* is late by no more than the requests given up before (ZmqReqClient.request,
\* ZmqRepServer._serve_loop).
THEOREM ReplyShiftHolds == RequestSpec => []ReplyShift
<1>1. RequestInv => ReplyShift
  BY DEF RequestInv, ShiftInv, ReplyShift, GivenUpBefore
<1> QED
  BY RequestInitOK, RequestStep, <1>1, PTL DEF RequestSpec

-----------------------------------------------------------------------------
(* The state of a strategy.                                                *)

Moments == {"no", "changed", "marked", "save"}

\* The promise is inductive once every thread is known to have a place.
CleanInv == setting \in [StateThreads -> Moments] /\ CleanIsSaved

LEMMA CleanInit == StateInit => CleanInv
  BY DEF StateInit, CleanInv, CleanIsSaved, Moments

LEMMA CleanStep == CleanInv /\ [StateNext]_stateVars => CleanInv'
<1> SUFFICES ASSUME CleanInv, [StateNext]_stateVars PROVE CleanInv'
  OBVIOUS
<1> USE DEF CleanInv, CleanIsSaved, Moments
<1>1. ASSUME NEW t \in StateThreads, Change(t) PROVE CleanInv'
  BY <1>1 DEF Change
<1>2. ASSUME NEW t \in StateThreads, MarkDirty(t) PROVE CleanInv'
  BY <1>2 DEF MarkDirty
<1>3. ASSUME NEW t \in StateThreads, FlushIfDirty(t) PROVE CleanInv'
  BY <1>3 DEF FlushIfDirty
<1>4. ASSUME NEW t \in StateThreads, Save(t) PROVE CleanInv'
  <2>1. setting' \in [StateThreads -> Moments]
    BY <1>4 DEF Save
  <2>2. running' = running /\ content' = content
    BY <1>4 DEF Save
  <2>3. setting[t] # "changed"
    BY <1>4 DEF Save
  <2>4. (\A u \in StateThreads : setting'[u] # "changed")
          => \A u \in StateThreads : setting[u] # "changed"
    BY <1>4, <2>3 DEF Save
  <2>5. \/ saved' = content
        \/ saved' = saved /\ dirty' = dirty
    BY <1>4 DEF Save, WriteState
  <2> QED
    BY <2>1, <2>2, <2>4, <2>5
<1>5. CASE Crash
  BY <1>5 DEF Crash
<1>6. CASE ShutDown
  BY <1>6 DEF ShutDown
<1>7. CASE LoadState
  BY <1>7 DEF LoadState
<1>8. CASE DebouncePasses
  BY <1>8 DEF DebouncePasses
<1>9. CASE UNCHANGED stateVars
  BY <1>9 DEF stateVars
<1> QED
  BY <1>1, <1>2, <1>3, <1>4, <1>5, <1>6, <1>7, <1>8, <1>9 DEF StateNext

\* A store that is clean has nothing the database lacks, however the unlocked
\* marks of the threads fall between the saves of others and wherever a crash or
\* a failing write comes (state_store.py: _mark_dirty, _flush_if_dirty, save): a
\* part of StrategiesKept.
THEOREM CleanIsSavedHolds == StateSpec => []CleanIsSaved
<1>1. CleanInv => CleanIsSaved
  BY DEF CleanInv
<1> QED
  BY CleanInit, CleanStep, <1>1, PTL DEF StateSpec

-----------------------------------------------------------------------------
(* The rows.                                                               *)

Rows == RowKeys \X Nat

\* Where a row may be on its way.
Somewhere == inserted \cup ToSet(pending) \cup cancelled
               \cup UNION {ToSet(batch[f]) : f \in Flushers}

\* The rows are accounted for because nobody overwrites a batch: a writer and
\* the timer take one only when they have none, and the final flush comes once;
\* and because the timer is cancelled once.
RowInv ==
  /\ pending \in Seq(Rows) /\ batch \in [Flushers -> Seq(Rows)]
  /\ versions \in [RowKeys -> Nat]
  /\ writerUp = "up" => cancelled = {}
  /\ writerUp # "stopped" => batch[Closer] = <<>>
  /\ NoRowLost

LEMMA NoElements == ToSet(<<>>) = {}
  BY DEF ToSet

LEMMA AppendedSet ==
  ASSUME NEW S, NEW s \in Seq(S), NEW x \in S
  PROVE  ToSet(Append(s, x)) = ToSet(s) \cup {x}
<1>1. DOMAIN Append(s, x) = 1 .. Len(s) + 1 /\ DOMAIN s = 1 .. Len(s) /\ Len(s) \in Nat
  OBVIOUS
<1>2. \A i \in 1 .. Len(s) : Append(s, x)[i] = s[i]
  OBVIOUS
<1>3. Append(s, x)[Len(s) + 1] = x
  OBVIOUS
<1>4. \A i \in 1 .. Len(s) + 1 : i \in 1 .. Len(s) \/ i = Len(s) + 1
  BY <1>1
<1>5. 1 .. Len(s) \subseteq 1 .. Len(s) + 1 /\ Len(s) + 1 \in 1 .. Len(s) + 1
  BY <1>1
<1> QED
  BY <1>1, <1>2, <1>3, <1>4, <1>5, Zenon DEF ToSet

LEMMA JoinedSet ==
  ASSUME NEW S, NEW s \in Seq(S), NEW u \in Seq(S)
  PROVE  ToSet(s) \cup ToSet(u) \subseteq ToSet(s \o u)
<1>1. \A i \in DOMAIN s : i \in DOMAIN (s \o u) /\ (s \o u)[i] = s[i]
  OBVIOUS
<1>2. \A i \in DOMAIN u : Len(s) + i \in DOMAIN (s \o u) /\ (s \o u)[Len(s) + i] = u[i]
  OBVIOUS
<1> QED
  BY <1>1, <1>2, Zenon DEF ToSet

LEMMA InsertEffect ==
  ASSUME NEW rows, Insert(rows)
  PROVE  inserted' = inserted \cup ToSet(rows)
  BY DEF Insert

LEMMA LeaveEffect ==
  ASSUME NEW f, Leave(f)
  PROVE  batch' = [batch EXCEPT ![f] = <<>>]
  BY DEF Leave

LEMMA RowInit == BatchInit => RowInv
<1> SUFFICES ASSUME BatchInit PROVE RowInv
  OBVIOUS
<1>1. versions = [k \in RowKeys |-> 0] /\ pending = <<>>
      /\ batch = [f \in Flushers |-> <<>>] /\ cancelled = {} /\ Closer \in Flushers
  BY DEF BatchInit, Flushers
<1>2. \A k \in RowKeys : 1 .. versions[k] = {}
  BY <1>1
<1>3. NoRowLost
  BY <1>2 DEF NoRowLost
<1> QED
  BY <1>1, <1>3 DEF RowInv

\* The rows that were somewhere before a step, those of one batch and the rest.
LEMMA BatchesSplit ==
  ASSUME NEW f \in Flushers, NEW b, batch \in [Flushers -> Seq(Rows)],
         batch' = [batch EXCEPT ![f] = b]
  PROVE  UNION {ToSet(batch[g]) : g \in Flushers} \subseteq
           ToSet(batch[f]) \cup UNION {ToSet(batch'[g]) : g \in Flushers}
<1>1. \A g \in Flushers : g # f => batch'[g] = batch[g]
  OBVIOUS
<1> QED
  BY <1>1

\* A step that writes no row keeps the account when no row leaves it.
LEMMA KeptIfSomewhere ==
  ASSUME NoRowLost, versions' = versions, Somewhere \subseteq Somewhere'
  PROVE  NoRowLost'
  BY DEF NoRowLost, Somewhere

LEMMA TakeRow ==
  ASSUME RowInv, NEW f \in Flushers, NEW rows \in Seq(Rows), batch[f] = <<>>,
         TakeBatch(f, rows)
  PROVE  /\ pending' \in Seq(Rows) /\ batch' \in [Flushers -> Seq(Rows)]
         /\ ToSet(rows) \cup UNION {ToSet(batch[g]) : g \in Flushers}
              \subseteq UNION {ToSet(batch'[g]) : g \in Flushers}
         /\ f # Closer => batch'[Closer] = batch[Closer]
<1>1. batch' = [batch EXCEPT ![f] = rows] /\ pending' = <<>>
  BY DEF TakeBatch
<1>2. batch'[f] = rows /\ batch \in [Flushers -> Seq(Rows)] /\ Closer \in Flushers
  BY <1>1 DEF RowInv, Flushers
<1>3. ToSet(batch[f]) = {}
  BY NoElements
<1>4. UNION {ToSet(batch[g]) : g \in Flushers} \subseteq
        UNION {ToSet(batch'[g]) : g \in Flushers}
  BY <1>1, <1>2, <1>3, BatchesSplit
<1>5. ToSet(rows) \subseteq UNION {ToSet(batch'[g]) : g \in Flushers}
  BY <1>2
<1> QED
  BY <1>1, <1>2, <1>4, <1>5

\* A row that joins a sequence of rows adds itself and nothing else.
LEMMA RowAppended ==
  ASSUME NEW s \in Seq(Rows), NEW row \in Rows
  PROVE  Append(s, row) \in Seq(Rows) /\ ToSet(Append(s, row)) = ToSet(s) \cup {row}
<1>1. Append(s, row) \in Seq(Rows)
  OBVIOUS
<1>2. ToSet(Append(s, row)) = ToSet(s) \cup {row}
  <2> DEFINE S == Rows
  <2> HIDE DEF S
  <2>1. s \in Seq(S) /\ row \in S
    BY DEF S
  <2> QED
    BY <2>1, AppendedSet
<1> QED
  BY <1>1, <1>2

LEMMA RowWritten ==
  ASSUME RowInv, NEW w \in RowWriters, NEW k \in RowKeys, WriteRow(w, k),
         RowWriters \cap {Timer, Closer} = {}
  PROVE  RowInv'
<1> DEFINE v == versions[k] + 1
           rows == Append(pending, <<k, v>>)
<1>1. versions' = [versions EXCEPT ![k] = v] /\ v \in Nat
  BY DEF WriteRow, RowInv
<1>2. versions'[k] = v /\ versions' \in [RowKeys -> Nat]
  BY <1>1 DEF RowInv
<1>3. <<k, v>> \in Rows
  BY <1>1 DEF Rows
<1>4. rows \in Seq(Rows) /\ ToSet(rows) = ToSet(pending) \cup {<<k, v>>}
  <2> DEFINE row == <<k, v>>
  <2>1. row \in Rows /\ pending \in Seq(Rows)
    BY <1>3 DEF RowInv
  <2> HIDE DEF row
  <2>2. Append(pending, row) \in Seq(Rows) /\ ToSet(Append(pending, row)) = ToSet(pending) \cup {row}
    BY <2>1, RowAppended
  <2> QED
    BY <2>2 DEF row
<1>5. \/ TakeBatch(w, rows)
      \/ pending' = rows /\ batch' = batch
  <2> DEFINE written == Append(pending, <<k, versions'[k]>>)
  <2>1. rows = written
    BY <1>2
  <2>2. IF Len(written) >= BufferSize THEN TakeBatch(w, written)
        ELSE pending' = written /\ UNCHANGED <<batch, lockQueue>>
    BY Zenon DEF WriteRow
  <2> HIDE DEF rows, written
  <2>3. TakeBatch(w, written) \/ (pending' = written /\ batch' = batch)
    BY <2>2
  <2> QED
    BY <2>1, <2>3
<1>6. UNCHANGED <<writerUp, inserted, cancelled>> /\ batch[w] = <<>>
  BY DEF WriteRow
<1>7. w \in Flushers /\ w # Closer
  BY DEF Flushers
<1>8. /\ pending' \in Seq(Rows) /\ batch' \in [Flushers -> Seq(Rows)]
      /\ batch'[Closer] = batch[Closer]
      /\ ToSet(pending) \cup {<<k, v>>} \cup UNION {ToSet(batch[g]) : g \in Flushers}
           \subseteq ToSet(pending') \cup UNION {ToSet(batch'[g]) : g \in Flushers}
  <2>1. CASE TakeBatch(w, rows)
    BY <2>1, <1>4, <1>6, <1>7, TakeRow
  <2>2. CASE pending' = rows /\ batch' = batch
    BY <2>2, <1>4 DEF RowInv
  <2> QED
    BY <1>5, <2>1, <2>2
<1>9. Somewhere \cup {<<k, v>>} \subseteq Somewhere'
  BY <1>6, <1>8 DEF Somewhere
<1>10. ASSUME NEW j \in RowKeys, NEW n \in 1 .. versions'[j] PROVE <<j, n>> \in Somewhere'
  <2>1. CASE j = k /\ n = v
    BY <2>1, <1>9
  <2>2. CASE ~(j = k /\ n = v)
    <3>1. n \in 1 .. versions[j]
      BY <2>2, <1>1, <1>2 DEF RowInv
    <3>2. <<j, n>> \in Somewhere
      BY <3>1 DEF RowInv, NoRowLost, Somewhere
    <3> QED
      BY <3>2, <1>9
  <2> QED
    BY <2>1, <2>2
<1>11. NoRowLost'
  BY <1>10 DEF NoRowLost, Somewhere
<1> QED
  BY <1>2, <1>6, <1>8, <1>11 DEF RowInv

LEMMA RowStep ==
  ASSUME RowWriters \cap {Timer, Closer} = {}, RowInv, [BatchNext]_batchVars
  PROVE  RowInv'
<1>1. ASSUME NEW w \in RowWriters, NEW k \in RowKeys, WriteRow(w, k) PROVE RowInv'
  BY <1>1, RowWritten
<1>2. ASSUME NEW f \in Flushers, WriteBatch(f) PROVE RowInv'
  <2>1. Insert(batch[f]) /\ Leave(f) /\ UNCHANGED <<pending, writerUp, versions, cancelled>>
    BY <1>2 DEF WriteBatch
  <2>2. batch' = [batch EXCEPT ![f] = <<>>] /\ inserted' = inserted \cup ToSet(batch[f])
    BY <2>1, InsertEffect, LeaveEffect
  <2>3. batch' \in [Flushers -> Seq(Rows)] /\ (batch[Closer] = <<>> => batch'[Closer] = <<>>)
    BY <2>2 DEF RowInv, Flushers
  <2>4. Somewhere \subseteq Somewhere'
    BY <2>1, <2>2, BatchesSplit DEF RowInv, Somewhere
  <2>5. NoRowLost'
    BY <2>1, <2>4, KeptIfSomewhere DEF RowInv
  <2> QED
    BY <2>1, <2>3, <2>5 DEF RowInv
<1>3. ASSUME NEW f \in Flushers, WriteFails(f) PROVE RowInv'
  <2>1. /\ Leave(f) /\ pending' = batch[f] \o pending
        /\ UNCHANGED <<writerUp, versions, cancelled>>
        /\ \E n \in 0 .. Len(batch[f]) : Insert(SubSeq(batch[f], 1, n))
    BY <1>3 DEF WriteFails
  <2>2. batch' = [batch EXCEPT ![f] = <<>>] /\ inserted \subseteq inserted'
    BY <2>1, InsertEffect, LeaveEffect
  <2>3. batch' \in [Flushers -> Seq(Rows)] /\ (batch[Closer] = <<>> => batch'[Closer] = <<>>)
    BY <2>2 DEF RowInv, Flushers
  <2>4. batch[f] \in Seq(Rows) /\ pending \in Seq(Rows)
    BY DEF RowInv
  <2>5. pending' \in Seq(Rows) /\ ToSet(batch[f]) \cup ToSet(pending) \subseteq ToSet(pending')
    BY <2>1, <2>4, JoinedSet
  <2>6. Somewhere \subseteq Somewhere'
    BY <2>1, <2>2, <2>5, BatchesSplit DEF RowInv, Somewhere
  <2>7. NoRowLost'
    BY <2>1, <2>6, KeptIfSomewhere DEF RowInv
  <2> QED
    BY <2>1, <2>3, <2>5, <2>7 DEF RowInv
<1>4. CASE TimerFlush
  <2>1. /\ writerUp = "up" /\ batch[Timer] = <<>> /\ TakeBatch(Timer, pending)
        /\ UNCHANGED <<writerUp, versions, inserted, cancelled>>
    BY <1>4 DEF TimerFlush
  <2>2. Timer \in Flushers /\ Timer # Closer /\ pending \in Seq(Rows)
    BY DEF Flushers, Timer, Closer, RowInv
  <2>3. /\ pending' \in Seq(Rows) /\ batch' \in [Flushers -> Seq(Rows)]
        /\ ToSet(pending) \cup UNION {ToSet(batch[g]) : g \in Flushers}
             \subseteq UNION {ToSet(batch'[g]) : g \in Flushers}
        /\ batch'[Closer] = batch[Closer]
    BY <2>1, <2>2, TakeRow
  <2>4. NoRowLost'
    BY <2>1, <2>3, KeptIfSomewhere DEF RowInv, Somewhere
  <2> QED
    BY <2>1, <2>3, <2>4 DEF RowInv
<1>5. CASE StopWriter
  <2>1. /\ writerUp = "up" /\ writerUp' = "stopping" /\ Leave(Timer)
        /\ cancelled' = ToSet(batch[Timer]) /\ UNCHANGED <<pending, versions>>
    BY <1>5 DEF StopWriter
  <2>2. inserted \subseteq inserted'
    BY <1>5, InsertEffect DEF StopWriter
  <2>3. batch' = [batch EXCEPT ![Timer] = <<>>] /\ Timer \in Flushers
    BY <2>1, LeaveEffect DEF Flushers
  <2>4. batch' \in [Flushers -> Seq(Rows)] /\ batch'[Closer] = <<>>
    BY <2>1, <2>3 DEF RowInv, Flushers
  <2>5. Somewhere \subseteq Somewhere'
    BY <2>1, <2>2, <2>3, BatchesSplit DEF RowInv, Somewhere
  <2>6. NoRowLost'
    BY <2>1, <2>5, KeptIfSomewhere DEF RowInv
  <2> QED
    BY <2>1, <2>4, <2>6 DEF RowInv
<1>6. CASE LastFlush
  <2>1. /\ writerUp = "stopping" /\ writerUp' = "stopped"
        /\ UNCHANGED <<versions, inserted, cancelled>>
        /\ \/ UNCHANGED <<pending, batch>>
           \/ TakeBatch(Closer, pending)
    BY <1>6 DEF LastFlush
  <2>2. Closer \in Flushers /\ batch[Closer] = <<>> /\ pending \in Seq(Rows)
    BY <2>1 DEF Flushers, RowInv
  <2>3. /\ pending' \in Seq(Rows) /\ batch' \in [Flushers -> Seq(Rows)]
        /\ ToSet(pending) \cup UNION {ToSet(batch[g]) : g \in Flushers}
             \subseteq ToSet(pending') \cup UNION {ToSet(batch'[g]) : g \in Flushers}
    <3>1. CASE UNCHANGED <<pending, batch>>
      BY <3>1 DEF RowInv
    <3>2. CASE TakeBatch(Closer, pending)
      BY <3>2, <2>2, TakeRow
    <3> QED
      BY <2>1, <3>1, <3>2
  <2>4. NoRowLost'
    BY <2>1, <2>3, KeptIfSomewhere DEF RowInv, Somewhere
  <2> QED
    BY <2>1, <2>3, <2>4 DEF RowInv
<1>7. CASE UNCHANGED batchVars
  BY <1>7 DEF batchVars, RowInv, NoRowLost
<1> QED
  BY <1>1, <1>2, <1>3, <1>4, <1>5, <1>6, <1>7 DEF BatchNext

(* The newest row of a key. The batches that wait for the lock and the     *)
(* buffer are one sequence of rows in the order they were written, since a *)
(* batch joins the queue in the step that takes it; the table is behind.   *)

\* The rows of R are older than those of Q.
Older(R, Q) == \A r \in R, q \in Q : r[1] = q[1] => r[2] < q[2]

\* Of each key, the rows of a sequence are in the order they were written.
Rising(rows) ==
  \A i, j \in DOMAIN rows : i < j /\ rows[i][1] = rows[j][1] => rows[i][2] < rows[j][2]

\* f is before g at the lock.
Ahead(f, g) == \E i, j \in DOMAIN lockQueue : i < j /\ lockQueue[i] = f /\ lockQueue[j] = g

\* Whoever has a batch is at the lock, once.
QueueInv ==
  /\ lockQueue \in Seq(Flushers)
  /\ \A i, j \in DOMAIN lockQueue : lockQueue[i] = lockQueue[j] => i = j
  /\ \A f \in Flushers : batch[f] # <<>> <=> f \in ToSet(lockQueue)

\* The batches at the lock and the buffer are one sequence of rows, in order.
OrderInv ==
  /\ Rising(pending) /\ \A f \in Flushers : Rising(batch[f])
  /\ \A f \in Flushers : Older(ToSet(batch[f]), ToSet(pending))
  /\ \A f, g \in Flushers : Ahead(f, g) => Older(ToSet(batch[f]), ToSet(batch[g]))

\* The table is behind all of them, and ahead of what was inserted.
Outside == ToSet(pending) \cup UNION {ToSet(batch[f]) : f \in Flushers}
TableInv ==
  /\ database \in [RowKeys -> Nat] /\ inserted \subseteq Rows
  /\ \A r \in Outside : database[r[1]] < r[2] /\ r[2] <= versions[r[1]]
  /\ \A r \in inserted : r[2] <= database[r[1]]
  /\ \A k \in RowKeys : database[k] <= versions[k]

\* The invariant: a batch that failed goes back in front of newer rows, so it
\* speaks of the time before the first failure.
NewestInv ==
  /\ failures \in Nat
  /\ failures = 0 => QueueInv /\ OrderInv /\ TableInv

\* A queue without its i-th element: the others stay in order.
LEMMA RemovedOne ==
  ASSUME NEW S, NEW s \in Seq(S), NEW i \in 1 .. Len(s)
  PROVE  /\ RemoveAt(s, i) \in Seq(S) /\ Len(RemoveAt(s, i)) = Len(s) - 1
         /\ \A m \in 1 .. Len(s) - 1 : RemoveAt(s, i)[m] = IF m < i THEN s[m] ELSE s[m + 1]
<1>1. Len(s) \in Nat /\ i \in Nat /\ 1 <= i /\ i <= Len(s)
  OBVIOUS
<1>2. PICK a, b : a = SubSeq(s, 1, i - 1) /\ b = SubSeq(s, i + 1, Len(s))
  OBVIOUS
<1>3. a \in Seq(S) /\ Len(a) = i - 1 /\ \A m \in 1 .. i - 1 : a[m] = s[m]
  BY <1>1, <1>2
<1>4. b \in Seq(S) /\ Len(b) = Len(s) - i /\ \A m \in 1 .. Len(s) - i : b[m] = s[i + m]
  BY <1>1, <1>2
<1>5. a \o b \in Seq(S) /\ Len(a \o b) = Len(a) + Len(b)
      /\ \A m \in 1 .. Len(a) + Len(b) : (a \o b)[m] = IF m <= Len(a) THEN a[m] ELSE b[m - Len(a)]
  <2>1. a \in Seq(S) /\ b \in Seq(S)
    BY <1>3, <1>4
  <2> QED BY <2>1, ConcatProperties
<1>6. RemoveAt(s, i) = a \o b
  BY <1>2 DEF RemoveAt
<1>7. Len(a) + Len(b) = Len(s) - 1
  BY <1>1, <1>3, <1>4
<1>8. ASSUME NEW m \in 1 .. Len(s) - 1 PROVE (a \o b)[m] = IF m < i THEN s[m] ELSE s[m + 1]
  <2>1. CASE m < i
    BY <1>1, <1>3, <1>5, <1>7, <2>1
  <2>2. CASE ~(m < i)
    <3>1. m - (i - 1) \in 1 .. Len(s) - i /\ i + (m - (i - 1)) = m + 1 /\ ~(m <= Len(a)) /\ m \in 1 .. Len(a) + Len(b)
      BY <1>1, <1>3, <1>7, <2>2
    <3>2. (a \o b)[m] = b[m - (i - 1)]
      BY <1>3, <1>5, <3>1
    <3> QED BY <1>4, <2>2, <3>1, <3>2
  <2> QED BY <2>1, <2>2
<1> QED BY <1>5, <1>6, <1>7, <1>8

\* Leaving the lock takes nobody else's turn.
LEMMA LeaveOrder ==
  ASSUME NEW f \in Flushers, Leave(f), QueueInv, batch \in [Flushers -> Seq(Rows)]
  PROVE  /\ QueueInv' /\ \A g \in Flushers : batch'[g] = IF g = f THEN <<>> ELSE batch[g]
         /\ \A g, h \in Flushers : Ahead(g, h)' => Ahead(g, h)
<1>1. \A g \in Flushers : batch'[g] = IF g = f THEN <<>> ELSE batch[g]
  BY DEF Leave
<1>2. CASE f \notin ToSet(lockQueue) /\ UNCHANGED lockQueue
  <2>1. \A g \in Flushers : batch'[g] # <<>> <=> batch[g] # <<>>
    BY <1>1, <1>2 DEF QueueInv
  <2>2. \A g, h \in Flushers : Ahead(g, h)' => Ahead(g, h)
    BY <1>2 DEF Ahead
  <2>3. ToSet(lockQueue') = ToSet(lockQueue)
    BY <1>2
  <2>4. QueueInv'
    BY <1>2, <2>1, <2>3 DEF QueueInv
  <2> QED BY <1>1, <2>2, <2>4
<1>3. ASSUME NEW i \in DOMAIN lockQueue, lockQueue[i] = f, lockQueue' = RemoveAt(lockQueue, i)
      PROVE  QueueInv' /\ \A g, h \in Flushers : Ahead(g, h)' => Ahead(g, h)
  <2> DEFINE was(m) == IF m < i THEN m ELSE m + 1
  <2>1. PICK s, t : s = lockQueue /\ t = lockQueue'
    OBVIOUS
  <2>2. s \in Seq(Flushers) /\ DOMAIN s = 1 .. Len(s) /\ Len(s) \in Nat /\ i \in 1 .. Len(s)
        /\ \A m, k \in DOMAIN s : s[m] = s[k] => m = k
    BY <2>1 DEF QueueInv
  <2>3. /\ t \in Seq(Flushers) /\ Len(t) = Len(s) - 1
        /\ \A m \in 1 .. Len(s) - 1 : t[m] = IF m < i THEN s[m] ELSE s[m + 1]
    <3>1. t = RemoveAt(s, i)
      BY <1>3, <2>1
    <3>2. /\ RemoveAt(s, i) \in Seq(Flushers) /\ Len(RemoveAt(s, i)) = Len(s) - 1
          /\ \A m \in 1 .. Len(s) - 1 : RemoveAt(s, i)[m] = IF m < i THEN s[m] ELSE s[m + 1]
      <4>1. s \in Seq(Flushers) /\ i \in 1 .. Len(s)
        BY <2>2
      <4> HIDE DEF was
      <4> QED BY <4>1, RemovedOne
    <3> QED BY <3>1, <3>2
  <2>4. DOMAIN t = 1 .. Len(s) - 1
    BY <2>3
  <2>5. \A m \in DOMAIN t : was(m) \in DOMAIN s /\ was(m) # i /\ t[m] = s[was(m)]
    <3> SUFFICES ASSUME NEW m \in DOMAIN t PROVE was(m) \in DOMAIN s /\ was(m) # i /\ t[m] = s[was(m)]
      OBVIOUS
    <3>1. /\ m \in 1 .. Len(s) - 1 /\ t[m] = IF m < i THEN s[m] ELSE s[m + 1]
          /\ Len(s) \in Nat /\ i \in 1 .. Len(s)
      BY <2>2, <2>3, <2>4
    <3>2. was(m) \in 1 .. Len(s) /\ was(m) # i
      BY <3>1
    <3>3. t[m] = s[was(m)]
      BY <3>1
    <3> QED BY <2>2, <3>2, <3>3
  <2>6. \A m, k \in DOMAIN t : (m < k => was(m) < was(k)) /\ (was(m) = was(k) => m = k)
    BY <2>2, <2>4
  <2>7. \A k \in DOMAIN s : k # i => \E m \in DOMAIN t : was(m) = k
    <3> SUFFICES ASSUME NEW k \in DOMAIN s, k # i PROVE \E m \in DOMAIN t : was(m) = k
      OBVIOUS
    <3>1. CASE k < i
      <4>1. k \in DOMAIN t /\ was(k) = k
        BY <2>2, <2>4, <3>1
      <4> QED BY <4>1
    <3>2. CASE ~(k < i)
      <4>1. k - 1 \in DOMAIN t /\ was(k - 1) = k
        <5>1. k \in 1 .. Len(s) /\ i \in 1 .. Len(s) /\ k > i
          BY <2>2, <3>2
        <5>2. k - 1 \in 1 .. Len(s) - 1 /\ ~(k - 1 < i) /\ k - 1 + 1 = k
          BY <2>2, <5>1
        <5> QED BY <2>4, <5>2
      <4> QED BY <4>1
    <3> QED BY <3>1, <3>2
  <2> HIDE DEF was
  <2>8. \A g, h \in Flushers : Ahead(g, h)' => Ahead(g, h)
    BY <2>1, <2>5, <2>6 DEF Ahead
  <2>9. \A m, k \in DOMAIN t : t[m] = t[k] => m = k
    BY <2>2, <2>5, <2>6
  <2>10. \A g : g \in ToSet(t) <=> g \in ToSet(s) /\ g # f
    <3>1. \A m \in DOMAIN t : t[m] # f
      BY <1>3, <2>1, <2>2, <2>5
    <3>2. \A m \in DOMAIN t : t[m] \in ToSet(s)
      BY <2>5 DEF ToSet
    <3>3. \A k \in DOMAIN s : s[k] # f => s[k] \in ToSet(t)
      BY <1>3, <2>1, <2>5, <2>7 DEF ToSet
    <3> QED BY <3>1, <3>2, <3>3 DEF ToSet
  <2>11. \A g \in Flushers : batch'[g] # <<>> <=> g \in ToSet(t)
    BY <1>1, <2>1, <2>10 DEF QueueInv
  <2>12. QueueInv'
    BY <2>1, <2>3, <2>9, <2>11 DEF QueueInv
  <2> QED BY <2>8, <2>12
<1> QED BY <1>1, <1>2, <1>3 DEF Leave

\* What is left at the lock and in the buffer is in order.
LEMMA LeaveInOrder ==
  ASSUME NEW f \in Flushers, Leave(f), QueueInv, OrderInv, batch \in [Flushers -> Seq(Rows)], UNCHANGED pending
  PROVE  /\ QueueInv' /\ OrderInv' /\ Outside' \subseteq Outside
         /\ \A g \in Flushers : g # f => batch'[g] = batch[g]
<1>1. /\ QueueInv' /\ \A g \in Flushers : batch'[g] = IF g = f THEN <<>> ELSE batch[g]
      /\ \A g, h \in Flushers : Ahead(g, h)' => Ahead(g, h)
  BY LeaveOrder
<1>2. ToSet(<<>>) = {} /\ Rising(<<>>)
  BY NoElements DEF Rising
<1>3. \A g \in Flushers : ToSet(batch'[g]) \subseteq ToSet(batch[g]) /\ (Rising(batch[g]) => Rising(batch'[g]))
  <2> SUFFICES ASSUME NEW g \in Flushers
               PROVE  ToSet(batch'[g]) \subseteq ToSet(batch[g]) /\ (Rising(batch[g]) => Rising(batch'[g]))
    OBVIOUS
  <2>1. CASE g = f
    BY <1>1, <1>2, <2>1
  <2>2. CASE g # f
    BY <1>1, <2>2
  <2> QED BY <2>1, <2>2
<1>4. Outside' \subseteq Outside
  BY <1>3 DEF Outside
<1>5. OrderInv'
  <2>1. Rising(pending') /\ \A g \in Flushers : Rising(batch'[g])
    BY <1>3 DEF OrderInv
  <2>2. \A g \in Flushers : Older(ToSet(batch'[g]), ToSet(pending'))
    BY <1>3 DEF OrderInv, Older
  <2>3. \A g, h \in Flushers : Ahead(g, h)' => Older(ToSet(batch'[g]), ToSet(batch'[h]))
    BY <1>1, <1>3 DEF OrderInv, Older
  <2> QED BY <2>1, <2>2, <2>3 DEF OrderInv, Older, Rising
<1> QED BY <1>1, <1>4, <1>5

\* The greatest of a set is its maximum.
LEMMA MaxIs ==
  ASSUME NEW S, NEW x \in S, \A y \in S : y \in Int /\ y <= x
  PROVE  Max(S) = x
<1>1. \A z \in S : (\A y \in S : z >= y) => z = x
  <2> SUFFICES ASSUME NEW z \in S, \A y \in S : z >= y PROVE z = x
    OBVIOUS
  <2>1. z \in Int /\ x \in Int /\ z <= x /\ x <= z
    OBVIOUS
  <2> QED BY <2>1
<1>2. \A y \in S : x >= y
  OBVIOUS
<1> QED BY <1>1, <1>2 DEF Max

\* A set of numbers up to n has a greatest.
LEMMA GreatestUpTo ==
  ASSUME NEW n \in Nat, NEW S \in SUBSET (1 .. n), S # {}
  PROVE  \E x \in S : \A y \in S : y <= x
<1> DEFINE K == {n - y : y \in S}
<1>0. \A y \in S : y \in 1 .. n /\ n - y \in Nat
  OBVIOUS
<1>1. K \subseteq Nat /\ K # {}
  BY <1>0
<1>2. PICK k \in K : \A j \in K : ~ (<<j, k>> \in OpToRel(<, Nat))
  BY <1>1, NatLessThanWellFounded, WFMin
<1>3. \A j \in K : j \in Nat /\ k \in Nat /\ ~(j < k)
  <2>1. \A j \in K : j < k => <<j, k>> \in OpToRel(<, Nat)
    BY <1>1 DEF OpToRel
  <2> QED BY <1>1, <1>2, <2>1
<1>4. PICK x \in S : k = n - x
  OBVIOUS
<1>5. \A y \in S : n - y \in K /\ y \in Int /\ x \in Int
  OBVIOUS
<1>6. \A y \in S : y <= x
  <2> HIDE DEF K
  <2> QED BY <1>3, <1>4, <1>5
<1> QED BY <1>6

\* What executemany leaves of one key: the newest of its rows, if it has any.
LEMMA KeyInserted ==
  ASSUME NEW rows \in Seq(Rows), Rising(rows), Insert(rows), NEW k \in RowKeys
  PROVE  /\ \A r \in ToSet(rows) : r[1] = k => r[2] <= database'[k]
         /\ \/ database'[k] = database[k] /\ \A r \in ToSet(rows) : r[1] # k
            \/ \E r \in ToSet(rows) : r[1] = k /\ database'[k] = r[2]
<1> DEFINE of == {i \in DOMAIN rows : rows[i][1] = k}
<1>1. database'[k] = IF of = {} THEN database[k] ELSE rows[Max(of)][2]
  BY Zenon DEF Insert
<1>2. DOMAIN rows = 1 .. Len(rows) /\ Len(rows) \in Nat /\ \A i \in DOMAIN rows : rows[i] \in Rows
  OBVIOUS
<1>3. CASE of = {}
  BY <1>1, <1>3 DEF ToSet
<1>4. CASE of # {}
  <2>1. PICK m \in of : \A i \in of : i <= m
    BY <1>2, <1>4, GreatestUpTo
  <2>2. \A i \in of : i \in Int
    BY <1>2
  <2>3. Max(of) = m
    <3> HIDE DEF of
    <3> QED BY <2>1, <2>2, MaxIs
  <2>4. database'[k] = rows[m][2] /\ m \in DOMAIN rows /\ rows[m][1] = k
    BY <1>1, <1>4, <2>1, <2>3
  <2>5. \A i \in DOMAIN rows : rows[i][1] = k => rows[i][2] <= rows[m][2]
    <3> SUFFICES ASSUME NEW i \in DOMAIN rows, rows[i][1] = k PROVE rows[i][2] <= rows[m][2]
      OBVIOUS
    <3>1. i <= m /\ i \in Int /\ m \in Int /\ rows[i][2] \in Nat /\ rows[m][2] \in Nat
      BY <1>2, <2>1, <2>2, <2>4 DEF Rows
    <3>2. CASE i < m
      BY <2>4, <3>1, <3>2 DEF Rising
    <3>3. CASE i = m
      BY <3>1, <3>3
    <3> QED BY <3>1, <3>2, <3>3
  <2>6. rows[m] \in ToSet(rows)
    BY <2>4 DEF ToSet
  <2>7. \A r \in ToSet(rows) : r[1] = k => r[2] <= database'[k]
    BY <2>4, <2>5 DEF ToSet
  <2> QED BY <2>4, <2>6, <2>7
<1> QED BY <1>3, <1>4

\* Whoever holds the lock is ahead of everybody else at it.
LEMMA HeadIsAhead ==
  ASSUME QueueInv, lockQueue # <<>>, NEW f, Head(lockQueue) = f
  PROVE  f \in Flushers /\ \A g \in Flushers : g # f /\ batch[g] # <<>> => Ahead(f, g)
<1>1. DOMAIN lockQueue = 1 .. Len(lockQueue) /\ Len(lockQueue) \in Nat /\ Len(lockQueue) > 0
      /\ lockQueue[1] = f /\ 1 \in DOMAIN lockQueue
  BY DEF QueueInv
<1>2. f \in Flushers
  BY <1>1 DEF QueueInv
<1>3. ASSUME NEW g \in Flushers, g # f, batch[g] # <<>> PROVE Ahead(f, g)
  <2>1. PICK j \in DOMAIN lockQueue : lockQueue[j] = g
    BY <1>3 DEF QueueInv, ToSet
  <2>2. 1 < j
    BY <1>1, <1>3, <2>1
  <2> QED BY <1>1, <2>1, <2>2 DEF Ahead
<1> QED BY <1>2, <1>3

\* The batch of whoever holds the lock goes to the table: the table stays behind
\* the other rows, and ahead of all that was inserted.
LEMMA HeadInserted ==
  ASSUME RowInv, QueueInv, OrderInv, TableInv, lockQueue # <<>>,
         NEW f, Head(lockQueue) = f, Insert(batch[f]), versions' = versions
  PROVE  /\ database' \in [RowKeys -> Nat] /\ inserted' \subseteq Rows
         /\ \A r \in ToSet(pending) \cup UNION {ToSet(batch[g]) : g \in Flushers \ {f}} :
              database'[r[1]] < r[2] /\ r[2] <= versions[r[1]]
         /\ \A r \in inserted' : r[2] <= database'[r[1]]
         /\ \A k \in RowKeys : database'[k] <= versions[k]
<1>1. f \in Flushers /\ \A g \in Flushers : g # f /\ batch[g] # <<>> => Ahead(f, g)
  BY HeadIsAhead
<1>2. PICK rows : rows = batch[f]
  OBVIOUS
<1>3. rows \in Seq(Rows) /\ Rising(rows) /\ Insert(rows) /\ ToSet(rows) \subseteq Outside
  BY <1>1, <1>2 DEF RowInv, OrderInv, Outside
<1>4. ToSet(rows) \subseteq Rows /\ Outside \subseteq Rows
  <2>1. \A g \in Flushers : ToSet(batch[g]) \subseteq Rows
    BY DEF RowInv, ToSet
  <2>2. ToSet(pending) \subseteq Rows
    BY DEF RowInv, ToSet
  <2> QED BY <1>1, <1>2, <2>1, <2>2 DEF Outside
<1>5. \A k \in RowKeys :
         /\ \A r \in ToSet(rows) : r[1] = k => r[2] <= database'[k]
         /\ \/ database'[k] = database[k] /\ \A r \in ToSet(rows) : r[1] # k
            \/ \E r \in ToSet(rows) : r[1] = k /\ database'[k] = r[2]
  BY <1>3, KeyInserted
<1>6. \A r \in Rows : r[1] \in RowKeys /\ r[2] \in Nat
  BY DEF Rows
<1>7. \A k \in RowKeys : database[k] \in Nat /\ versions[k] \in Nat /\ database'[k] \in Nat
  BY <1>4, <1>5, <1>6 DEF TableInv, RowInv
<1>8. database' \in [RowKeys -> Nat]
  <2>1. DOMAIN database' = RowKeys
    BY DEF Insert
  <2>2. database' = [k \in RowKeys |-> database'[k]]
    BY Zenon DEF Insert
  <2> QED BY <1>7, <2>2
<1>9. inserted' = inserted \cup ToSet(rows)
  BY <1>3, InsertEffect
<1>10. \A k \in RowKeys : database[k] <= database'[k] /\ database'[k] <= versions[k]
  <2> SUFFICES ASSUME NEW k \in RowKeys PROVE database[k] <= database'[k] /\ database'[k] <= versions[k]
    OBVIOUS
  <2>1. CASE database'[k] = database[k]
    BY <1>7, <2>1 DEF TableInv
  <2>2. ASSUME NEW r \in ToSet(rows), r[1] = k, database'[k] = r[2]
        PROVE  database[k] <= database'[k] /\ database'[k] <= versions[k]
    <3>1. database[k] < r[2] /\ r[2] <= versions[k]
      BY <1>3, <2>2 DEF TableInv
    <3> QED BY <1>7, <2>2, <3>1
  <2> QED BY <1>5, <2>1, <2>2
<1>11. \A r \in inserted' : r[2] <= database'[r[1]]
  <2> SUFFICES ASSUME NEW r \in inserted' PROVE r[2] <= database'[r[1]]
    OBVIOUS
  <2>1. CASE r \in ToSet(rows)
    BY <1>4, <1>5, <1>6, <2>1
  <2>2. CASE r \in inserted
    <3>1. r[2] <= database[r[1]] /\ r[1] \in RowKeys /\ r[2] \in Nat
      BY <1>6, <2>2 DEF TableInv
    <3> QED BY <1>7, <1>10, <3>1
  <2> QED BY <1>9, <2>1, <2>2
<1>12. ASSUME NEW R, R \subseteq Outside, Older(ToSet(rows), R), NEW r \in R
       PROVE  database'[r[1]] < r[2] /\ r[2] <= versions[r[1]]
  <2>1. r \in Rows /\ r[1] \in RowKeys /\ database[r[1]] < r[2] /\ r[2] <= versions[r[1]]
    BY <1>4, <1>6, <1>12 DEF TableInv
  <2>2. CASE database'[r[1]] = database[r[1]]
    BY <2>1, <2>2
  <2>3. ASSUME NEW q \in ToSet(rows), q[1] = r[1], database'[r[1]] = q[2]
        PROVE  database'[r[1]] < r[2]
    BY <1>12, <2>3 DEF Older
  <2> QED BY <1>5, <2>1, <2>2, <2>3
<1>13. ASSUME NEW r \in ToSet(pending) PROVE database'[r[1]] < r[2] /\ r[2] <= versions[r[1]]
  <2>1. ToSet(pending) \subseteq Outside /\ Older(ToSet(rows), ToSet(pending))
    BY <1>1, <1>2 DEF Outside, OrderInv
  <2> QED BY <1>12, <2>1
<1>14. ASSUME NEW g \in Flushers, g # f, NEW r \in ToSet(batch[g])
       PROVE  database'[r[1]] < r[2] /\ r[2] <= versions[r[1]]
  <2>1. batch[g] # <<>>
    BY <1>14, NoElements
  <2>2. Older(ToSet(rows), ToSet(batch[g])) /\ ToSet(batch[g]) \subseteq Outside
    BY <1>1, <1>2, <1>14, <2>1 DEF OrderInv, Outside
  <2> QED BY <1>12, <1>14, <2>2
<1>15. inserted' \subseteq Rows
  BY <1>4, <1>9 DEF TableInv
<1> QED BY <1>8, <1>10, <1>11, <1>13, <1>14, <1>15

\* The table is behind what is left outside, and nothing else moved.
LEMMA TableKept ==
  ASSUME TableInv, UNCHANGED <<database, inserted, versions>>, Outside' \subseteq Outside
  PROVE  TableInv'
  BY DEF TableInv

\* After the step that inserts a batch and leaves the lock.
LEMMA BatchInserted ==
  ASSUME RowInv, QueueInv, OrderInv, TableInv, lockQueue # <<>>,
         NEW f, Head(lockQueue) = f, Insert(batch[f]), Leave(f), UNCHANGED <<pending, versions>>
  PROVE  QueueInv' /\ OrderInv' /\ TableInv'
<1>1. f \in Flushers
  BY HeadIsAhead
<1>2. /\ QueueInv' /\ OrderInv' /\ Outside' \subseteq Outside
      /\ \A g \in Flushers : g # f => batch'[g] = batch[g]
  BY <1>1, LeaveInOrder DEF RowInv
<1>3. batch'[f] = <<>>
  BY <1>1 DEF Leave, RowInv
<1>4. Outside' \subseteq ToSet(pending) \cup UNION {ToSet(batch[g]) : g \in Flushers \ {f}}
  <2>1. ASSUME NEW g \in Flushers
        PROVE  ToSet(batch'[g]) \subseteq UNION {ToSet(batch[h]) : h \in Flushers \ {f}}
    <3>1. CASE g = f
      BY <1>3, <3>1, NoElements
    <3>2. CASE g # f
      BY <1>2, <3>2
    <3> QED BY <3>1, <3>2
  <2>2. ToSet(pending') = ToSet(pending)
    OBVIOUS
  <2> QED BY <2>1, <2>2 DEF Outside
<1>5. /\ database' \in [RowKeys -> Nat] /\ inserted' \subseteq Rows
      /\ \A r \in ToSet(pending) \cup UNION {ToSet(batch[g]) : g \in Flushers \ {f}} :
           database'[r[1]] < r[2] /\ r[2] <= versions[r[1]]
      /\ \A r \in inserted' : r[2] <= database'[r[1]]
      /\ \A k \in RowKeys : database'[k] <= versions[k]
  BY HeadInserted
<1>6. TableInv'
  BY <1>4, <1>5 DEF TableInv
<1> QED BY <1>2, <1>6

\* The rows of the buffer become a batch, behind those that are at the lock.
LEMMA BatchTaken ==
  ASSUME NEW f \in Flushers, NEW rows \in Seq(Rows), rows # <<>>, Rising(rows),
         \A g \in Flushers : Older(ToSet(batch[g]), ToSet(rows)),
         batch \in [Flushers -> Seq(Rows)], batch[f] = <<>>,
         TakeBatch(f, rows), QueueInv, OrderInv
  PROVE  QueueInv' /\ OrderInv' /\ Outside' \subseteq ToSet(rows) \cup Outside
<1>1. PICK s, t : s = lockQueue /\ t = lockQueue'
  OBVIOUS
<1>2. /\ s \in Seq(Flushers) /\ t = Append(s, f) /\ f \notin ToSet(s)
      /\ \A m, k \in DOMAIN s : s[m] = s[k] => m = k
  BY <1>1 DEF QueueInv, TakeBatch
<1>3. /\ t \in Seq(Flushers) /\ DOMAIN s = 1 .. Len(s) /\ Len(s) \in Nat /\ DOMAIN t = 1 .. Len(s) + 1
      /\ t[Len(s) + 1] = f /\ \A m \in 1 .. Len(s) : t[m] = s[m]
  BY <1>2
<1>4. \A m \in DOMAIN t : m = Len(s) + 1 \/ m \in DOMAIN s
  BY <1>3
<1>5. \A m \in DOMAIN s : m \in DOMAIN t /\ t[m] = s[m] /\ s[m] # f
  BY <1>2, <1>3 DEF ToSet
<1>6. \A m, k \in DOMAIN t : t[m] = t[k] => m = k
  BY <1>2, <1>3, <1>4, <1>5
<1>7. \A g : g \in ToSet(t) <=> g = f \/ g \in ToSet(s)
  <2>1. Len(s) + 1 \in DOMAIN t
    BY <1>3
  <2> QED BY <1>3, <1>4, <1>5, <2>1 DEF ToSet
<1>8. \A g \in Flushers : batch'[g] = IF g = f THEN rows ELSE batch[g]
  BY DEF TakeBatch
<1>9. \A g \in Flushers : batch'[g] # <<>> <=> g \in ToSet(t)
  BY <1>1, <1>7, <1>8 DEF QueueInv
<1>10. QueueInv'
  BY <1>1, <1>3, <1>6, <1>9 DEF QueueInv
<1>11. pending' = <<>> /\ ToSet(pending') = {} /\ Rising(pending')
  BY NoElements DEF TakeBatch, Rising
<1>12. \A g \in Flushers : Rising(batch'[g])
  <2> SUFFICES ASSUME NEW g \in Flushers PROVE Rising(batch'[g])
    OBVIOUS
  <2>1. batch'[g] = rows \/ batch'[g] = batch[g]
    BY <1>8
  <2>2. Rising(batch[g])
    BY DEF OrderInv
  <2>3. CASE batch'[g] = rows
    BY <2>3
  <2>4. CASE batch'[g] = batch[g]
    BY <2>2, <2>4
  <2> QED BY <2>1, <2>3, <2>4
<1>13. \A g \in Flushers : Older(ToSet(batch'[g]), ToSet(pending'))
  BY <1>11 DEF Older
<1>14. ASSUME NEW g \in Flushers, NEW h \in Flushers, Ahead(g, h)'
       PROVE  Older(ToSet(batch'[g]), ToSet(batch'[h]))
  <2>1. PICK m, k \in DOMAIN t : m < k /\ t[m] = g /\ t[k] = h
    BY <1>1, <1>14 DEF Ahead
  <2>2. m \in DOMAIN s /\ s[m] = g /\ g # f
    BY <1>3, <1>4, <1>5, <2>1
  <2>3. batch'[g] = batch[g]
    BY <1>8, <2>2
  <2>4. CASE h = f
    <3>1. batch'[h] = rows
      BY <1>8, <2>4
    <3> QED BY <2>3, <3>1
  <2>5. CASE h # f
    <3>1. k \in DOMAIN s /\ s[k] = h /\ batch'[h] = batch[h]
      BY <1>3, <1>4, <1>5, <1>8, <2>1, <2>5
    <3>2. Ahead(g, h)
      BY <1>1, <2>1, <2>2, <3>1 DEF Ahead
    <3> QED BY <2>3, <3>1, <3>2 DEF OrderInv
  <2> QED BY <2>4, <2>5
<1>15. OrderInv'
  BY <1>11, <1>12, <1>13, <1>14 DEF OrderInv
<1>16. Outside' \subseteq ToSet(rows) \cup Outside
  <2>1. \A g \in Flushers : ToSet(batch'[g]) \subseteq ToSet(rows) \cup ToSet(batch[g])
    <3> SUFFICES ASSUME NEW g \in Flushers PROVE ToSet(batch'[g]) \subseteq ToSet(rows) \cup ToSet(batch[g])
      OBVIOUS
    <3>1. CASE g = f
      BY <1>8, <3>1
    <3>2. CASE g # f
      BY <1>8, <3>2
    <3> QED BY <3>1, <3>2
  <2> QED BY <1>11, <2>1 DEF Outside
<1> QED BY <1>10, <1>15, <1>16

\* The buffer is flushed as it is.
LEMMA PendingTaken ==
  ASSUME RowInv, QueueInv, OrderInv, TableInv, NEW f \in Flushers, batch[f] = <<>>, pending # <<>>,
         TakeBatch(f, pending), UNCHANGED <<database, inserted, versions>>
  PROVE  QueueInv' /\ OrderInv' /\ TableInv'
<1>1. /\ pending \in Seq(Rows) /\ Rising(pending) /\ batch \in [Flushers -> Seq(Rows)]
      /\ \A g \in Flushers : Older(ToSet(batch[g]), ToSet(pending))
  BY DEF RowInv, OrderInv
<1>2. QueueInv' /\ OrderInv' /\ Outside' \subseteq ToSet(pending) \cup Outside
  <2>1. PICK rows : rows = pending
    OBVIOUS
  <2>2. QueueInv' /\ OrderInv' /\ Outside' \subseteq ToSet(rows) \cup Outside
    BY <1>1, <2>1, BatchTaken
  <2> QED BY <2>1, <2>2
<1>3. Outside' \subseteq Outside
  BY <1>2 DEF Outside
<1> QED BY <1>2, <1>3, TableKept

\* A row that is newer than all of a key joins the buffer.
LEMMA RowJoins ==
  ASSUME NEW s \in Seq(Rows), Rising(s), NEW k \in RowKeys, NEW v \in Nat,
         \A r \in ToSet(s) : r[1] = k => r[2] < v
  PROVE  Rising(Append(s, <<k, v>>))
<1>1. PICK row : row = <<k, v>>
  OBVIOUS
<1>2. row[1] = k /\ row[2] = v /\ row \in Rows
  BY <1>1 DEF Rows
<1>3. PICK t : t = Append(s, row)
  OBVIOUS
<1>4. /\ DOMAIN s = 1 .. Len(s) /\ Len(s) \in Nat /\ DOMAIN t = 1 .. Len(s) + 1
      /\ t[Len(s) + 1] = row /\ \A m \in 1 .. Len(s) : t[m] = s[m]
  BY <1>2, <1>3
<1>5. ASSUME NEW i \in DOMAIN t, NEW j \in DOMAIN t, i < j, t[i][1] = t[j][1]
      PROVE  t[i][2] < t[j][2]
  <2>1. i \in DOMAIN s /\ t[i] = s[i] /\ s[i] \in ToSet(s)
    BY <1>4, <1>5 DEF ToSet
  <2>2. CASE j \in DOMAIN s
    <3>1. t[j] = s[j]
      BY <1>4, <2>2
    <3> QED BY <1>5, <2>1, <2>2, <3>1 DEF Rising
  <2>3. CASE j = Len(s) + 1
    <3>1. t[j] = row
      BY <1>4, <2>3
    <3>2. s[i][1] = k
      BY <1>2, <1>5, <2>1, <3>1
    <3> QED BY <1>2, <2>1, <3>1, <3>2
  <2> QED BY <1>4, <2>2, <2>3
<1> QED BY <1>1, <1>3, <1>5 DEF Rising

\* A row that is written is newer than all of its key.
LEMMA NewestWritten ==
  ASSUME RowInv, QueueInv, OrderInv, TableInv, NEW w \in RowWriters, NEW k \in RowKeys, WriteRow(w, k)
  PROVE  QueueInv' /\ OrderInv' /\ TableInv'
<1> DEFINE v == versions[k] + 1
           rows == Append(pending, <<k, v>>)
<1>1. /\ versions' = [versions EXCEPT ![k] = v] /\ v \in Nat /\ batch[w] = <<>>
      /\ database' = database /\ inserted' = inserted /\ w \in Flushers
  BY DEF WriteRow, RowInv, Flushers
<1>2. versions'[k] = v /\ \A j \in RowKeys : versions[j] <= versions'[j] /\ versions[j] \in Nat /\ versions'[j] \in Nat
  BY <1>1 DEF RowInv
<1>3. \A r \in Outside : r \in Rows /\ r[1] \in RowKeys /\ r[2] \in Nat /\ (r[1] = k => r[2] < v)
  <2>1. Outside \subseteq Rows
    <3>1. \A g \in Flushers : ToSet(batch[g]) \subseteq Rows
      BY DEF RowInv, ToSet
    <3>2. ToSet(pending) \subseteq Rows
      BY DEF RowInv, ToSet
    <3> QED BY <3>1, <3>2 DEF Outside
  <2>2. \A r \in Rows : r[1] \in RowKeys /\ r[2] \in Nat
    BY DEF Rows
  <2>3. \A r \in Outside : r[2] <= versions[r[1]]
    BY DEF TableInv
  <2>4. ASSUME NEW r \in Outside, r[1] = k PROVE r[2] < v
    BY <1>1, <1>2, <2>1, <2>2, <2>3, <2>4
  <2> QED BY <2>1, <2>2, <2>4
<1>4. PICK row : row = <<k, v>>
  OBVIOUS
<1>5. row[1] = k /\ row[2] = v /\ row \in Rows
  BY <1>1, <1>4 DEF Rows
<1>6. rows \in Seq(Rows) /\ ToSet(rows) = ToSet(pending) \cup {row} /\ rows # <<>>
  <2>1. Append(pending, row) \in Seq(Rows) /\ ToSet(Append(pending, row)) = ToSet(pending) \cup {row}
    BY <1>5, RowAppended DEF RowInv
  <2>2. Append(pending, row) # <<>>
    BY <1>5 DEF RowInv
  <2> QED BY <1>4, <2>1, <2>2
<1>7. Rising(rows)
  <2>1. ToSet(pending) \subseteq Outside
    BY DEF Outside
  <2> QED BY <1>1, <1>3, <2>1, RowJoins DEF RowInv, OrderInv
<1>8. \A g \in Flushers : Older(ToSet(batch[g]), ToSet(rows))
  <2>1. \A g \in Flushers : ToSet(batch[g]) \subseteq Outside
    BY DEF Outside
  <2>2. \A g \in Flushers : Older(ToSet(batch[g]), ToSet(pending))
    BY DEF OrderInv
  <2>3. \A g \in Flushers : \A r \in ToSet(batch[g]) : r[1] = row[1] => r[2] < row[2]
    BY <1>3, <1>5, <2>1
  <2> QED BY <1>6, <2>2, <2>3 DEF Older
<1>9. \/ TakeBatch(w, rows)
      \/ pending' = rows /\ batch' = batch /\ lockQueue' = lockQueue
  <2> DEFINE written == Append(pending, <<k, versions'[k]>>)
  <2>1. rows = written
    BY <1>2
  <2>2. IF Len(written) >= BufferSize THEN TakeBatch(w, written)
        ELSE pending' = written /\ UNCHANGED <<batch, lockQueue>>
    BY Zenon DEF WriteRow
  <2> HIDE DEF rows, written
  <2>3. TakeBatch(w, written) \/ (pending' = written /\ batch' = batch /\ lockQueue' = lockQueue)
    BY <2>2
  <2> QED BY <2>1, <2>3
<1>10. QueueInv' /\ OrderInv' /\ Outside' \subseteq ToSet(rows) \cup Outside
  <2>1. CASE TakeBatch(w, rows)
    <3>1. batch \in [Flushers -> Seq(Rows)]
      BY DEF RowInv
    <3> HIDE DEF rows
    <3> QED BY <1>1, <1>6, <1>7, <1>8, <2>1, <3>1, BatchTaken
  <2>2. CASE pending' = rows /\ batch' = batch /\ lockQueue' = lockQueue
    <3> HIDE DEF rows
    <3>1. QueueInv'
      BY <2>2 DEF QueueInv, ToSet
    <3>2. \A g, h \in Flushers : Ahead(g, h)' => Ahead(g, h)
      BY <2>2 DEF Ahead
    <3>3. \A g \in Flushers : Rising(batch'[g])
      BY <2>2 DEF OrderInv
    <3>4. \A g, h \in Flushers : Ahead(g, h)' => Older(ToSet(batch'[g]), ToSet(batch'[h]))
      BY <2>2, <3>2 DEF OrderInv
    <3>5. Rising(pending') /\ \A g \in Flushers : Older(ToSet(batch'[g]), ToSet(pending'))
      BY <1>7, <1>8, <2>2
    <3>6. OrderInv'
      BY <3>3, <3>4, <3>5 DEF OrderInv
    <3>7. Outside' \subseteq ToSet(rows) \cup Outside
      BY <2>2 DEF Outside
    <3> QED BY <3>1, <3>6, <3>7
  <2> QED BY <1>9, <2>1, <2>2
<1>11. Outside' \subseteq Outside \cup {row}
  BY <1>6, <1>10 DEF Outside
<1>12. \A r \in Outside' : database'[r[1]] < r[2] /\ r[2] <= versions'[r[1]]
  <2> SUFFICES ASSUME NEW r \in Outside' PROVE database'[r[1]] < r[2] /\ r[2] <= versions'[r[1]]
    OBVIOUS
  <2>1. CASE r \in Outside
    <3>1. database[r[1]] < r[2] /\ r[2] <= versions[r[1]] /\ r[1] \in RowKeys /\ r[2] \in Nat
      BY <1>3, <2>1 DEF TableInv
    <3>2. versions[r[1]] <= versions'[r[1]] /\ versions[r[1]] \in Nat /\ versions'[r[1]] \in Nat
      BY <1>2, <3>1
    <3> QED BY <1>1, <3>1, <3>2
  <2>2. CASE r = row
    <3>1. database[k] <= versions[k] /\ database[k] \in Nat
      BY DEF TableInv
    <3> QED BY <1>1, <1>2, <1>5, <2>2, <3>1
  <2> QED BY <1>11, <2>1, <2>2
<1>13. \A j \in RowKeys : database'[j] <= versions'[j]
  BY <1>1, <1>2 DEF TableInv
<1>14. TableInv'
  BY <1>1, <1>12, <1>13 DEF TableInv
<1> QED BY <1>10, <1>14

\* The empty buffer.
LEMMA NewestStart == BatchInit => NewestInv
<1> SUFFICES ASSUME BatchInit PROVE NewestInv
  OBVIOUS
<1>1. /\ pending = <<>> /\ lockQueue = <<>> /\ inserted = {} /\ failures = 0
      /\ batch = [f \in Flushers |-> <<>>]
      /\ database = [k \in RowKeys |-> 0] /\ versions = [k \in RowKeys |-> 0]
  BY DEF BatchInit
<1>2. ToSet(<<>>) = {} /\ Rising(<<>>)
  BY NoElements DEF Rising
<1>3. \A f \in Flushers : batch[f] = <<>>
  BY <1>1
<1>4. QueueInv
  BY <1>1, <1>2, <1>3 DEF QueueInv
<1>5. OrderInv
  BY <1>1, <1>2, <1>3 DEF OrderInv, Older, Ahead
<1>6. Outside = {}
  BY <1>1, <1>2, <1>3 DEF Outside
<1>7. TableInv
  BY <1>1, <1>6 DEF TableInv
<1> QED BY <1>1, <1>4, <1>5, <1>7 DEF NewestInv

\* A step keeps the order of the rows, until an insert fails.
LEMMA NewestStep ==
  ASSUME RowInv, NewestInv, [BatchNext]_batchVars
  PROVE  NewestInv'
<1>1. ASSUME NEW f \in Flushers, WriteFails(f) PROVE NewestInv'
  BY <1>1 DEF WriteFails, NewestInv
<1>2. CASE UNCHANGED failures /\ failures # 0
  BY <1>2 DEF NewestInv
<1>3. CASE UNCHANGED failures /\ failures = 0
  <2>1. QueueInv /\ OrderInv /\ TableInv
    BY <1>3 DEF NewestInv
  <2>2. ASSUME QueueInv' /\ OrderInv' /\ TableInv' PROVE NewestInv'
    BY <1>3, <2>2 DEF NewestInv
  <2>3. ASSUME NEW w \in RowWriters, NEW k \in RowKeys, WriteRow(w, k) PROVE NewestInv'
    BY <2>1, <2>2, <2>3, NewestWritten
  <2>4. ASSUME NEW f \in Flushers, WriteBatch(f) PROVE NewestInv'
    BY <2>1, <2>2, <2>4, BatchInserted DEF WriteBatch
  <2>5. CASE TimerFlush
    <3>1. Timer \in Flushers
      BY DEF Flushers
    <3> QED BY <2>1, <2>2, <2>5, <3>1, PendingTaken DEF TimerFlush
  <2>6. CASE StopWriter
    <3>1. Leave(Timer) /\ UNCHANGED <<pending, versions>> /\ Timer \in Flushers
      BY <2>6 DEF StopWriter, Flushers
    <3>2. CASE UNCHANGED <<database, inserted>>
      <4>1. QueueInv' /\ OrderInv' /\ Outside' \subseteq Outside
        BY <2>1, <3>1, LeaveInOrder DEF RowInv
      <4>2. TableInv'
        BY <2>1, <3>1, <3>2, <4>1, TableKept
      <4> QED BY <2>2, <4>1, <4>2
    <3>3. CASE lockQueue # <<>> /\ Head(lockQueue) = Timer /\ Insert(batch[Timer])
      BY <2>1, <2>2, <3>1, <3>3, BatchInserted
    <3> QED BY <2>6, <3>2, <3>3 DEF StopWriter
  <2>7. CASE LastFlush
    <3>1. /\ writerUp = "stopping" /\ UNCHANGED <<database, versions, inserted>>
          /\ \/ UNCHANGED <<pending, batch, lockQueue>>
             \/ pending # <<>> /\ TakeBatch(Closer, pending)
      BY <2>7 DEF LastFlush
    <3>2. Closer \in Flushers /\ batch[Closer] = <<>>
      BY <3>1 DEF Flushers, RowInv
    <3>3. CASE UNCHANGED <<pending, batch, lockQueue>>
      <4>1. QueueInv' /\ OrderInv' /\ TableInv'
        BY <2>1, <3>1, <3>3 DEF QueueInv, OrderInv, TableInv, Ahead, Outside
      <4> QED BY <2>2, <4>1
    <3>4. CASE pending # <<>> /\ TakeBatch(Closer, pending)
      BY <2>1, <2>2, <3>1, <3>2, <3>4, PendingTaken
    <3> QED BY <3>1, <3>3, <3>4
  <2>8. CASE UNCHANGED batchVars
    <3>1. QueueInv' /\ OrderInv' /\ TableInv'
      BY <2>1, <2>8 DEF batchVars, QueueInv, OrderInv, TableInv, Ahead, Outside
    <3> QED BY <2>2, <3>1
  <2>9. ASSUME NEW f \in Flushers, WriteFails(f) PROVE NewestInv'
    BY <1>1, <2>9
  <2> QED BY <2>3, <2>4, <2>5, <2>6, <2>7, <2>8, <2>9 DEF BatchNext
<1>4. UNCHANGED failures \/ \E f \in Flushers : WriteFails(f)
  BY DEF BatchNext, batchVars, WriteRow, WriteBatch, TimerFlush, StopWriter, LastFlush
<1> QED BY <1>1, <1>2, <1>3, <1>4

\* The two invariants say what is promised of the rows.
LEMMA RowsAreKept == RowInv /\ NewestInv => RowsKept
<1> SUFFICES ASSUME RowInv, NewestInv PROVE RowsKept
  OBVIOUS
<1>1. NewestInTable
  BY DEF NewestInv, TableInv, NewestInTable
<1> QED BY <1>1 DEF RowInv, RowsKept

\* No row is lost on the way to the table, through any order of flushes and
\* failing inserts, unless stop cancelled the timer that held it; and until an
\* insert fails the newest row of a key is never overwritten by an older one,
\* whoever took it and whoever got the lock first (batch_writer.py: flush,
\* _periodic_flush, stop; duckdb_manager.py: executemany): a part of
\* MarketDataTrue.
THEOREM RowsKeptHolds == BatchSpec => []RowsKept
<1>1. RowInv /\ NewestInv => RowsKept
  BY RowsAreKept
<1>2. RowInv /\ NewestInv /\ [BatchNext]_batchVars => RowInv' /\ NewestInv'
  BY RowStep, NewestStep, BatchAssumption
<1>3. BatchInit => RowInv /\ NewestInv
  BY RowInit, NewestStart
<1> QED
  BY <1>1, <1>2, <1>3, PTL DEF BatchSpec

-----------------------------------------------------------------------------
(* The streams of the exchanges.                                           *)

\* While the loop dials, the URL lacks or has too much only what changed since;
\* once it is up, the socket is open and serves the rest.
ServedInv ==
  /\ subscribed \subseteq Streams
  /\ loop = "dial" => \A s \in Streams : (s \in subscribed) = (s \in named) \/ s \in duringDial
  /\ loop = "up" => socket = "open" /\ SubscribedIsServed

\* A change while the loop dials is noted; every other one reaches the socket.
LEMMA ServedStep == ServedInv /\ [StreamNext]_streamVars => ServedInv'
<1> SUFFICES ASSUME ServedInv, [StreamNext]_streamVars PROVE ServedInv'
  OBVIOUS
<1>1. ASSUME NEW s \in Streams,
             SubscribeStream(s) \/ UnsubscribeName(s) \/ UnsubscribeArg(s)
      PROVE  ServedInv'
  BY <1>1 DEF SubscribeStream, UnsubscribeName, UnsubscribeArg, Noted, ServedInv, SubscribedIsServed
<1>2. CASE StartStream \/ BackoffOver
  BY <1>2 DEF StartStream, BackoffOver, ServedInv
<1>3. CASE ConnectedByName
  BY <1>3 DEF ConnectedByName, ServedInv, SubscribedIsServed
<1>4. CASE ConnectedByArgs
  BY <1>4 DEF ConnectedByArgs, ServedInv, SubscribedIsServed
<1>5. ASSUME NEW clean \in BOOLEAN, LinkEnds(clean) PROVE ServedInv'
  BY <1>5 DEF LinkEnds, ServedInv
<1>6. CASE DialFails \/ StopStream
  BY <1>6 DEF DialFails, StopStream, ServedInv
<1>7. CASE PingFires \/ UNCHANGED streamVars
  BY <1>7 DEF PingFires, streamVars, ServedInv, SubscribedIsServed
<1>8. ASSUME NEW s \in Streams, HeardEvent(s) \/ HeardPush(s) PROVE ServedInv'
  BY <1>8 DEF HeardEvent, HeardPush, Heard, ServedInv, SubscribedIsServed
<1> QED
  BY <1>1, <1>2, <1>3, <1>4, <1>5, <1>6, <1>7, <1>8 DEF StreamNext

\* Nothing is subscribed before the first dial.
LEMMA ServedStart == StreamInit => ServedInv
  BY DEF StreamInit, ServedInv

\* The invariant holds what is promised.
LEMMA ServedIsEnough == ServedInv => SubscribedIsServed
  BY DEF ServedInv, SubscribedIsServed

\* On an open connection the exchange sends what is subscribed, through breaks
\* and changes at any time, but for the streams that changed while a URL that
\* names them was being dialled (_ws_connect, _send_subscribe): a part of
\* MarketDataTrue.
THEOREM SubscribedIsServedHolds == StreamSpec => []SubscribedIsServed
  BY ServedStart, ServedIsEnough, ServedStep, PTL DEF StreamSpec

-----------------------------------------------------------------------------
(* The bars that are stored.                                               *)

\* Bars of minutes and what merging makes of them.
MinuteBars == [start : Nat, open : Nat, high : Nat, low : Nat, close : Nat]

\* The bar opens with minute s, and no minute up to n leaves its range.
Covers(merged, s, n) ==
  /\ merged.open = minutes[s].open
  /\ \A m \in s .. n : merged.low <= minutes[m].low /\ minutes[m].high <= merged.high

\* Its high and its low were traded, by now.
Within(merged, s) ==
  /\ \E m \in s .. NowAt : merged.high <= minutes[m].high
  /\ \E m \in s .. NowAt : minutes[m].low <= merged.low

\* The bar being merged is true of the minutes that closed, as long as none of
\* the larger bar was lost; the forming minute may have traded on since.
MergeInv ==
  LET s == StartOf(NowAt) IN
  s \notin unheard =>
    /\ s < NowAt => merging.start = s
    /\ merging.start = s => Covers(merging, s, NowAt - 1) /\ Within(merging, s)

MarketTyped ==
  /\ minutes \in Seq(MinuteBars) /\ Len(minutes) > 0
  /\ merging \in MinuteBars \cup {NoBar} /\ merging.start <= StartOf(NowAt)
  /\ "larger" \in emitted => NowAt % Bucket = 0
  /\ DOMAIN stored \subseteq {"minute", "larger"} \X (1 .. NowAt)

\* The invariant: what is stored is read from the bar being merged.
MarketInv == MarketTyped /\ MergeInv /\ StoredIsTrue

\* Multiples of a number are that number apart.
LEMMA MultiplesApart ==
  ASSUME NEW b \in Nat, b > 0, NEW p \in Int, NEW q \in Int, q > p
  PROVE  b * p \in Int /\ b * q \in Int /\ b * p + b <= b * q
<1>1. q - p >= 1 /\ q - p \in Int
  OBVIOUS
<1>2. b * (q - p) >= b
  BY <1>1
<1>3. b * (q - p) = b * q - b * p
  OBVIOUS
<1> QED BY <1>2, <1>3

\* A number is a multiple of the bucket and a rest in one way.
LEMMA RestIs ==
  ASSUME NEW b \in Nat, b > 0, NEW a \in Int, NEW q \in Int, NEW r \in 0 .. b - 1, a = b * q + r
  PROVE  a % b = r
<1>1. a \div b \in Int /\ a % b \in 0 .. b - 1 /\ a = b * (a \div b) + (a % b)
  OBVIOUS
<1>2. PICK p, t \in Int : p = a \div b /\ t = a % b
  BY <1>1
<1>3. t \in 0 .. b - 1 /\ b * p + t = b * q + r
  BY <1>1, <1>2
<1>4. ~(q > p) /\ ~(p > q)
  <2>1. q > p => b * p + b <= b * q
    BY MultiplesApart
  <2>2. p > q => b * q + b <= b * p
    BY MultiplesApart
  <2>3. b * p \in Int /\ b * q \in Int
    OBVIOUS
  <2> QED BY <1>3, <2>1, <2>2, <2>3
<1>5. p = q
  BY <1>4
<1>6. b * p \in Int
  OBVIOUS
<1> QED BY <1>2, <1>3, <1>5, <1>6

\* A larger bar has minutes.
LEMMA BucketPositive == Bucket \in Nat /\ Bucket > 0
  BY MarketAssumption

\* A minute lies in the larger bar that starts with StartOf it.
LEMMA StartBefore ==
  ASSUME NEW m \in Nat, m > 0
  PROVE  /\ StartOf(m) \in Nat /\ 1 <= StartOf(m) /\ StartOf(m) <= m /\ m < StartOf(m) + Bucket
         /\ \E q \in Int : StartOf(m) - 1 = Bucket * q
<1>1. m - 1 \in Nat /\ Bucket \in Nat /\ Bucket > 0
  BY BucketPositive
<1>2. (m - 1) \div Bucket \in Int /\ (m - 1) % Bucket \in 0 .. Bucket - 1
      /\ m - 1 = Bucket * ((m - 1) \div Bucket) + ((m - 1) % Bucket)
  BY <1>1
<1>3. PICK q, r \in Int : q = (m - 1) \div Bucket /\ r = (m - 1) % Bucket
  BY <1>2
<1>4. r \in 0 .. Bucket - 1 /\ m - 1 = Bucket * q + r /\ StartOf(m) = m - r /\ Bucket * q \in Int
  BY <1>1, <1>2, <1>3 DEF StartOf
<1>5. q >= 0
  <2>1. 0 > q => Bucket * q + Bucket <= Bucket * 0
    BY <1>1, MultiplesApart
  <2>2. Bucket * 0 = 0
    BY <1>1
  <2> QED BY <1>1, <1>4, <2>1, <2>2
<1>6. Bucket * q >= 0
  BY <1>1, <1>5
<1>7. StartOf(m) - 1 = Bucket * q
  BY <1>4
<1> QED BY <1>1, <1>4, <1>6, <1>7

\* All minutes of a larger bar have its start, and no other minute has.
LEMMA StartOfAll ==
  ASSUME NEW m \in Nat, m > 0, NEW k \in StartOf(m) .. StartOf(m) + Bucket - 1
  PROVE  StartOf(k) = StartOf(m)
<1>1. PICK q \in Int : StartOf(m) - 1 = Bucket * q
  BY StartBefore
<1>2. PICK s \in Nat : s = StartOf(m)
  BY StartBefore
<1>3. k \in Int /\ Bucket \in Nat /\ Bucket > 0 /\ k - s \in 0 .. Bucket - 1 /\ Bucket * q \in Int
  BY <1>2, BucketPositive
<1>4. k - 1 = Bucket * q + (k - s)
  BY <1>1, <1>2, <1>3
<1>5. (k - 1) % Bucket = k - s
  BY <1>3, <1>4, RestIs
<1> QED BY <1>2, <1>3, <1>5 DEF StartOf

\* The next minute is of the same larger bar, or the bar ended.
LEMMA NextStart ==
  ASSUME NEW m \in Nat, m > 0
  PROVE  /\ m % Bucket = 0 => m = StartOf(m) + Bucket - 1 /\ StartOf(m + 1) = m + 1
         /\ m % Bucket # 0 => m + 1 < StartOf(m) + Bucket /\ StartOf(m + 1) = StartOf(m)
<1>1. PICK q \in Int : StartOf(m) - 1 = Bucket * q
  BY StartBefore
<1>2. PICK s \in Nat : s = StartOf(m)
  BY StartBefore
<1>3. Bucket \in Nat /\ Bucket > 0 /\ s <= m /\ m < s + Bucket /\ Bucket * q \in Int /\ s - 1 = Bucket * q
  BY <1>1, <1>2, StartBefore, BucketPositive
<1>4. CASE m = s + Bucket - 1
  <2>1. Bucket * (q + 1) = Bucket * q + Bucket /\ q + 1 \in Int /\ 0 \in 0 .. Bucket - 1
    BY <1>3
  <2>2. m = Bucket * (q + 1) + 0
    BY <1>3, <1>4, <2>1
  <2>3. m % Bucket = 0
    BY <1>3, <2>1, <2>2, RestIs
  <2>4. StartOf(m + 1) = m + 1
    BY <2>3 DEF StartOf
  <2> QED BY <1>2, <1>4, <2>3, <2>4
<1>5. CASE m # s + Bucket - 1
  <2>1. m + 1 < s + Bucket /\ m - s + 1 \in 1 .. Bucket - 1 /\ m - s + 1 \in 0 .. Bucket - 1 /\ m \in Int
    BY <1>3, <1>5
  <2>2. m = Bucket * q + (m - s + 1)
    BY <1>3
  <2>3. m % Bucket = m - s + 1
    BY <1>3, <2>1, <2>2, RestIs
  <2>4. m % Bucket # 0
    BY <2>1, <2>3
  <2>5. m + 1 \in s .. s + Bucket - 1
    BY <1>3, <2>1
  <2>6. StartOf(m + 1) = s
    BY <1>2, <2>5, StartOfAll
  <2> QED BY <1>2, <2>1, <2>4, <2>6
<1> QED BY <1>4, <1>5

\* The least of a set is its minimum.
LEMMA MinIs ==
  ASSUME NEW S, NEW x \in S, \A y \in S : y \in Int /\ x <= y
  PROVE  Min(S) = x
<1>1. \A z \in S : (\A y \in S : z <= y) => z = x
  <2> SUFFICES ASSUME NEW z \in S, \A y \in S : z <= y PROVE z = x
    OBVIOUS
  <2>1. z \in Int /\ x \in Int /\ z <= x /\ x <= z
    OBVIOUS
  <2> QED BY <2>1
<1> QED BY <1>1 DEF Min

\* There are n numbers from 1 to n.
LEMMA CountTo == \A n \in Nat : Cardinality(1 .. n) = n
  BY FS_Interval

\* Now is the last minute there is.
LEMMA NowIsLength == ASSUME NEW S, minutes \in Seq(S) PROVE NowAt = Len(minutes) /\ DOMAIN minutes = 1 .. NowAt /\ NowAt \in Nat
<1>1. DOMAIN minutes = 1 .. Len(minutes) /\ Len(minutes) \in Nat
  OBVIOUS
<1>2. Cardinality(1 .. Len(minutes)) = Len(minutes)
  BY <1>1, FS_Interval
<1> QED BY <1>1, <1>2 DEF NowAt

\* The minutes of a larger bar that has begun.
LEMMA MinutesAre ==
  ASSUME NEW m \in Nat, m > 0, m = StartOf(m), NEW n \in Nat, DOMAIN minutes = 1 .. n
  PROVE  MinutesOf(m) = {k \in m .. m + Bucket - 1 : k <= n}
<1>1. \A k \in 1 .. n : StartOf(k) = m => k \in m .. m + Bucket - 1
  <2> SUFFICES ASSUME NEW k \in 1 .. n, StartOf(k) = m PROVE k \in m .. m + Bucket - 1
    OBVIOUS
  <2>1. k \in Nat /\ k > 0 /\ Bucket \in Nat
    BY BucketPositive
  <2>2. StartOf(k) <= k /\ k < StartOf(k) + Bucket
    BY <2>1, StartBefore
  <2> QED BY <2>1, <2>2
<1>2. \A k \in m .. m + Bucket - 1 : StartOf(k) = m /\ k \in Nat /\ k >= 1
  BY StartOfAll, BucketPositive
<1> QED BY <1>1, <1>2 DEF MinutesOf

\* What a larger bar is, from its minutes.
LEMMA TrueBarIs ==
  ASSUME NEW m \in Nat, m > 0, m = StartOf(m), NEW n \in Nat, DOMAIN minutes = 1 .. n,
         m + Bucket - 1 <= n, \A k \in 1 .. n : minutes[k] \in MinuteBars,
         NEW merged, merged.open = minutes[m].open, merged.close = minutes[m + Bucket - 1].close,
         NEW h \in m .. m + Bucket - 1, merged.high = minutes[h].high,
         NEW l \in m .. m + Bucket - 1, merged.low = minutes[l].low,
         \A k \in m .. m + Bucket - 1 : merged.low <= minutes[k].low /\ minutes[k].high <= merged.high
  PROVE  Prices4(merged) = Prices4(TrueBar(m))
<1> DEFINE of == MinutesOf(m)
           highs == {minutes[k].high : k \in of}
           lows  == {minutes[k].low : k \in of}
<1>0. Bucket \in Nat /\ Bucket > 0
  BY BucketPositive
<1>1. of = m .. m + Bucket - 1
  <2>1. of = {k \in m .. m + Bucket - 1 : k <= n}
    BY MinutesAre
  <2> QED BY <1>0, <2>1
<1>2. \A k \in of : k \in Nat /\ m <= k /\ k <= m + Bucket - 1 /\ minutes[k].high \in Nat /\ minutes[k].low \in Nat
  <2>1. \A k \in of : k \in 1 .. n /\ k \in Nat /\ m <= k /\ k <= m + Bucket - 1
    BY <1>0, <1>1
  <2> QED BY <2>1 DEF MinuteBars
<1>3. m \in of /\ m + Bucket - 1 \in of /\ h \in of /\ l \in of
  BY <1>0, <1>1
<1>10. \A k \in of : merged.low <= minutes[k].low /\ minutes[k].high <= merged.high
  BY <1>1
<1> HIDE DEF of
<1>11. \A k \in of : k \in Int /\ m <= k /\ k <= m + Bucket - 1
  BY <1>2
<1>4. Min(of) = m
  BY <1>3, <1>11, MinIs
<1>5. Max(of) = m + Bucket - 1
  BY <1>3, <1>11, MaxIs
<1>6. Max(highs) = merged.high
  <2>1. merged.high \in highs /\ \A x \in highs : x \in Int /\ x <= merged.high
    BY <1>2, <1>3, <1>10
  <2> HIDE DEF highs
  <2> QED BY <2>1, MaxIs
<1>7. Min(lows) = merged.low
  <2>1. merged.low \in lows /\ \A x \in lows : x \in Int /\ merged.low <= x
    BY <1>2, <1>3, <1>10
  <2> HIDE DEF lows
  <2> QED BY <2>1, MinIs
<1>8. TrueBar(m) = [start |-> m, open |-> minutes[Min(of)].open, close |-> minutes[Max(of)].close,
                    high |-> Max(highs), low |-> Min(lows)]
  BY DEF TrueBar, of
<1>9. TrueBar(m).open = merged.open /\ TrueBar(m).close = merged.close /\ TrueBar(m).high = merged.high /\ TrueBar(m).low = merged.low
  <2> HIDE DEF highs, lows
  <2> QED BY <1>4, <1>5, <1>6, <1>7, <1>8
<1> QED BY <1>9 DEF Prices4

\* An ended bar is what it was, whatever comes after its last minute.
LEMMA TrueBarKept ==
  ASSUME NEW m \in Nat, m > 0, m = StartOf(m), NEW n \in Nat, NEW o \in Nat,
         DOMAIN minutes = 1 .. n, DOMAIN minutes' = 1 .. o, n <= o, m + Bucket - 1 <= n,
         \A k \in m .. m + Bucket - 1 : minutes'[k] = minutes[k]
  PROVE  TrueBar(m)' = TrueBar(m)
<1>0. Bucket \in Nat /\ Bucket > 0
  BY BucketPositive
<1>1. MinutesOf(m) = m .. m + Bucket - 1
  <2>1. MinutesOf(m) = {k \in m .. m + Bucket - 1 : k <= n}
    BY MinutesAre
  <2> QED BY <1>0, <2>1
<1>2. MinutesOf(m)' = m .. m + Bucket - 1
  <2>1. \A k \in DOMAIN minutes' : StartOf(k) = m => k \in m .. m + Bucket - 1
    <3> SUFFICES ASSUME NEW k \in 1 .. o, StartOf(k) = m PROVE k \in m .. m + Bucket - 1
      OBVIOUS
    <3>1. k \in Nat /\ k > 0
      OBVIOUS
    <3>2. StartOf(k) <= k /\ k < StartOf(k) + Bucket
      BY <3>1, StartBefore
    <3> QED BY <1>0, <3>1, <3>2
  <2>2. \A k \in m .. m + Bucket - 1 : StartOf(k) = m /\ k \in DOMAIN minutes'
    BY <1>0, StartOfAll
  <2> QED BY <2>1, <2>2 DEF MinutesOf
<1>3. Min(m .. m + Bucket - 1) = m
  <2>1. m \in m .. m + Bucket - 1 /\ \A y \in m .. m + Bucket - 1 : y \in Int /\ m <= y
    BY <1>0
  <2> QED BY <2>1, MinIs
<1>4. Max(m .. m + Bucket - 1) = m + Bucket - 1
  <2>1. m + Bucket - 1 \in m .. m + Bucket - 1 /\ \A y \in m .. m + Bucket - 1 : y \in Int /\ y <= m + Bucket - 1
    BY <1>0
  <2> QED BY <2>1, MaxIs
<1>5. m \in m .. m + Bucket - 1 /\ m + Bucket - 1 \in m .. m + Bucket - 1
  BY <1>0
<1>6. {minutes'[k].high : k \in m .. m + Bucket - 1} = {minutes[k].high : k \in m .. m + Bucket - 1}
  OBVIOUS
<1>7. {minutes'[k].low : k \in m .. m + Bucket - 1} = {minutes[k].low : k \in m .. m + Bucket - 1}
  OBVIOUS
<1> QED BY <1>1, <1>2, <1>3, <1>4, <1>5, <1>6, <1>7 DEF TrueBar

\* The maximum of two numbers.
LEMMA MaxOfTwo ==
  ASSUME NEW a \in Int, NEW b \in Int
  PROVE  Max({a, b}) = IF a <= b THEN b ELSE a
<1>1. CASE a <= b
  <2>1. Max({a, b}) = b
    BY <1>1, MaxIs
  <2> QED BY <1>1, <2>1
<1>2. CASE ~(a <= b)
  <2>1. \A y \in {a, b} : y \in Int /\ y <= a
    BY <1>2
  <2>2. Max({a, b}) = a
    BY <2>1, MaxIs
  <2> QED BY <1>2, <2>2
<1> QED BY <1>1, <1>2

\* The minimum of two numbers.
LEMMA MinOfTwo ==
  ASSUME NEW a \in Int, NEW b \in Int
  PROVE  Min({a, b}) = IF a <= b THEN a ELSE b
<1>1. CASE a <= b
  <2>1. Min({a, b}) = a
    BY <1>1, MinIs
  <2> QED BY <1>1, <2>1
<1>2. CASE ~(a <= b)
  <2>1. \A y \in {a, b} : y \in Int /\ b <= y
    BY <1>2
  <2>2. Min({a, b}) = b
    BY <2>1, MinIs
  <2> QED BY <1>2, <2>2
<1> QED BY <1>1, <1>2

\* Where a row comes from.
LEMMA StoredOverIs ==
  ASSUME NEW new, NEW rows
  PROVE  /\ DOMAIN StoredOver(new, rows) = DOMAIN new \cup DOMAIN rows
         /\ \A key \in DOMAIN new : StoredOver(new, rows)[key] = new[key]
         /\ \A key \in DOMAIN rows : key \notin DOMAIN new => StoredOver(new, rows)[key] = rows[key]
BY DEF StoredOver

\* A closed bar is stored over the row of its key, and only there.
LEMMA StoredWithIs ==
  ASSUME NEW rows, NEW closed \in BOOLEAN, NEW key, NEW merged
  PROVE  /\ DOMAIN StoredWith(rows, closed, key, merged) \subseteq {key} \cup DOMAIN rows
         /\ DOMAIN rows \subseteq DOMAIN StoredWith(rows, closed, key, merged)
         /\ closed => key \in DOMAIN StoredWith(rows, closed, key, merged)
                      /\ StoredWith(rows, closed, key, merged)[key] = merged
         /\ \A k \in DOMAIN rows : k # key => StoredWith(rows, closed, key, merged)[k] = rows[k]
<1>1. DOMAIN [k \in {key} |-> merged] = {key} /\ [k \in {key} |-> merged][key] = merged
  OBVIOUS
<1>2. CASE closed
  <2>1. PICK new : new = [k \in {key} |-> merged]
    OBVIOUS
  <2>2. DOMAIN new = {key} /\ new[key] = merged /\ StoredWith(rows, closed, key, merged) = StoredOver(new, rows)
    BY <1>1, <1>2, <2>1 DEF StoredWith
  <2>3. /\ DOMAIN StoredOver(new, rows) = {key} \cup DOMAIN rows
        /\ StoredOver(new, rows)[key] = merged
        /\ \A k \in DOMAIN rows : k \notin {key} => StoredOver(new, rows)[k] = rows[k]
    BY <2>2 DEF StoredOver
  <2> QED BY <2>2, <2>3
<1>3. CASE ~closed
  BY <1>3 DEF StoredWith
<1> QED BY <1>2, <1>3

\* What is known of the present.
LEMMA NowFacts ==
  ASSUME MarketTyped
  PROVE  /\ NowAt = Len(minutes) /\ NowAt \in Nat /\ NowAt > 0 /\ DOMAIN minutes = 1 .. NowAt
         /\ \A m \in 1 .. NowAt : minutes[m] \in MinuteBars
         /\ StartOf(NowAt) \in Nat /\ 1 <= StartOf(NowAt) /\ StartOf(NowAt) <= NowAt
         /\ NowAt < StartOf(NowAt) + Bucket /\ StartOf(StartOf(NowAt)) = StartOf(NowAt)
         /\ Bucket \in Nat /\ Bucket > 0 /\ MinutesOf(StartOf(NowAt)) = StartOf(NowAt) .. NowAt
<1>1. NowAt = Len(minutes) /\ NowAt \in Nat /\ NowAt > 0 /\ DOMAIN minutes = 1 .. NowAt
  BY NowIsLength DEF MarketTyped
<1>2. \A m \in 1 .. NowAt : minutes[m] \in MinuteBars
  BY <1>1 DEF MarketTyped
<1>3. PICK s \in Nat : s = StartOf(NowAt) /\ 1 <= s /\ s <= NowAt /\ NowAt < s + Bucket /\ StartOf(s) = s
  <2>1. StartOf(NowAt) \in Nat /\ 1 <= StartOf(NowAt) /\ StartOf(NowAt) <= NowAt /\ NowAt < StartOf(NowAt) + Bucket
    BY <1>1, StartBefore
  <2>2. StartOf(NowAt) \in StartOf(NowAt) .. StartOf(NowAt) + Bucket - 1
    BY <2>1, BucketPositive
  <2>3. StartOf(StartOf(NowAt)) = StartOf(NowAt)
    BY <1>1, <2>2, StartOfAll
  <2> QED BY <2>1, <2>3
<1>4. MinutesOf(s) = {k \in s .. s + Bucket - 1 : k <= NowAt}
  BY <1>1, <1>3, MinutesAre
<1>5. MinutesOf(s) = s .. NowAt
  BY <1>1, <1>3, <1>4, BucketPositive
<1> QED BY <1>1, <1>2, <1>3, <1>5, BucketPositive

\* What merging the forming minute gives.
LEMMA MergedBar ==
  ASSUME MarketTyped, MergeInv, NEW closed
  PROVE  LET new == Merged(NowAt, minutes[NowAt], closed) IN
         /\ new \in MinuteBars /\ new.start = StartOf(NowAt) /\ new.close = minutes[NowAt].close
         /\ StartOf(NowAt) \notin unheard => Covers(new, StartOf(NowAt), NowAt) /\ Within(new, StartOf(NowAt))
<1>1. PICK s, n, new : s = StartOf(NowAt) /\ n = NowAt /\ new = Merged(NowAt, minutes[NowAt], closed)
  OBVIOUS
<1>2. s \in Nat /\ n \in Nat /\ s <= n /\ \A m \in s .. n : minutes[m] \in MinuteBars
  BY <1>1, NowFacts
<1>3. PICK merged \in MinuteBars : merged = minutes[n]
  BY <1>2
<1>4. merged.open \in Nat /\ merged.high \in Nat /\ merged.low \in Nat /\ merged.close \in Nat
  BY DEF MinuteBars
<1>5. \A m \in s .. n : minutes[m].high \in Nat /\ minutes[m].low \in Nat
  BY <1>2 DEF MinuteBars
<1>6. CASE merging.start # s
  <2>1. new = [merged EXCEPT !.start = s]
    BY <1>1, <1>3, <1>6 DEF Merged
  <2>2. new \in MinuteBars /\ new.start = s /\ new.open = merged.open /\ new.high = merged.high
        /\ new.low = merged.low /\ new.close = merged.close
    BY <1>2, <2>1 DEF MinuteBars
  <2>3. ASSUME s \notin unheard PROVE s = n
    BY <1>1, <1>2, <1>6, <2>3 DEF MergeInv
  <2>4. ASSUME s \notin unheard PROVE Covers(new, s, n) /\ Within(new, s)
    <3>1. s = n /\ n \in s .. n /\ \A m \in s .. n : m = n
      BY <1>2, <2>3, <2>4
    <3>2. \A m \in s .. n : new.low <= minutes[m].low /\ minutes[m].high <= new.high
      BY <1>3, <1>4, <2>2, <3>1
    <3>3. new.high <= minutes[n].high /\ minutes[n].low <= new.low
      BY <1>3, <1>4, <2>2
    <3> QED BY <1>1, <1>3, <2>2, <3>1, <3>2, <3>3 DEF Covers, Within
  <2> QED BY <1>1, <1>3, <2>2, <2>4
<1>7. CASE merging.start = s
  <2>1. merging \in MinuteBars
    <3>1. NoBar.start = -1
      BY DEF NoBar
    <3> QED BY <1>2, <1>7, <3>1 DEF MarketTyped
  <2>2. PICK old \in MinuteBars : old = merging
    BY <2>1
  <2>3. old.start = s /\ old.open \in Nat /\ old.high \in Nat /\ old.low \in Nat
    BY <1>7, <2>2 DEF MinuteBars
  <2>4. new = [old EXCEPT !.high = Max({old.high, merged.high}), !.low = Min({old.low, merged.low}), !.close = merged.close]
    BY <1>1, <1>3, <1>7, <2>2 DEF Merged
  <2>5. PICK hi, lo : hi = Max({old.high, merged.high}) /\ lo = Min({old.low, merged.low})
    OBVIOUS
  <2>6. /\ hi \in Nat /\ hi >= old.high /\ hi >= merged.high /\ (hi = old.high \/ hi = merged.high)
        /\ lo \in Nat /\ lo <= old.low /\ lo <= merged.low /\ (lo = old.low \/ lo = merged.low)
    BY <1>4, <2>3, <2>5, MaxOfTwo, MinOfTwo
  <2>7. new = [old EXCEPT !.high = hi, !.low = lo, !.close = merged.close]
    BY <2>4, <2>5
  <2>8. new \in MinuteBars /\ new.start = s /\ new.open = old.open /\ new.high = hi
        /\ new.low = lo /\ new.close = merged.close
    BY <1>4, <2>3, <2>6, <2>7 DEF MinuteBars
  <2>9. ASSUME s \notin unheard PROVE Covers(new, s, n) /\ Within(new, s)
    <3>1. Covers(old, s, n - 1) /\ Within(old, s)
      BY <1>1, <1>7, <2>2, <2>9 DEF MergeInv
    <3>2. \A m \in s .. n : new.low <= minutes[m].low /\ minutes[m].high <= new.high
      <4> SUFFICES ASSUME NEW m \in s .. n PROVE new.low <= minutes[m].low /\ minutes[m].high <= new.high
        OBVIOUS
      <4>1. CASE m = n
        BY <1>3, <2>6, <2>8, <4>1
      <4>2. CASE m # n
        <5>1. m \in s .. n - 1
          BY <1>2, <4>2
        <5>2. old.low <= minutes[m].low /\ minutes[m].high <= old.high
          BY <3>1, <5>1 DEF Covers
        <5> QED BY <1>5, <2>3, <2>6, <2>8, <5>2
      <4> QED BY <4>1, <4>2
    <3>3. n \in s .. n
      BY <1>2
    <3>4. \E m \in s .. n : new.high <= minutes[m].high
      <4>1. PICK m \in s .. n : old.high <= minutes[m].high
        BY <1>1, <3>1 DEF Within
      <4> QED BY <1>3, <1>4, <1>5, <2>6, <2>8, <3>3, <4>1
    <3>5. \E m \in s .. n : minutes[m].low <= new.low
      <4>1. PICK m \in s .. n : minutes[m].low <= old.low
        BY <1>1, <3>1 DEF Within
      <4> QED BY <1>3, <1>4, <1>5, <2>6, <2>8, <3>3, <4>1
    <3>6. new.open = minutes[s].open
      BY <2>8, <3>1 DEF Covers
    <3> QED BY <1>1, <3>2, <3>4, <3>5, <3>6 DEF Covers, Within
  <2> QED BY <1>1, <1>3, <2>8, <2>9
<1> QED BY <1>6, <1>7

\* The larger rows of other times than now stay.
OthersStay ==
  /\ DOMAIN stored' \subseteq {"minute", "larger"} \X (1 .. NowAt)
  /\ \A m \in 1 .. NowAt : m # StartOf(NowAt) /\ <<"larger", m>> \in DOMAIN stored =>
        <<"larger", m>> \in DOMAIN stored' /\ stored'[<<"larger", m>>] = stored[<<"larger", m>>]

\* What the handler of a minute does to the merged bar and to the rows.
LEMMA MinuteTaken ==
  ASSUME MarketTyped, NEW closed \in BOOLEAN, TakeMinute(NowAt, closed)
  PROVE  /\ merging' = Merged(NowAt, minutes[NowAt], closed) /\ OthersStay
         /\ NowAt % Bucket = 0 => <<"larger", StartOf(NowAt)>> \in DOMAIN stored'
                                  /\ stored'[<<"larger", StartOf(NowAt)>>] = merging'
<1> DEFINE s     == StartOf(NowAt)
           large == <<"larger", StartOf(NowAt)>>
           small == <<"minute", NowAt>>
           last  == NowAt % Bucket = 0
           mid   == StoredWith(stored, last, large, merging')
<1>1. merging' = Merged(NowAt, minutes[NowAt], closed)
  BY DEF TakeMinute
<1>2. stored' = StoredWith(mid, closed, small, minutes[NowAt])
  BY DEF TakeMinute
<1>3. last \in BOOLEAN
  OBVIOUS
<1>4. large \in {"minute", "larger"} \X (1 .. NowAt) /\ small \in {"minute", "larger"} \X (1 .. NowAt) /\ large # small
  BY NowFacts
<1>5. /\ DOMAIN mid \subseteq {large} \cup DOMAIN stored /\ DOMAIN stored \subseteq DOMAIN mid
      /\ last => large \in DOMAIN mid /\ mid[large] = merging'
      /\ \A k \in DOMAIN stored : k # large => mid[k] = stored[k]
  <2> HIDE DEF last, large
  <2> QED BY <1>3, StoredWithIs DEF mid
<1>6. /\ DOMAIN stored' \subseteq {small} \cup DOMAIN mid /\ DOMAIN mid \subseteq DOMAIN stored'
      /\ \A k \in DOMAIN mid : k # small => stored'[k] = mid[k]
  <2> HIDE DEF mid, small
  <2> QED BY <1>2, StoredWithIs
<1>7. DOMAIN stored' \subseteq {"minute", "larger"} \X (1 .. NowAt)
  <2> HIDE DEF mid, small, large
  <2> QED BY <1>4, <1>5, <1>6 DEF MarketTyped
<1>8. ASSUME NEW m \in 1 .. NowAt, m # s, <<"larger", m>> \in DOMAIN stored
      PROVE  <<"larger", m>> \in DOMAIN stored' /\ stored'[<<"larger", m>>] = stored[<<"larger", m>>]
  <2>1. <<"larger", m>> # large /\ <<"larger", m>> # small
    BY <1>8
  <2> HIDE DEF mid, small, large
  <2> QED BY <1>5, <1>6, <1>8, <2>1
<1>9. last => large \in DOMAIN stored' /\ stored'[large] = merging'
  <2> HIDE DEF mid, small, large, last
  <2> QED BY <1>4, <1>5, <1>6
<1> QED BY <1>1, <1>7, <1>8, <1>9 DEF OthersStay

\* What the handler of a larger bar does to them.
LEMMA LargerTaken ==
  ASSUME MarketTyped, NEW closed \in BOOLEAN, TakeLarger(StartOf(NowAt), closed)
  PROVE  /\ merging' = merging /\ OthersStay
         /\ closed => <<"larger", StartOf(NowAt)>> \in DOMAIN stored'
                      /\ stored'[<<"larger", StartOf(NowAt)>>] = TrueBar(StartOf(NowAt))
<1>1. merging' = merging /\ stored' = StoredWith(stored, closed, <<"larger", StartOf(NowAt)>>, TrueBar(StartOf(NowAt)))
  BY DEF TakeLarger
<1>2. <<"larger", StartOf(NowAt)>> \in {"minute", "larger"} \X (1 .. NowAt)
  BY NowFacts
<1>3. /\ DOMAIN stored' \subseteq {<<"larger", StartOf(NowAt)>>} \cup DOMAIN stored /\ DOMAIN stored \subseteq DOMAIN stored'
      /\ closed => <<"larger", StartOf(NowAt)>> \in DOMAIN stored'
                   /\ stored'[<<"larger", StartOf(NowAt)>>] = TrueBar(StartOf(NowAt))
      /\ \A k \in DOMAIN stored : k # <<"larger", StartOf(NowAt)>> => stored'[k] = stored[k]
  BY <1>1, StoredWithIs
<1> QED BY <1>1, <1>2, <1>3 DEF OthersStay, MarketTyped

\* Rows of bars that ended stay true as long as none is overwritten.
LEMMA EndedStayTrue ==
  ASSUME MarketInv, OthersStay, unheard \subseteq unheard',
         minutes' \in Seq(MinuteBars), Len(minutes') >= Len(minutes),
         \A k \in 1 .. NowAt - 1 : minutes'[k] = minutes[k],
         NEW m \in DOMAIN minutes', m = StartOf(m), m + Bucket <= NowAt, m \notin unheard'
  PROVE  <<"larger", m>> \in DOMAIN stored' /\ Prices4(stored'[<<"larger", m>>]) = Prices4(TrueBar(m)')
<1>1. PICK n \in Nat : n = NowAt /\ DOMAIN minutes = 1 .. n /\ n = Len(minutes) /\ n < StartOf(n) + Bucket
  BY NowFacts DEF MarketInv
<1>2. PICK o \in Nat : o = NowAt' /\ DOMAIN minutes' = 1 .. o /\ o = Len(minutes') /\ n <= o
  <2>1. NowAt' = Len(minutes') /\ DOMAIN minutes' = 1 .. Len(minutes') /\ Len(minutes') \in Nat
    BY FS_Interval DEF NowAt
  <2> QED BY <1>1, <2>1
<1>3. m \in Nat /\ m > 0 /\ Bucket \in Nat /\ Bucket > 0 /\ m + Bucket <= n /\ m \in 1 .. n
  BY <1>1, <1>2, BucketPositive
<1>4. m # StartOf(n)
  BY <1>1, <1>3
<1>5. <<"larger", m>> \in DOMAIN stored /\ Prices4(stored[<<"larger", m>>]) = Prices4(TrueBar(m))
  BY <1>1, <1>3 DEF MarketInv, StoredIsTrue, Ended
<1>6. <<"larger", m>> \in DOMAIN stored' /\ stored'[<<"larger", m>>] = stored[<<"larger", m>>]
  BY <1>1, <1>3, <1>4, <1>5 DEF OthersStay
<1>7. \A k \in m .. m + Bucket - 1 : minutes'[k] = minutes[k]
  <2>1. \A k \in m .. m + Bucket - 1 : k \in 1 .. n - 1
    BY <1>3
  <2> QED BY <1>1, <2>1
<1>8. TrueBar(m)' = TrueBar(m)
  <2>1. m + Bucket - 1 <= n /\ m = StartOf(m) /\ DOMAIN minutes = 1 .. n /\ DOMAIN minutes' = 1 .. o /\ n <= o
    BY <1>1, <1>2, <1>3
  <2> QED BY <1>3, <1>7, <2>1, TrueBarKept
<1> QED BY <1>5, <1>6, <1>8

\* While the minute lasts.
LEMMA SameMinute ==
  ASSUME MarketInv, minutes' \in Seq(MinuteBars), Len(minutes') = Len(minutes),
         \A k \in 1 .. NowAt - 1 : minutes'[k] = minutes[k],
         minutes'[NowAt].open = minutes[NowAt].open, minutes'[NowAt].high >= minutes[NowAt].high,
         minutes'[NowAt].low <= minutes[NowAt].low,
         OthersStay, unheard \subseteq unheard', "larger" \in emitted' => NowAt % Bucket = 0,
         \/ merging' = merging
         \/ merging' = Merged(NowAt, minutes[NowAt], FALSE)
         \/ merging' = Merged(NowAt, minutes[NowAt], TRUE)
  PROVE  MarketInv'
<1>0. MarketTyped /\ MergeInv
  BY DEF MarketInv
<1>1. PICK n, s \in Nat : /\ n = NowAt /\ s = StartOf(n) /\ n = Len(minutes) /\ DOMAIN minutes = 1 .. n
                          /\ s <= n /\ 1 <= s /\ n < s + Bucket
  BY <1>0, NowFacts
<1>2. NowAt' = n /\ StartOf(NowAt)' = s
  <2>1. DOMAIN minutes' = 1 .. n
    BY <1>1
  <2>2. Cardinality(1 .. n) = n
    BY CountTo
  <2>3. NowAt' = n
    BY <1>1, <2>1, <2>2 DEF NowAt
  <2> QED BY <1>1, <2>3 DEF StartOf
<1>3. /\ \A k \in s .. n : minutes[k] \in MinuteBars /\ minutes'[k] \in MinuteBars
      /\ \A k \in s .. n : /\ minutes'[k].open = minutes[k].open
                           /\ minutes'[k].high >= minutes[k].high /\ minutes'[k].low <= minutes[k].low
      /\ \A k \in s .. n - 1 : minutes'[k] = minutes[k]
  <2>1. \A k \in s .. n : k \in 1 .. n
    BY <1>1
  <2>2. \A k \in s .. n : minutes[k] \in MinuteBars /\ minutes'[k] \in MinuteBars
    BY <1>0, <1>1, <2>1 DEF MarketTyped
  <2>3. \A k \in s .. n : k = n \/ k \in 1 .. n - 1
    BY <1>1
  <2>4. \A k \in s .. n - 1 : k \in 1 .. n - 1
    BY <1>1
  <2>5. \A k \in s .. n : minutes[k].high \in Nat /\ minutes[k].low \in Nat
    BY <2>2 DEF MinuteBars
  <2>6. \A k \in s .. n : k # n => minutes'[k] = minutes[k]
    BY <1>1, <2>3
  <2>7. \A k \in s .. n : k # n => minutes'[k].high >= minutes[k].high /\ minutes'[k].low <= minutes[k].low
    BY <2>5, <2>6
  <2> QED BY <1>1, <2>2, <2>4, <2>6, <2>7
<1>4. /\ merging' \in MinuteBars \cup {NoBar} /\ merging'.start <= s
      /\ s \notin unheard => /\ s < n => merging'.start = s
                             /\ merging'.start = s => Covers(merging', s, n - 1) /\ Within(merging', s)
  <2>1. CASE merging' = merging
    BY <1>0, <1>1, <2>1 DEF MarketTyped, MergeInv
  <2>2. ASSUME NEW closed, merging' = Merged(NowAt, minutes[NowAt], closed)
        PROVE  /\ merging' \in MinuteBars \cup {NoBar} /\ merging'.start <= s
               /\ s \notin unheard => /\ s < n => merging'.start = s
                                      /\ merging'.start = s => Covers(merging', s, n - 1) /\ Within(merging', s)
    <3>1. /\ merging' \in MinuteBars /\ merging'.start = s
          /\ s \notin unheard => Covers(merging', s, n) /\ Within(merging', s)
      BY <1>0, <1>1, <2>2, MergedBar
    <3>2. \A k \in s .. n - 1 : k \in s .. n
      BY <1>1
    <3>3. s \notin unheard => Covers(merging', s, n - 1)
      BY <3>1, <3>2 DEF Covers
    <3>4. merging' \in MinuteBars \cup {NoBar} /\ merging'.start = s
      BY <3>1
    <3>5. merging'.start <= s
      BY <3>4
    <3>6. s \notin unheard => Within(merging', s)
      BY <3>1
    <3> QED BY <3>3, <3>4, <3>5, <3>6
  <2> QED BY <2>1, <2>2
<1>5. MarketTyped'
  <2>1. DOMAIN stored' \subseteq {"minute", "larger"} \X (1 .. NowAt)
    BY DEF OthersStay
  <2>2. Len(minutes') > 0
    BY <1>0 DEF MarketTyped
  <2> QED BY <1>1, <1>2, <1>4, <2>1, <2>2 DEF MarketTyped
<1>6. MergeInv'
  <2> SUFFICES ASSUME s \notin unheard'
               PROVE  /\ s < n => merging'.start = s
                      /\ merging'.start = s => (Covers(merging, s, n - 1) /\ Within(merging, s))'
    BY <1>2 DEF MergeInv
  <2>1. s \notin unheard
    OBVIOUS
  <2>2. ASSUME merging'.start = s PROVE (Covers(merging, s, n - 1) /\ Within(merging, s))'
    <3>1. Covers(merging', s, n - 1) /\ Within(merging', s)
      BY <1>4, <2>1, <2>2
    <3>2. merging' \in MinuteBars
      <4>1. NoBar.start = -1
        BY DEF NoBar
      <4> QED BY <1>1, <1>4, <2>2, <4>1
    <3>3. PICK new \in MinuteBars : new = merging'
      BY <3>2
    <3>4. new.high \in Nat /\ new.low \in Nat
      BY DEF MinuteBars
    <3>5. \A k \in s .. n : minutes[k].high \in Nat /\ minutes'[k].high \in Nat /\ minutes[k].low \in Nat /\ minutes'[k].low \in Nat
      BY <1>3 DEF MinuteBars
    <3>6. new.open = minutes'[s].open
      BY <1>1, <1>3, <3>1, <3>3 DEF Covers
    <3>7. \A k \in s .. n - 1 : new.low <= minutes'[k].low /\ minutes'[k].high <= new.high
      BY <1>3, <3>1, <3>3 DEF Covers
    <3>8. \E k \in s .. n : new.high <= minutes'[k].high
      <4>1. PICK k \in s .. n : new.high <= minutes[k].high
        BY <1>1, <3>1, <3>3 DEF Within
      <4>2. minutes'[k].high >= minutes[k].high
        BY <1>3
      <4> QED BY <3>4, <3>5, <4>1, <4>2
    <3>9. \E k \in s .. n : minutes'[k].low <= new.low
      <4>1. PICK k \in s .. n : minutes[k].low <= new.low
        BY <1>1, <3>1, <3>3 DEF Within
      <4>2. minutes'[k].low <= minutes[k].low
        BY <1>3
      <4> QED BY <3>4, <3>5, <4>1, <4>2
    <3> QED BY <1>2, <3>3, <3>6, <3>7, <3>8, <3>9 DEF Covers, Within
  <2> QED BY <1>4, <2>1, <2>2
<1>7. StoredIsTrue'
  <2> SUFFICES ASSUME NEW m \in DOMAIN minutes', m = StartOf(m), Ended(m)', m \notin unheard'
               PROVE  <<"larger", m>> \in DOMAIN stored' /\ Prices4(stored'[<<"larger", m>>]) = Prices4(TrueBar(m)')
    BY DEF StoredIsTrue, StartOf, Prices4
  <2>1. m + Bucket <= NowAt
    BY <1>1, <1>2 DEF Ended
  <2>2. Len(minutes') >= Len(minutes)
    BY <1>1
  <2> QED BY <2>1, <2>2, EndedStayTrue
<1> QED BY <1>5, <1>6, <1>7 DEF MarketInv

\* While nothing is traded.
LEMMA NothingTraded ==
  ASSUME MarketInv, UNCHANGED minutes, OthersStay, unheard \subseteq unheard',
         "larger" \in emitted' => NowAt % Bucket = 0,
         \/ merging' = merging
         \/ merging' = Merged(NowAt, minutes[NowAt], FALSE)
         \/ merging' = Merged(NowAt, minutes[NowAt], TRUE)
  PROVE  MarketInv'
<1>1. minutes \in Seq(MinuteBars) /\ minutes[NowAt] \in MinuteBars
  <2>1. MarketTyped
    BY DEF MarketInv
  <2> QED BY <2>1, NowFacts DEF MarketTyped
<1>2. minutes[NowAt].high \in Nat /\ minutes[NowAt].low \in Nat
  BY <1>1 DEF MinuteBars
<1>3. minutes' \in Seq(MinuteBars) /\ Len(minutes') = Len(minutes)
      /\ \A k \in 1 .. NowAt - 1 : minutes'[k] = minutes[k]
  BY <1>1
<1>4. minutes'[NowAt] = minutes[NowAt]
  OBVIOUS
<1>5. /\ minutes'[NowAt].open = minutes[NowAt].open /\ minutes'[NowAt].high >= minutes[NowAt].high
      /\ minutes'[NowAt].low <= minutes[NowAt].low
  BY <1>2, <1>4
<1> QED BY <1>3, <1>5, SameMinute

\* A number that is at most the next of another is at most that or the next itself.
LEMMA UpToNext ==
  ASSUME NEW a \in Int, NEW b \in Int, a <= b + 1
  PROVE  a <= b \/ a = b + 1
  OBVIOUS

\* The next minute begins: the larger bar goes on, or it ended and its row is true.
LEMMA NextMinute ==
  ASSUME MarketInv, NEW price \in Quotes, minutes' = Append(minutes, FirstTrade(NowAt + 1, price)),
         OthersStay, unheard \subseteq unheard', "larger" \notin emitted',
         merging' \in MinuteBars \cup {NoBar}, merging'.start <= StartOf(NowAt),
         StartOf(NowAt) \notin unheard' =>
           IF NowAt % Bucket = 0
           THEN /\ <<"larger", StartOf(NowAt)>> \in DOMAIN stored'
                /\ Prices4(stored'[<<"larger", StartOf(NowAt)>>]) = Prices4(TrueBar(StartOf(NowAt)))
           ELSE merging'.start = StartOf(NowAt) /\ Covers(merging', StartOf(NowAt), NowAt) /\ Within(merging', StartOf(NowAt))
  PROVE  MarketInv'
<1>0. MarketTyped /\ MergeInv
  BY DEF MarketInv
<1>1. PICK n, s \in Nat : /\ n = NowAt /\ s = StartOf(n) /\ n = Len(minutes) /\ DOMAIN minutes = 1 .. n
                          /\ s <= n /\ 1 <= s /\ n < s + Bucket /\ n > 0 /\ s = StartOf(s)
  BY <1>0, NowFacts
<1>2. PICK merged : merged = FirstTrade(n + 1, price)
  OBVIOUS
<1>3. merged \in MinuteBars
  BY <1>1, <1>2, MarketAssumption DEF FirstTrade, MinuteBars
<1>4. /\ minutes' \in Seq(MinuteBars) /\ Len(minutes') = n + 1 /\ DOMAIN minutes' = 1 .. n + 1
      /\ \A k \in 1 .. n : minutes'[k] = minutes[k]
  BY <1>0, <1>1, <1>2, <1>3 DEF MarketTyped
<1>5. NowAt' = n + 1 /\ StartOf(NowAt)' = StartOf(n + 1)
  <2>1. NowAt' = n + 1
    BY <1>1, <1>4, FS_Interval DEF NowAt
  <2> QED BY <2>1 DEF StartOf
<1>6. /\ n % Bucket = 0 => n = s + Bucket - 1 /\ StartOf(n + 1) = n + 1
      /\ n % Bucket # 0 => n + 1 < s + Bucket /\ StartOf(n + 1) = s
  BY <1>1, NextStart
<1>7. MarketTyped'
  <2>1. DOMAIN stored' \subseteq {"minute", "larger"} \X (1 .. n)
    BY <1>1 DEF OthersStay
  <2>2. DOMAIN stored' \subseteq {"minute", "larger"} \X (1 .. n + 1)
    BY <1>1, <2>1
  <2>3. merging'.start <= StartOf(n + 1)
    <3>1. merging'.start \in Int
      BY DEF MinuteBars, NoBar
    <3> QED BY <1>1, <1>6, <3>1
  <2> QED BY <1>1, <1>4, <1>5, <2>2, <2>3 DEF MarketTyped
<1>8. MergeInv'
  <2>1. CASE n % Bucket = 0
    <3>1. StartOf(n + 1) = n + 1 /\ ~(n + 1 < n + 1) /\ merging'.start # n + 1
      <4>1. merging'.start \in Int
        BY DEF MinuteBars, NoBar
      <4> QED BY <1>1, <1>6, <2>1, <4>1
    <3> QED BY <1>5, <3>1 DEF MergeInv
  <2>2. CASE n % Bucket # 0
    <3>1. StartOf(n + 1) = s
      BY <1>6, <2>2
    <3>2. ASSUME s \notin unheard'
          PROVE  merging'.start = s /\ (Covers(merging, s, n) /\ Within(merging, s))'
      <4>1. merging'.start = s /\ Covers(merging', s, n) /\ Within(merging', s)
        BY <1>1, <2>2, <3>2
      <4>2. \A k \in s .. n : k \in 1 .. n /\ k \in s .. n + 1
        BY <1>1
      <4>3. s \in s .. n
        BY <1>1
      <4>4. Covers(merging, s, n)'
        BY <1>4, <4>1, <4>2, <4>3 DEF Covers
      <4>5. (\E k \in s .. n + 1 : merging'.high <= minutes'[k].high) /\ (\E k \in s .. n + 1 : minutes'[k].low <= merging'.low)
        BY <1>1, <1>4, <4>1, <4>2 DEF Within
      <4> QED BY <1>5, <4>1, <4>4, <4>5 DEF Within
    <3>3. n + 1 - 1 = n
      BY <1>1
    <3> QED BY <1>5, <3>1, <3>2, <3>3 DEF MergeInv
  <2> QED BY <2>1, <2>2
<1>9. StoredIsTrue'
  <2> SUFFICES ASSUME NEW m \in DOMAIN minutes', m = StartOf(m), Ended(m)', m \notin unheard'
               PROVE  <<"larger", m>> \in DOMAIN stored' /\ Prices4(stored'[<<"larger", m>>]) = Prices4(TrueBar(m)')
    BY DEF StoredIsTrue, StartOf, Prices4
  <2>1. m + Bucket <= n + 1 /\ m \in Nat /\ m > 0 /\ Bucket \in Nat /\ Bucket > 0
    BY <1>1, <1>4, <1>5, BucketPositive DEF Ended
  <2>2. CASE m + Bucket <= n
    <3>1. Len(minutes') >= Len(minutes) /\ \A k \in 1 .. n - 1 : minutes'[k] = minutes[k]
      BY <1>1, <1>4
    <3> QED BY <1>1, <1>4, <2>2, <3>1, EndedStayTrue
  <2>3. CASE m + Bucket = n + 1
    <3>1. n \in StartOf(m) .. StartOf(m) + Bucket - 1
      BY <1>1, <2>1, <2>3
    <3>2. m = s
      BY <1>1, <2>1, <3>1, StartOfAll
    <3>3. n % Bucket = 0
      <4>1. ~(n + 1 < s + Bucket)
        BY <2>1, <2>3, <3>2
      <4> QED BY <1>6, <4>1
    <3>4. <<"larger", m>> \in DOMAIN stored' /\ Prices4(stored'[<<"larger", m>>]) = Prices4(TrueBar(m))
      BY <1>1, <3>2, <3>3
    <3>5. m + Bucket - 1 = n /\ m + Bucket - 1 <= n /\ n <= n + 1 /\ n + 1 \in Nat
      BY <1>1, <2>1, <2>3
    <3>6. \A k \in m .. m + Bucket - 1 : minutes'[k] = minutes[k]
      <4>1. \A k \in m .. n : k \in 1 .. n
        BY <1>1, <2>1
      <4> QED BY <1>4, <3>5, <4>1
    <3>7. TrueBar(m)' = TrueBar(m)
      BY <1>1, <1>4, <2>1, <3>5, <3>6, TrueBarKept
    <3> QED BY <3>4, <3>7
  <2>4. m + Bucket <= n \/ m + Bucket = n + 1
    <3>1. n \in Int /\ m + Bucket \in Int /\ m + Bucket <= n + 1
      BY <1>1, <2>1
    <3> QED BY <3>1, UpToNext
  <2> QED BY <2>2, <2>3, <2>4
<1> QED BY <1>7, <1>8, <1>9 DEF MarketInv

\* The first minute, with nothing stored.
LEMMA MarketStart == MarketInit => MarketInv
<1> SUFFICES ASSUME MarketInit PROVE MarketInv
  OBVIOUS
<1>1. PICK price \in Quotes : minutes = <<FirstTrade(1, price)>>
  BY DEF MarketInit
<1>2. FirstTrade(1, price) \in MinuteBars
  BY MarketAssumption DEF FirstTrade, MinuteBars
<1>3. minutes \in Seq(MinuteBars) /\ Len(minutes) = 1
  BY <1>1, <1>2
<1>4. NowAt = 1 /\ DOMAIN minutes = 1 .. 1
  BY <1>3, NowIsLength
<1>5. StartOf(1) = 1
  <2>1. StartOf(1) \in Nat /\ 1 <= StartOf(1) /\ StartOf(1) <= 1
    BY StartBefore
  <2> QED BY <2>1
<1>6. emitted = {} /\ merging = NoBar /\ DOMAIN stored = {} /\ NoBar.start = -1
  BY DEF MarketInit, NoBar
<1>7. MarketTyped
  BY <1>3, <1>4, <1>5, <1>6 DEF MarketTyped
<1>8. MergeInv
  BY <1>4, <1>5, <1>6 DEF MergeInv
<1>9. StoredIsTrue
  <2>1. \A m \in DOMAIN minutes : ~Ended(m)
    BY <1>4, BucketPositive DEF Ended
  <2> QED BY <2>1 DEF StoredIsTrue
<1> QED BY <1>7, <1>8, <1>9 DEF MarketInv

\* The larger bar after its last minute was merged.
LEMMA MergedIsTrue ==
  ASSUME MarketTyped, NowAt % Bucket = 0, NEW merged \in MinuteBars, merged.close = minutes[NowAt].close,
         Covers(merged, StartOf(NowAt), NowAt), Within(merged, StartOf(NowAt))
  PROVE  Prices4(merged) = Prices4(TrueBar(StartOf(NowAt)))
<1>1. PICK n, s \in Nat : /\ n = NowAt /\ s = StartOf(n) /\ DOMAIN minutes = 1 .. n
                          /\ s <= n /\ 1 <= s /\ s > 0 /\ s = StartOf(s) /\ n > 0
  BY NowFacts
<1>2. n = s + Bucket - 1 /\ Bucket \in Nat /\ s + Bucket - 1 <= n
  BY <1>1, NextStart, BucketPositive
<1>3. \A k \in 1 .. n : minutes[k] \in MinuteBars
  BY <1>1, NowFacts
<1>4. \A k \in s .. n : minutes[k].high \in Nat /\ minutes[k].low \in Nat
  <2>1. \A k \in s .. n : k \in 1 .. n
    BY <1>1
  <2> QED BY <1>3, <2>1 DEF MinuteBars
<1>5. merged.high \in Nat /\ merged.low \in Nat
  BY DEF MinuteBars
<1>6. \A k \in s .. n : merged.low <= minutes[k].low /\ minutes[k].high <= merged.high
  BY <1>1 DEF Covers
<1>7. PICK h \in s .. n : merged.high <= minutes[h].high
  BY <1>1 DEF Within
<1>8. PICK l \in s .. n : minutes[l].low <= merged.low
  BY <1>1 DEF Within
<1>9. merged.high = minutes[h].high /\ merged.low = minutes[l].low
  BY <1>4, <1>5, <1>6, <1>7, <1>8
<1>10. merged.open = minutes[s].open /\ merged.close = minutes[s + Bucket - 1].close
  BY <1>1, <1>2 DEF Covers
<1>11. Prices4(merged) = Prices4(TrueBar(s))
  BY <1>1, <1>2, <1>3, <1>6, <1>9, <1>10, TrueBarIs
<1> QED BY <1>1, <1>11

\* A push, or none that comes, leaves the rows true.
LEMMA PushKeeps ==
  ASSUME MarketInv, NEW kind \in {"minute", "larger"}, PushClosed(kind)
  PROVE  MarketInv'
<1>0. MarketTyped /\ MergeInv
  BY DEF MarketInv
<1>1. PICK s : s = StartOf(NowAt)
  OBVIOUS
<1>2. \/ /\ kind = "minute" /\ TakeMinute(NowAt, TRUE) /\ UNCHANGED unheard
      \/ /\ kind = "larger" /\ TakeLarger(s, TRUE) /\ UNCHANGED unheard
      \/ unheard' = unheard \cup {s} /\ UNCHANGED <<merging, stored>>
  BY <1>1 DEF PushClosed, Push
<1>3. /\ OthersStay /\ unheard \subseteq unheard'
      /\ merging' = merging \/ merging' = Merged(NowAt, minutes[NowAt], TRUE)
  <2>1. CASE kind = "minute" /\ TakeMinute(NowAt, TRUE) /\ UNCHANGED unheard
    BY <1>0, <2>1, MinuteTaken
  <2>2. CASE kind = "larger" /\ TakeLarger(s, TRUE) /\ UNCHANGED unheard
    BY <1>0, <1>1, <2>2, LargerTaken
  <2>3. CASE unheard' = unheard \cup {s} /\ UNCHANGED <<merging, stored>>
    BY <1>0, <2>3 DEF OthersStay, MarketTyped
  <2> QED BY <1>2, <2>1, <2>2, <2>3
<1>4. "larger" \in emitted' => NowAt % Bucket = 0
  BY <1>0 DEF PushClosed, MarketTyped
<1>5. CASE emitted' # {}
  <2>1. UNCHANGED minutes
    BY <1>5 DEF PushClosed
  <2> QED BY <1>3, <1>4, <2>1, NothingTraded
<1>6. CASE emitted' = {}
  <2>1. PICK price \in Quotes : minutes' = Append(minutes, FirstTrade(NowAt + 1, price))
    BY <1>6 DEF PushClosed
  <2>2. PICK new : new = Merged(NowAt, minutes[NowAt], TRUE)
    OBVIOUS
  <2>3. /\ new \in MinuteBars /\ new.start = s /\ new.close = minutes[NowAt].close
        /\ s \notin unheard => Covers(new, s, NowAt) /\ Within(new, s)
    BY <1>0, <1>1, <2>2, MergedBar
  <2>4. s \in Nat
    BY <1>0, <1>1, NowFacts
  <2>5. merging' \in MinuteBars \cup {NoBar} /\ merging'.start <= s
    <3>1. CASE merging' = merging
      BY <1>0, <1>1, <3>1 DEF MarketTyped
    <3>2. CASE merging' = new
      <4>1. new.start <= s
        BY <2>3, <2>4
      <4> QED BY <2>3, <3>2, <4>1
    <3> QED BY <1>3, <2>2, <3>1, <3>2
  <2>6. ASSUME s \notin unheard', NowAt % Bucket = 0
        PROVE  <<"larger", s>> \in DOMAIN stored' /\ Prices4(stored'[<<"larger", s>>]) = Prices4(TrueBar(s))
    <3>1. CASE kind = "minute" /\ TakeMinute(NowAt, TRUE) /\ UNCHANGED unheard
      <4>1. <<"larger", s>> \in DOMAIN stored' /\ stored'[<<"larger", s>>] = new
        BY <1>0, <1>1, <2>2, <2>6, <3>1, MinuteTaken
      <4>2. Prices4(new) = Prices4(TrueBar(s))
        BY <1>0, <1>1, <2>3, <2>6, <3>1, MergedIsTrue
      <4> QED BY <4>1, <4>2
    <3>2. CASE kind = "larger" /\ TakeLarger(s, TRUE) /\ UNCHANGED unheard
      BY <1>0, <1>1, <3>2, LargerTaken
    <3> QED BY <1>2, <2>6, <3>1, <3>2
  <2>7. ASSUME s \notin unheard', NowAt % Bucket # 0
        PROVE  merging'.start = s /\ Covers(merging', s, NowAt) /\ Within(merging', s)
    <3>1. kind # "larger"
      BY <1>0, <2>7 DEF PushClosed, MarketTyped
    <3>2. TakeMinute(NowAt, TRUE) /\ UNCHANGED unheard
      BY <1>2, <2>7, <3>1
    <3>3. merging' = new
      BY <1>0, <2>2, <3>2, MinuteTaken
    <3> QED BY <2>3, <2>7, <3>2, <3>3
  <2> QED BY <1>1, <1>3, <1>6, <2>1, <2>5, <2>6, <2>7, NextMinute
<1> QED BY <1>5, <1>6

\* What is fetched at the start replaces no row of a bar that ended.
LEMMA StartKeeps ==
  ASSUME MarketInv, StartMarket
  PROVE  MarketInv'
<1>0. MarketTyped
  BY DEF MarketInv
<1>1. PICK n \in Nat : n = NowAt /\ n > 0 /\ DOMAIN minutes = 1 .. n
  BY <1>0, NowFacts
<1>2. \A kind \in {"minute", "larger"} : DOMAIN GapRows(kind) \subseteq {kind} \X (1 .. n)
  <2>1. \A m \in 1 .. n : StartOf(m) \in 1 .. n
    <3> SUFFICES ASSUME NEW m \in 1 .. n PROVE StartOf(m) \in 1 .. n
      OBVIOUS
    <3>1. StartOf(m) \in Nat /\ 1 <= StartOf(m) /\ StartOf(m) <= m
      BY StartBefore
    <3> QED BY <3>1
  <2> QED BY <1>1, <2>1 DEF GapRows
<1>3. ASSUME NEW m \in 1 .. n, <<"larger", m>> \in DOMAIN stored
      PROVE  <<"larger", m>> \notin DOMAIN GapRows("larger")
  <2> DEFINE have == {key[2] : key \in {k \in DOMAIN stored : k[1] = "larger"}}
  <2>1. m \in have /\ have \subseteq 1 .. n
    BY <1>0, <1>1, <1>3 DEF MarketTyped
  <2>2. PICK most \in have : \A y \in have : y <= most
    BY <2>1, GreatestUpTo
  <2>3. Max(have) = most
    <3>1. \A y \in have : y \in Int /\ y <= most
      BY <2>1, <2>2
    <3> HIDE DEF have
    <3> QED BY <3>1, MaxIs
  <2>4. ~(m > Max(have)) /\ have # {}
    <3> HIDE DEF have
    <3> QED BY <2>1, <2>2, <2>3
  <2> QED BY <2>4 DEF GapRows
<1>4. PICK one, two : /\ stored' = StoredOver(one, StoredOver(two, stored))
                      /\ one = <<>> \/ one = GapRows("minute")
                      /\ two = <<>> \/ two = GapRows("larger")
  BY DEF StartMarket
<1>5. DOMAIN one \subseteq {"minute"} \X (1 .. n) /\ DOMAIN two \subseteq {"larger"} \X (1 .. n)
  <2>1. DOMAIN <<>> = {}
    OBVIOUS
  <2> QED BY <1>2, <1>4, <2>1
<1>6. ASSUME NEW m \in 1 .. n, <<"larger", m>> \in DOMAIN stored
      PROVE  <<"larger", m>> \notin DOMAIN one /\ <<"larger", m>> \notin DOMAIN two
  <2>1. DOMAIN <<>> = {}
    OBVIOUS
  <2> QED BY <1>3, <1>4, <1>5, <1>6, <2>1
<1>7. OthersStay
  <2>1. DOMAIN stored' = DOMAIN one \cup (DOMAIN two \cup DOMAIN stored)
    BY <1>4 DEF StoredOver
  <2>2. DOMAIN stored' \subseteq {"minute", "larger"} \X (1 .. n)
    BY <1>0, <1>1, <1>5, <2>1 DEF MarketTyped
  <2>3. ASSUME NEW m \in 1 .. n, <<"larger", m>> \in DOMAIN stored
        PROVE  <<"larger", m>> \in DOMAIN stored' /\ stored'[<<"larger", m>>] = stored[<<"larger", m>>]
    BY <1>4, <1>6, <2>1, <2>3 DEF StoredOver
  <2> QED BY <1>1, <2>2, <2>3 DEF OthersStay
<1>8. /\ UNCHANGED <<minutes, merging, unheard>> /\ emitted' = {}
  BY DEF StartMarket
<1> QED BY <1>7, <1>8, NothingTraded

\* A step of the exchange or of the engine keeps the invariant.
LEMMA MarketStep == MarketInv /\ [MarketNext]_marketVars => MarketInv'
<1> SUFFICES ASSUME MarketInv, [MarketNext]_marketVars PROVE MarketInv'
  OBVIOUS
<1>0. MarketTyped /\ MergeInv
  BY DEF MarketInv
<1>1. minutes \in Seq(MinuteBars) /\ minutes[NowAt] \in MinuteBars /\ NowAt \in 1 .. Len(minutes)
  BY <1>0, NowFacts DEF MarketTyped
<1>2. PICK merged \in MinuteBars : merged = minutes[NowAt]
  BY <1>1
<1>3. merged.high \in Nat /\ merged.low \in Nat
  BY DEF MinuteBars
<1>4. UNCHANGED stored => OthersStay
  BY <1>0 DEF OthersStay, MarketTyped
<1>5. ASSUME NEW price \in Quotes, MinuteTrades(price) PROVE MarketInv'
  <2>1. PICK hi, lo : hi = Max({merged.high, price}) /\ lo = Min({merged.low, price})
    OBVIOUS
  <2>2. price \in Nat
    BY MarketAssumption
  <2>3. hi \in Nat /\ lo \in Nat /\ hi >= merged.high /\ lo <= merged.low
    BY <1>3, <2>1, <2>2, MaxOfTwo, MinOfTwo
  <2>4. minutes' = [minutes EXCEPT ![NowAt] = [merged EXCEPT !.high = hi, !.low = lo, !.close = price]]
    <3>1. minutes' = [minutes EXCEPT ![NowAt] =
            [minutes[NowAt] EXCEPT !.high = Max({minutes[NowAt].high, price}),
                                   !.low = Min({minutes[NowAt].low, price}), !.close = price]]
      BY <1>5 DEF MinuteTrades
    <3> QED BY <1>2, <2>1, <3>1
  <2>5. PICK new : new = [merged EXCEPT !.high = hi, !.low = lo, !.close = price]
    OBVIOUS
  <2>6. new \in MinuteBars /\ new.open = merged.open /\ new.high = hi /\ new.low = lo
    BY <2>2, <2>3, <2>5 DEF MinuteBars
  <2>7. minutes' = [minutes EXCEPT ![NowAt] = new]
    BY <2>4, <2>5
  <2>8. /\ minutes' \in Seq(MinuteBars) /\ Len(minutes') = Len(minutes) /\ minutes'[NowAt] = new
        /\ \A k \in 1 .. NowAt - 1 : minutes'[k] = minutes[k]
    <3>1. PICK n \in 1 .. Len(minutes) : n = NowAt
      BY <1>1
    <3>2. minutes' = [minutes EXCEPT ![n] = new]
      BY <2>7, <3>1
    <3>3. \A k \in 1 .. n - 1 : k \in 1 .. Len(minutes) /\ k # n
      BY <1>1, <3>1
    <3>4. minutes' \in Seq(MinuteBars) /\ Len(minutes') = Len(minutes) /\ minutes'[n] = new
          /\ \A k \in 1 .. n - 1 : minutes'[k] = minutes[k]
      BY <1>1, <2>6, <3>2, <3>3
    <3> QED BY <3>1, <3>4
  <2>9. UNCHANGED <<merging, stored, unheard, emitted>>
    BY <1>5 DEF MinuteTrades
  <2>10. "larger" \in emitted' => NowAt % Bucket = 0
    BY <1>0, <2>9 DEF MarketTyped
  <2> QED BY <1>2, <1>3, <1>4, <2>3, <2>6, <2>8, <2>9, <2>10, SameMinute
<1>6. ASSUME UNCHANGED <<minutes, unheard>>, OthersStay, "larger" \in emitted' => NowAt % Bucket = 0,
             merging' = merging \/ merging' = Merged(NowAt, minutes[NowAt], FALSE)
      PROVE  MarketInv'
  BY <1>6, NothingTraded
<1>7. CASE PushForming
  <2>1. UNCHANGED <<minutes, unheard, emitted>>
    BY <1>7 DEF PushForming
  <2>2. "larger" \in emitted' => NowAt % Bucket = 0
    BY <1>0, <2>1 DEF MarketTyped
  <2>3. CASE TakeMinute(NowAt, FALSE)
    <3>1. merging' = Merged(NowAt, minutes[NowAt], FALSE) /\ OthersStay
      BY <1>0, <2>3, MinuteTaken
    <3> QED BY <1>6, <2>1, <2>2, <3>1
  <2>4. CASE TakeLarger(StartOf(NowAt), FALSE)
    <3>1. merging' = merging /\ OthersStay
      BY <1>0, <2>4, LargerTaken
    <3> QED BY <1>6, <2>1, <2>2, <3>1
  <2> QED BY <1>7, <2>3, <2>4 DEF PushForming
<1>8. CASE MinuteCloses
  <2>1. UNCHANGED <<minutes, unheard, stored, merging>> /\ ("larger" \in emitted' => NowAt % Bucket = 0)
    BY <1>8 DEF MinuteCloses
  <2> QED BY <1>4, <1>6, <2>1
<1>9. ASSUME NEW kind \in {"minute", "larger"}, PushClosed(kind) PROVE MarketInv'
  BY <1>9, PushKeeps
<1>10. CASE StartMarket
  BY <1>10, StartKeeps
<1>11. CASE StopMarket
  <2>1. UNCHANGED <<minutes, emitted, stored, merging>> /\ unheard \subseteq unheard'
    BY <1>11 DEF StopMarket
  <2>2. "larger" \in emitted' => NowAt % Bucket = 0
    BY <1>0, <2>1 DEF MarketTyped
  <2> QED BY <1>4, <2>1, <2>2, NothingTraded
<1>12. CASE UNCHANGED marketVars
  <2>1. UNCHANGED <<minutes, unheard, stored, merging, emitted>>
    BY <1>12 DEF marketVars
  <2>2. "larger" \in emitted' => NowAt % Bucket = 0
    BY <1>0, <2>1 DEF MarketTyped
  <2> QED BY <1>4, <1>6, <2>1, <2>2
<1> QED BY <1>5, <1>7, <1>8, <1>9, <1>10, <1>11, <1>12 DEF MarketNext

\* What is stored of a bar that is over is what the exchange says of it, through
\* pushes that are lost, a late start, and a larger bar that is written twice,
\* merged and as the exchange has it (_on_kline_received, _initial_gap_fill):
\* a part of MarketDataTrue.
THEOREM StoredIsTrueHolds == MarketSpec => []StoredIsTrue
<1>1. MarketInv => StoredIsTrue
  BY DEF MarketInv
<1> QED BY MarketStart, MarketStep, <1>1, PTL DEF MarketSpec

-----------------------------------------------------------------------------
(* The cache of bars: no bar of another time zone.                         *)

\* As long as the offset in use is the one the entry was begun with, every bar
\* of it was converted with that offset; the generation follows the offset, and
\* that of the entry follows the generation.
ZoneInv ==
  /\ zone \in Nat /\ tzGen \in Nat /\ entryGen \in Nat
  /\ entryGen <= tzGen /\ tzGen <= zone
  /\ zone = entryGen => \A t \in DOMAIN bars : bars[t].zone = zone

LEMMA ZoneInit == CacheInit => ZoneInv
<1> SUFFICES ASSUME CacheInit PROVE ZoneInv
  OBVIOUS
<1>1. DOMAIN bars = {}
  BY DEF CacheInit, NoBars
<1>2. zone = 0 /\ tzGen = 0 /\ entryGen = 0
  BY DEF CacheInit
<1> QED
  BY <1>1, <1>2 DEF ZoneInv

\* A merge, either way, has bars of the entry and bars of the offset in use.
LEMMA MergedZone ==
  ASSUME NEW old, NEW page, NEW z, zone = z, \A t \in DOMAIN old : old[t].zone = z
  PROVE  /\ \A t \in DOMAIN Merge(old, Fetched(page)) : Merge(old, Fetched(page))[t].zone = z
         /\ \A t \in DOMAIN Merge(Fetched(page), old) : Merge(Fetched(page), old)[t].zone = z
<1>1. \A t \in DOMAIN Fetched(page) : Fetched(page)[t].zone = z
  BY DEF Fetched
<1>2. ASSUME NEW f, NEW g, \A t \in DOMAIN f : f[t].zone = z, \A t \in DOMAIN g : g[t].zone = z
      PROVE  \A t \in DOMAIN Merge(f, g) : Merge(f, g)[t].zone = z
  BY <1>2 DEF Merge
<1> QED
  BY <1>1, <1>2

LEMMA EmptyZone == EmptyEntry => DOMAIN bars' = {}
  BY DEF EmptyEntry, NoBars

\* Whatever a step does to the entry, it keeps the zones apart.
LEMMA ZoneStep == ZoneInv /\ [CacheNext]_cacheVars => ZoneInv'
<1> SUFFICES ASSUME ZoneInv, [CacheNext]_cacheVars PROVE ZoneInv'
  OBVIOUS
<1> USE DEF ZoneInv, worldVars, entryVars
<1>1. ASSUME NEW limit, NEW end, BeginRequest(limit, end) PROVE ZoneInv'
  <2>1. UNCHANGED <<zone, tzGen>> /\ entryGen' = tzGen
    BY <1>1 DEF BeginRequest
  <2>2. CASE StaleEntry
    <3>1. DOMAIN bars' = {}
      BY <1>1, <2>2, EmptyZone DEF BeginRequest
    <3> QED
      BY <2>1, <3>1
  <2>3. CASE ~StaleEntry
    <3>1. bars' = bars
      BY <1>1, <2>3 DEF BeginRequest
    <3> QED
      BY <2>1, <2>3, <3>1 DEF StaleEntry, Bars
  <2> QED
    BY <2>2, <2>3
<1>2. ASSUME UNCHANGED <<zone, tzGen, entryGen>>,
             \/ bars' = bars \/ EmptyEntry
             \/ \E page : bars' = Merge(bars, Fetched(page)) \/ bars' = Merge(Fetched(page), bars)
      PROVE  ZoneInv'
  <2>1. CASE bars' = bars
    BY <1>2, <2>1
  <2>2. CASE EmptyEntry
    BY <1>2, <2>2, EmptyZone
  <2>3. ASSUME NEW page, bars' = Merge(bars, Fetched(page)) \/ bars' = Merge(Fetched(page), bars)
        PROVE  ZoneInv'
    <3>1. zone = entryGen => \A t \in DOMAIN bars' : bars'[t].zone = zone
      BY <2>3, MergedZone
    <3> QED
      BY <1>2, <3>1
  <2> QED
    BY <1>2, <2>1, <2>2, <2>3
<1>3. CASE TailFetch
  BY <1>3, <1>2 DEF TailFetch
<1>4. CASE FillFetch
  BY <1>4, <1>2 DEF FillFetch
<1>5. CASE RepairGap
  BY <1>5, <1>2 DEF RepairGap
<1>6. CASE TailFails \/ FillEnds \/ FinishRequest \/ CancelRequest \/ Evict
  BY <1>6, <1>2 DEF TailFails, FillEnds, FinishRequest, CancelRequest, Evict
<1>7. CASE NextBar \/ TailTtlPasses \/ CooldownsPass
  BY <1>7, <1>2 DEF NextBar, TailTtlPasses, CooldownsPass
<1>8. CASE ShiftZone
  BY <1>8 DEF ShiftZone
<1>9. CASE CountShift
  BY <1>9 DEF CountShift
<1>10. CASE UNCHANGED cacheVars
  BY <1>10, <1>2 DEF cacheVars
<1> QED
  BY <1>1, <1>3, <1>4, <1>5, <1>6, <1>7, <1>8, <1>9, <1>10 DEF CacheNext

\* Bars converted with two offsets never stand in one entry, wherever in a
\* request the correction of the offset came and even if it was cancelled
\* (_served_klines, _calibrate_offset): a part of CacheTrue.
THEOREM OneZoneHolds == CacheSpec => []OneZone
<1>1. ZoneInv => OneZone
  BY DEF ZoneInv, OneZone, Bars
<1> QED
  BY ZoneInit, ZoneStep, <1>1, PTL DEF CacheSpec

-----------------------------------------------------------------------------
(* The cache of bars: a hole is served only if it was tried.               *)

\* The hole h is one of the entry's bars and of the window of the request.
Opened(h) ==
  /\ h[1] \in Bars /\ h[2] \in Bars /\ h[1] < h[2]
  /\ \A t \in Bars : ~(h[1] < t /\ t < h[2])
  /\ request.end = Latest \/ h[2] <= request.end

\* Some of the rows lie within the hole h.
Lacks(h, rows) == \E t \in rows : h[1] < t /\ t < h[2]

\* During a repair the holes in hand are still open, and every hole of the
\* window with rows of the source in it was tried or is in hand, unless there
\* were more than one request repairs. This is not what a response promises:
\* a hole is in hand before it is tried, and its own fetch may close it.
RepairInv ==
  request.step = "repair" =>
    /\ \A h \in request.gaps : Opened(h)
    /\ \/ \A h \in HolesOf(Bars, request) : Lacks(h, SourceBars) => h \in gapAttempts \cup request.gaps
       \/ RepairMax <= Cardinality(gapAttempts \cup request.gaps)

\* The invariant: the entry has bars the market has had, and RepairInv.
HoleInv ==
  /\ newest \in OldestBar .. NewestBar
  /\ Bars \subseteq OldestBar .. newest
  /\ DOMAIN request = DOMAIN Idle
  /\ request.limit \in Nat /\ request.end \in Nat
  /\ request.gaps \subseteq (OldestBar .. NewestBar) \X (OldestBar .. NewestBar)
  /\ gapAttempts \subseteq (OldestBar .. NewestBar) \X (OldestBar .. NewestBar)
  /\ RepairInv

\* What is kept of the newest rows is kept of the newer ones, and of fewer rows.
LEMMA LastOfUp ==
  ASSUME NEW s \in SUBSET Nat, IsFiniteSet(s), NEW n \in Nat,
         NEW x \in LastOf(n, s), NEW y \in s, x < y
  PROVE  y \in LastOf(n, s)
<1> DEFINE over(z) == {u \in s : u > z}
<1>1. x \in s /\ Cardinality(over(x)) < n
  BY DEF LastOf
<1>2. over(y) \in SUBSET over(x) /\ over(x) \in SUBSET s
  <2>1. x \in Nat /\ y \in Nat
    BY <1>1
  <2>2. \A u \in s : u \in Nat /\ (u > y => u > x)
    BY <2>1
  <2> QED BY <2>2
<1>3. IsFiniteSet(over(x))
  BY <1>2, FS_Subset
<1>4. Cardinality(over(y)) <= Cardinality(over(x)) /\ IsFiniteSet(over(y))
  BY <1>2, <1>3, FS_Subset
<1>5. Cardinality(over(x)) \in Nat /\ Cardinality(over(y)) \in Nat
  BY <1>3, <1>4, FS_CardinalityType
<1>6. Cardinality(over(y)) < n
  <2> HIDE DEF over
  <2> QED BY <1>1, <1>4, <1>5
<1> QED BY <1>6 DEF LastOf

\* A row that is among the newest n of a set is so in every part of it.
LEMMA LastOfFewer ==
  ASSUME NEW s \in SUBSET Nat, IsFiniteSet(s), NEW t \in SUBSET s, NEW n \in Nat,
         NEW x \in LastOf(n, s), x \in t
  PROVE  x \in LastOf(n, t)
<1> DEFINE over(z) == {u \in z : u > x}
<1>1. Cardinality(over(s)) < n
  BY DEF LastOf
<1>2. over(t) \in SUBSET over(s) /\ over(s) \in SUBSET s
  OBVIOUS
<1>3. IsFiniteSet(over(s))
  BY <1>2, FS_Subset
<1>4. Cardinality(over(t)) <= Cardinality(over(s)) /\ IsFiniteSet(over(t))
  BY <1>2, <1>3, FS_Subset
<1>5. Cardinality(over(s)) \in Nat /\ Cardinality(over(t)) \in Nat
  BY <1>3, <1>4, FS_CardinalityType
<1>6. Cardinality(over(t)) < n
  <2> HIDE DEF over
  <2> QED BY <1>1, <1>4, <1>5
<1> QED BY <1>6 DEF LastOf

\* The deeper page of a repair has every row of the source within the hole.
LEMMA PageCovers ==
  ASSUME newest \in Nat, OldestBar \in Nat, NEW a \in Nat, NEW b \in Nat, b > 1,
         NEW t \in SourceBars, a < t, t < b
  PROVE  t \in Page(b - a + 4, b - 1)
<1> DEFINE n    == b - a + 4
           end  == b - 1
           all  == IF source = "terminal" THEN TerminalRange(n, end) ELSE SourceBars
           over == {u \in UpTo(end, all) : u > t}
<1>1. t \in Nat /\ end # Latest /\ n \in Nat /\ end \in Nat
  BY DEF SourceBars, Latest
<1>2. \A u \in SourceBars : u \in Nat
  BY DEF SourceBars
<1>3. t \in all
  BY <1>1 DEF TerminalRange
<1>4. t \in UpTo(end, all)
  BY <1>1, <1>3 DEF UpTo
<1>5. over \in SUBSET (t + 1 .. end)
  <2>1. \A u \in over : u \in all /\ u <= end /\ u > t
    BY <1>1 DEF UpTo
  <2>2. \A u \in all : u \in Nat
    BY <1>2 DEF TerminalRange
  <2> HIDE DEF over, all, end
  <2> QED BY <1>1, <2>1, <2>2
<1>6. IsFiniteSet(t + 1 .. end) /\ Cardinality(t + 1 .. end) = IF t + 1 > end THEN 0 ELSE end - (t + 1) + 1
  BY <1>1, FS_Interval
<1>7. IsFiniteSet(over) /\ Cardinality(over) <= Cardinality(t + 1 .. end)
  BY <1>5, <1>6, FS_Subset
<1>8. Cardinality(over) \in Nat
  BY <1>7, FS_CardinalityType
<1>9. Cardinality(over) < n
  <2>1. PICK c : c = Cardinality(over)
    OBVIOUS
  <2>2. c \in Nat /\ c <= (IF t + 1 > end THEN 0 ELSE end - (t + 1) + 1)
    BY <1>6, <1>7, <1>8, <2>1
  <2>3. c < n
    BY <1>1, <2>2
  <2> QED BY <2>1, <2>3
<1>10. t \in LastOf(n, UpTo(end, all))
  BY <1>4, <1>9 DEF LastOf
<1> QED BY <1>10 DEF Page

\* A page has rows of the source alone, none after the time it was asked for.
LEMMA PageRows ==
  ASSUME NEW n, NEW end
  PROVE  /\ Page(n, end) \subseteq SourceBars
         /\ end # Latest => \A t \in Page(n, end) : t <= end
BY DEF Page, LastOf, UpTo, TerminalRange

\* A hole that is left after a repair was there before it: what was found
\* within a hole leaves none with rows of the source.
LEMMA RepairLeavesHoles ==
  ASSUME NEW old \in SUBSET Nat, NEW new \in SUBSET Nat, IsFiniteSet(new), old \subseteq new,
         NEW r, r.limit \in Nat, r.end \in Nat,
         NEW a \in old, NEW b \in old, a < b, r.end = Latest \/ b <= r.end,
         \A t \in old : ~(a < t /\ t < b),
         \A t \in new : t \in old \/ (a < t /\ t < b),
         NEW rows \in SUBSET Nat,
         new = old \/ (\A t \in rows : a < t /\ t < b => t \in new),
         NEW h \in HolesOf(new, r), Lacks(h, rows)
  PROVE  h \in HolesOf(old, r)
<1> DEFINE U == UpTo(r.end, new)
           V == UpTo(r.end, old)
           W == LastOf(r.limit, U)
           X == LastOf(r.limit, V)
<1>1. CASE new = old
  BY <1>1
<1>2. CASE \A t \in rows : a < t /\ t < b => t \in new
  <2>1. U \in SUBSET Nat /\ V \in SUBSET U /\ IsFiniteSet(U) /\ W \subseteq U
    <3>1. U \in SUBSET new /\ V \subseteq U /\ W \subseteq U
      BY DEF UpTo, LastOf
    <3> QED BY <3>1, FS_Subset
  <2>2. PICK x \in W, y \in W : h = <<x, y>> /\ y - x > 1 /\ \A t \in W : ~(x < t /\ t < y)
    BY DEF HolesOf
  <2>3. x \in Nat /\ y \in Nat /\ x < y /\ x \in U /\ y \in U
    BY <2>1, <2>2
  <2>4. \A t \in U : x < t => t \in W
    BY <2>1, <2>2, <2>3, LastOfUp
  <2>5. \A t \in U : ~(x < t /\ t < y)
    BY <2>2, <2>4
  <2>6. a \in U /\ b \in U
    BY DEF UpTo
  <2>7. PICK t \in rows : x < t /\ t < y
    BY <2>2 DEF Lacks
  <2>8. ASSUME a < t, t < b PROVE FALSE
    <3>1. t \in new /\ t \in Nat
      BY <1>2, <2>8
    <3>2. t \in U
      BY <2>3, <2>7, <3>1 DEF UpTo
    <3> QED BY <2>5, <2>7, <3>2
  <2>9. x \in old /\ y \in old
    <3>1. x \in new /\ y \in new /\ t \in Nat /\ a \in Nat /\ b \in Nat
      BY <2>3 DEF UpTo
    <3>2. CASE a < x /\ x < b
      <4>1. ~(b < y)
        BY <2>5, <2>6, <3>2
      <4> QED BY <2>3, <2>7, <2>8, <3>1, <3>2, <4>1
    <3>3. CASE a < y /\ y < b
      <4>1. ~(x < a)
        BY <2>5, <2>6, <3>3
      <4> QED BY <2>3, <2>7, <2>8, <3>1, <3>3, <4>1
    <3> QED BY <3>1, <3>2, <3>3
  <2>10. x \in V /\ y \in V
    BY <2>3, <2>9 DEF UpTo
  <2>11. x \in X /\ y \in X
    BY <2>1, <2>2, <2>10, LastOfFewer
  <2>12. \A u \in X : ~(x < u /\ u < y)
    <3>1. X \subseteq U
      BY <2>1 DEF LastOf
    <3> QED BY <2>5, <3>1
  <2> QED BY <2>2, <2>11, <2>12 DEF HolesOf
<1> QED BY <1>1, <1>2

\* A hole of the window has none of the entry's bars in it.
LEMMA HolesAreOpen ==
  ASSUME NEW s \in SUBSET Nat, IsFiniteSet(s), NEW r, r.limit \in Nat, r.end \in Nat, NEW h \in HolesOf(s, r)
  PROVE  /\ h \in s \X s /\ h[1] < h[2] /\ \A t \in s : ~(h[1] < t /\ t < h[2])
         /\ r.end = Latest \/ h[2] <= r.end
<1> DEFINE U == UpTo(r.end, s)
           W == LastOf(r.limit, U)
<1>1. U \in SUBSET Nat /\ IsFiniteSet(U) /\ W \subseteq U /\ U \subseteq s
  <2>1. U \in SUBSET s /\ W \subseteq U
    BY DEF UpTo, LastOf
  <2> QED BY <2>1, FS_Subset
<1>2. PICK x \in W, y \in W : h = <<x, y>> /\ y - x > 1 /\ \A t \in W : ~(x < t /\ t < y)
  BY DEF HolesOf
<1>3. x \in Nat /\ y \in Nat /\ x < y /\ x \in s /\ y \in s
  BY <1>1, <1>2
<1>4. \A t \in U : x < t => t \in W
  BY <1>1, <1>2, <1>3, LastOfUp
<1>5. r.end = Latest \/ y <= r.end
  BY <1>1, <1>2 DEF UpTo
<1>6. \A t \in s : t < y => t \in U
  BY <1>3, <1>5 DEF UpTo
<1>7. \A t \in s : ~(x < t /\ t < y)
  BY <1>2, <1>4, <1>6
<1> QED BY <1>2, <1>3, <1>5, <1>7

\* The first n of a set of holes are all of them, or n.
LEMMA FirstAreMany ==
  ASSUME NEW S \in SUBSET (Nat \X Nat), IsFiniteSet(S), NEW n \in Nat
  PROVE  LET T == {g \in S : Cardinality({h \in S : h[1] < g[1]}) < n} IN
         T = S \/ n <= Cardinality(T)
<1> DEFINE lower(k) == {h \in S : h[1] < k}
           T == {g \in S : Cardinality(lower(g[1])) < n}
           K == {g[1] : g \in S \ T}
<1> SUFFICES ASSUME T # S PROVE n <= Cardinality(T)
  OBVIOUS
<1>1. K \subseteq Nat /\ K # {}
  OBVIOUS
<1>2. PICK k \in K : \A j \in K : ~ (<<j, k>> \in OpToRel(<, Nat))
  BY <1>1, NatLessThanWellFounded, WFMin
<1>3. \A j \in K : ~(j < k)
  <2>1. \A j \in K : j < k => <<j, k>> \in OpToRel(<, Nat)
    BY <1>1 DEF OpToRel
  <2> QED BY <1>2, <2>1
<1>4. \A h \in S : h[1] < k => h \in T
  BY <1>3
<1>5. lower(k) \in SUBSET T /\ T \in SUBSET S
  BY <1>4
<1>6. IsFiniteSet(T)
  BY <1>5, FS_Subset
<1>7. Cardinality(lower(k)) <= Cardinality(T) /\ IsFiniteSet(lower(k))
  BY <1>5, <1>6, FS_Subset
<1>8. ~(Cardinality(lower(k)) < n)
  OBVIOUS
<1>9. Cardinality(lower(k)) \in Nat /\ Cardinality(T) \in Nat
  BY <1>6, <1>7, FS_CardinalityType
<1>10. n <= Cardinality(T)
  <2> HIDE DEF lower, T, K
  <2> QED BY <1>7, <1>8, <1>9
<1> QED BY <1>10

\* At the start there are no rows and no request.
LEMMA HoleStart == CacheInit => HoleInv
<1> SUFFICES ASSUME CacheInit PROVE HoleInv
  OBVIOUS
<1>1. newest = OldestBar /\ bars = NoBars /\ request = Idle /\ gapAttempts = {}
  BY DEF CacheInit
<1>2. Bars = {}
  BY <1>1 DEF Bars, NoBars
<1>3. newest \in OldestBar .. NewestBar
  BY <1>1, CacheAssumption
<1> QED BY <1>1, <1>2, <1>3 DEF HoleInv, RepairInv, Idle, Latest

\* What the entry and the newest bar are, as numbers.
LEMMA HoleFacts ==
  ASSUME HoleInv
  PROVE  /\ OldestBar \in Nat /\ OldestBar > 1 /\ newest \in Nat /\ OldestBar <= newest /\ newest <= NewestBar
         /\ Bars \in SUBSET Nat /\ IsFiniteSet(Bars) /\ \A t \in Bars : t > 1 /\ t <= newest
         /\ SourceBars \in SUBSET Nat /\ SourceBars \subseteq OldestBar .. newest
         /\ IsFiniteSet(gapAttempts) /\ IsFiniteSet(request.gaps)
<1>1. OldestBar \in Nat /\ OldestBar > 1 /\ NewestBar \in Nat /\ newest \in OldestBar .. NewestBar
  BY CacheAssumption DEF HoleInv
<1>2. IsFiniteSet(OldestBar .. newest) /\ IsFiniteSet(OldestBar .. NewestBar)
  BY <1>1, FS_Interval
<1>3. IsFiniteSet((OldestBar .. NewestBar) \X (OldestBar .. NewestBar))
  BY <1>2, FS_Product
<1>4. IsFiniteSet(Bars) /\ IsFiniteSet(gapAttempts) /\ IsFiniteSet(request.gaps)
  BY <1>2, <1>3, FS_Subset DEF HoleInv
<1> QED BY <1>1, <1>4 DEF HoleInv, SourceBars

\* Steps that fetch nothing into a repair: whatever holes there were are there.
LEMMA HolesUntouched ==
  ASSUME HoleInv, UNCHANGED <<bars, gapAttempts, request>>,
         newest' \in newest .. NewestBar
  PROVE  HoleInv'
<1>1. UNCHANGED Bars
  BY DEF Bars
<1>2. OldestBar \in Nat /\ newest \in Nat /\ NewestBar \in Nat
  BY HoleFacts, CacheAssumption
<1>3. newest' \in OldestBar .. NewestBar /\ Bars' \subseteq OldestBar .. newest'
  BY <1>1, <1>2 DEF HoleInv
<1>4. RepairInv'
  <2> SUFFICES ASSUME request.step = "repair", NEW h \in HolesOf(Bars, request), Lacks(h, SourceBars')
               PROVE  Lacks(h, SourceBars)
    BY <1>1 DEF HoleInv, RepairInv, Opened, HolesOf
  <2>1. h[2] \in Bars
    BY HoleFacts, HolesAreOpen DEF HoleInv
  <2>2. \A t \in SourceBars' : t \in SourceBars \/ t > newest
    BY <1>2, <1>3 DEF SourceBars
  <2>3. PICK t \in SourceBars' : h[1] < t /\ t < h[2]
    BY DEF Lacks
  <2>4. h[2] <= newest /\ h[2] \in Nat /\ t \in Nat
    BY <1>2, <2>1, HoleFacts DEF SourceBars
  <2>5. t \in SourceBars
    BY <1>2, <2>2, <2>3, <2>4
  <2> QED BY <2>3, <2>5 DEF Lacks
<1> QED BY <1>1, <1>3, <1>4 DEF HoleInv

\* Steps outside of a repair, or that end it.
LEMMA HolesElsewhere ==
  ASSUME HoleInv, UNCHANGED newest, Bars' \subseteq OldestBar .. newest,
         gapAttempts' \in {gapAttempts, {}},
         DOMAIN request' = DOMAIN Idle, request'.step # "repair",
         request'.limit \in Nat, request'.end \in Nat, request'.gaps \in {request.gaps, {}}
  PROVE  HoleInv'
BY DEF HoleInv, RepairInv

\* What a fetch adds to the entry are rows of the source.
LEMMA FetchedRows ==
  ASSUME HoleInv, NEW page, page \subseteq SourceBars
  PROVE  /\ DOMAIN Merge(bars, Fetched(page)) = Bars \cup page
         /\ DOMAIN Merge(Fetched(page), bars) = Bars \cup page
         /\ Bars \cup page \subseteq OldestBar .. newest
<1>1. DOMAIN Fetched(page) = page
  BY DEF Fetched
<1>2. Bars \cup page \subseteq OldestBar .. newest
  BY HoleFacts DEF HoleInv
<1> QED BY <1>1, <1>2 DEF Merge, Bars

\* The first holes to repair are taken in hand.
LEMMA HolesTaken ==
  ASSUME HoleInv, FillEnds
  PROVE  HoleInv'
<1>1. /\ UNCHANGED <<newest, bars, gapAttempts>>
      /\ request' = [request EXCEPT !.step = "repair", !.gaps = GapsToTry(Bars, request)]
      /\ DOMAIN request = DOMAIN Idle
  BY DEF FillEnds, worldVars, entryVars, HoleInv
<1>2. /\ DOMAIN request' = DOMAIN Idle /\ request'.step = "repair"
      /\ request'.gaps = GapsToTry(Bars, request)
      /\ request'.limit = request.limit /\ request'.end = request.end
  BY <1>1 DEF Idle
<1>3. UNCHANGED <<Bars, SourceBars>>
  BY <1>1 DEF Bars, SourceBars, FillEnds, worldVars
<1>4. \A h \in HolesOf(Bars, request) :
        /\ h \in Bars \X Bars /\ h[1] < h[2] /\ \A t \in Bars : ~(h[1] < t /\ t < h[2])
        /\ request.end = Latest \/ h[2] <= request.end
  BY HoleFacts, HolesAreOpen DEF HoleInv
<1> DEFINE S == HolesOf(Bars, request) \ gapAttempts
           T == GapsToTry(Bars, request)
<1>5. T \subseteq S /\ S \subseteq HolesOf(Bars, request) /\ S \in SUBSET (Bars \X Bars)
  BY <1>4 DEF GapsToTry
<1>6. IsFiniteSet(S) /\ IsFiniteSet(T) /\ S \in SUBSET (Nat \X Nat)
  <2>1. IsFiniteSet(Bars \X Bars) /\ Bars \X Bars \subseteq Nat \X Nat
    BY HoleFacts, FS_Product
  <2>2. T \in SUBSET S
    BY <1>5
  <2> HIDE DEF S, T
  <2>3. IsFiniteSet(S)
    BY <1>5, <2>1, FS_Subset
  <2>4. IsFiniteSet(T)
    BY <2>2, <2>3, FS_Subset
  <2> QED BY <1>5, <2>1, <2>3, <2>4
<1>7. T = S \/ RepairMax <= Cardinality(T)
  <2>1. T = {g \in S : Cardinality({h \in S : h[1] < g[1]}) < RepairMax}
    BY DEF GapsToTry
  <2> HIDE DEF S, T
  <2> QED BY <1>6, <2>1, FirstAreMany, CacheAssumption
<1>8. T = S \/ RepairMax <= Cardinality(gapAttempts \cup T)
  <2> HIDE DEF S, T
  <2>1. IsFiniteSet(gapAttempts \cup T) /\ T \in SUBSET (gapAttempts \cup T)
    BY <1>6, HoleFacts, FS_Union
  <2>2. Cardinality(T) <= Cardinality(gapAttempts \cup T)
    BY <2>1, FS_Subset
  <2>3. Cardinality(T) \in Nat /\ Cardinality(gapAttempts \cup T) \in Nat /\ RepairMax \in Nat
    BY <1>6, <2>1, FS_CardinalityType, CacheAssumption
  <2> QED BY <1>7, <2>2, <2>3
<1>9. T \subseteq (OldestBar .. NewestBar) \X (OldestBar .. NewestBar)
  <2>1. Bars \subseteq OldestBar .. NewestBar
    BY HoleFacts, CacheAssumption DEF HoleInv
  <2> QED BY <1>5, <2>1
<1>10. HolesOf(Bars', request') = HolesOf(Bars, request)
  BY <1>2, <1>3 DEF HolesOf
<1>11. RepairInv'
  <2>1. \A h \in T : Opened(h)'
    BY <1>2, <1>3, <1>4, <1>5 DEF Opened
  <2>2. T = S => \A h \in HolesOf(Bars, request) : h \in gapAttempts \cup T
    OBVIOUS
  <2> HIDE DEF S, T
  <2> QED BY <1>1, <1>2, <1>3, <1>8, <1>10, <2>1, <2>2 DEF RepairInv, T
<1> QED BY <1>1, <1>2, <1>3, <1>9, <1>11 DEF HoleInv

\* One hole is repaired, or its fetch fails: it counts as tried.
LEMMA HoleRepaired ==
  ASSUME HoleInv, RepairGap
  PROVE  HoleInv'
<1> DEFINE g == CHOOSE h \in request.gaps : \A i \in request.gaps : h[1] <= i[1]
<1>0. PICK a, b : a = g[1] /\ b = g[2]
  OBVIOUS
<1>1. /\ UNCHANGED <<newest, source>>
      /\ request.step = "repair" /\ request.gaps # {} /\ DOMAIN request = DOMAIN Idle
      /\ gapAttempts' = gapAttempts \cup {g}
      /\ request' = [request EXCEPT !.gaps = @ \ {g}]
  BY DEF RepairGap, worldVars, HoleInv
<1>2. \/ bars' = Merge(bars, Fetched({t \in Page(b - a + 4, b - 1) : a < t}))
      \/ UNCHANGED bars
  BY <1>0 DEF RepairGap
<1>3. g \in request.gaps
  <2> DEFINE K == {h[1] : h \in request.gaps}
  <2>1. K \subseteq Nat /\ K # {}
    BY <1>1, HoleFacts DEF HoleInv
  <2>2. PICK k \in K : \A j \in K : ~ (<<j, k>> \in OpToRel(<, Nat))
    BY <2>1, NatLessThanWellFounded, WFMin
  <2>3. \A j \in K : j < k => <<j, k>> \in OpToRel(<, Nat)
    BY <2>1 DEF OpToRel
  <2>4. \A j \in K : j \in Nat /\ k \in Nat /\ ~(j < k)
    BY <2>1, <2>2, <2>3
  <2>5. \A j \in K : k <= j
    <3> HIDE DEF K
    <3> QED BY <2>4
  <2>6. PICK h \in request.gaps : h[1] = k
    OBVIOUS
  <2>7. \A i \in request.gaps : i[1] \in K
    OBVIOUS
  <2>8. \A i \in request.gaps : h[1] <= i[1]
    <3> HIDE DEF K
    <3> QED BY <2>5, <2>6, <2>7
  <2> QED BY <2>8
<1> HIDE DEF g
<1>4. /\ DOMAIN request' = DOMAIN Idle /\ request'.step = "repair"
      /\ request'.gaps = request.gaps \ {g}
      /\ request'.limit = request.limit /\ request'.end = request.end
  BY <1>1 DEF Idle
<1>5. UNCHANGED SourceBars
  BY <1>1 DEF SourceBars
<1>6. /\ a \in Bars /\ b \in Bars /\ a < b /\ \A t \in Bars : ~(a < t /\ t < b)
      /\ request.end = Latest \/ b <= request.end
      /\ a \in Nat /\ b \in Nat /\ b > 1 /\ g \in (OldestBar .. NewestBar) \X (OldestBar .. NewestBar)
  BY <1>0, <1>1, <1>3, HoleFacts DEF HoleInv, RepairInv, Opened
<1>7. /\ Bars \subseteq Bars' /\ Bars' \subseteq OldestBar .. newest
      /\ \A t \in Bars' : t \in Bars \/ (a < t /\ t < b)
      /\ Bars' = Bars \/ \A t \in SourceBars : a < t /\ t < b => t \in Bars'
  <2>1. CASE bars' = Merge(bars, Fetched({t \in Page(b - a + 4, b - 1) : a < t}))
    <3> DEFINE page == {t \in Page(b - a + 4, b - 1) : a < t}
    <3>1. /\ page \subseteq SourceBars
          /\ \A t \in page : a < t /\ t <= b - 1
      BY <1>6, PageRows DEF Latest
    <3>2. \A t \in SourceBars : a < t /\ t < b => t \in page
      BY <1>6, HoleFacts, PageCovers
    <3> HIDE DEF page
    <3>3. Bars' = Bars \cup page /\ Bars \cup page \subseteq OldestBar .. newest
      BY <2>1, <3>1, FetchedRows DEF Bars, page
    <3>4. \A t \in page : t < b
      BY <1>6, <3>1, HoleFacts
    <3> QED BY <3>1, <3>2, <3>3, <3>4
  <2>2. CASE UNCHANGED bars
    BY <2>2 DEF Bars, HoleInv
  <2> QED BY <1>2, <2>1, <2>2
<1>8. IsFiniteSet(Bars') /\ Bars' \in SUBSET Nat /\ Bars \in SUBSET Nat /\ SourceBars \in SUBSET Nat
  <2>1. IsFiniteSet(OldestBar .. newest) /\ OldestBar .. newest \subseteq Nat
    BY HoleFacts, FS_Interval
  <2> QED BY <1>7, <2>1, HoleFacts, FS_Subset
<1>9. \A h \in request.gaps \ {g} : Opened(h)'
  <2> SUFFICES ASSUME NEW h \in request.gaps, h # g PROVE Opened(h)'
    OBVIOUS
  <2>1. Opened(h)
    BY <1>1 DEF HoleInv, RepairInv
  <2>2. \A t \in Bars' : ~(h[1] < t /\ t < h[2])
    <3> SUFFICES ASSUME NEW t \in Bars', h[1] < t, t < h[2] PROVE FALSE
      OBVIOUS
    <3>1. a < t /\ t < b /\ t \in Nat
      BY <1>7, <1>8, <2>1 DEF Opened
    <3>2. h = <<h[1], h[2]>> /\ g = <<a, b>> /\ h[1] \in Nat /\ h[2] \in Nat
      BY <1>0, <1>6, <1>8, <2>1 DEF HoleInv, Opened
    <3>3. ~(h[1] < a) /\ ~(a < h[1])
      BY <1>6, <1>8, <2>1, <3>1, <3>2 DEF Opened
    <3>4. ~(h[2] < b) /\ ~(b < h[2])
      BY <1>6, <1>8, <2>1, <3>1, <3>2 DEF Opened
    <3>5. h[1] = a /\ h[2] = b
      BY <1>6, <3>2, <3>3, <3>4
    <3> QED BY <3>2, <3>5
  <2> QED BY <1>4, <1>7, <2>1, <2>2 DEF Opened
<1>10. gapAttempts' \cup request'.gaps = gapAttempts \cup request.gaps
  BY <1>1, <1>3, <1>4
<1>11. ASSUME NEW h \in HolesOf(Bars', request'), Lacks(h, SourceBars)
       PROVE  h \in HolesOf(Bars, request)
  <2>1. h \in HolesOf(Bars', request)
    BY <1>4 DEF HolesOf
  <2>2. request.limit \in Nat /\ request.end \in Nat
    BY DEF HoleInv
  <2> QED BY <1>6, <1>7, <1>8, <1>11, <2>1, <2>2, RepairLeavesHoles
<1>12. RepairInv'
  BY <1>1, <1>4, <1>5, <1>9, <1>10, <1>11 DEF HoleInv, RepairInv
<1>13. /\ request'.gaps \subseteq (OldestBar .. NewestBar) \X (OldestBar .. NewestBar)
       /\ gapAttempts' \subseteq (OldestBar .. NewestBar) \X (OldestBar .. NewestBar)
  BY <1>1, <1>4, <1>6 DEF HoleInv
<1> QED BY <1>1, <1>4, <1>7, <1>12, <1>13 DEF HoleInv

\* Every step of the cache, of the market and of the clocks keeps it.
LEMMA HoleStep == HoleInv /\ [CacheNext]_cacheVars => HoleInv'
<1> SUFFICES ASSUME HoleInv, [CacheNext]_cacheVars PROVE HoleInv'
  OBVIOUS
<1> USE DEF worldVars, entryVars
<1>0. /\ DOMAIN request = DOMAIN Idle /\ request.limit \in Nat /\ request.end \in Nat
      /\ OldestBar \in Nat /\ newest \in Nat /\ newest <= NewestBar /\ Bars \subseteq OldestBar .. newest
  BY HoleFacts DEF HoleInv
<1>1. /\ Idle.step # "repair" /\ Idle.limit \in Nat /\ Idle.end \in Nat /\ Idle.gaps = {}
      /\ EmptyEntry => Bars' = {} /\ gapAttempts' = {}
  BY DEF Idle, Latest, EmptyEntry, NoBars, Bars
<1>2. ASSUME NEW limit \in Limits, NEW end \in {Latest} \cup OldestBar - 1 .. newest, BeginRequest(limit, end)
      PROVE  HoleInv'
  <2>1. limit \in Nat /\ end \in Nat
    BY <1>0, CacheAssumption, HoleFacts DEF Latest
  <2>2. Bars' \subseteq OldestBar .. newest /\ gapAttempts' \in {gapAttempts, {}} /\ UNCHANGED newest
    BY <1>0, <1>1, <1>2 DEF BeginRequest, Bars
  <2>3. /\ DOMAIN request' = DOMAIN Idle /\ request'.limit = limit /\ request'.end = end
        /\ request'.gaps = {}
    BY <1>2 DEF BeginRequest, Idle
  <2>4. request'.step = "tail" \/ request'.step = "fill"
    BY <1>2 DEF BeginRequest, Idle
  <2> QED BY <2>1, <2>2, <2>3, <2>4, HolesElsewhere
<1>3. CASE TailFetch
  <2>1. PICK page : page \subseteq SourceBars /\ bars' = Merge(Fetched(page), bars)
    BY <1>3, PageRows DEF TailFetch
  <2>2. Bars' \subseteq OldestBar .. newest
    <3>1. Bars' = Bars \cup page /\ Bars \cup page \subseteq OldestBar .. newest
      BY <2>1, FetchedRows DEF Bars
    <3> QED BY <3>1
  <2>3. PICK anchor : request' = [request EXCEPT !.step = "fill", !.anchor = anchor]
    BY <1>3 DEF TailFetch
  <2>4. /\ DOMAIN request' = DOMAIN Idle /\ request'.step = "fill" /\ request'.limit = request.limit
        /\ request'.end = request.end /\ request'.gaps = request.gaps
    BY <1>0, <2>3 DEF Idle
  <2> QED BY <1>0, <1>3, <2>2, <2>4, HolesElsewhere DEF TailFetch
<1>4. CASE TailFails
  <2>1. UNCHANGED <<newest, bars, gapAttempts>>
    BY <1>4 DEF TailFails
  <2>2. request' = Idle \/ request' = [request EXCEPT !.step = "fill"]
    BY <1>4 DEF TailFails, EndRequest
  <2>3. /\ DOMAIN request' = DOMAIN Idle /\ request'.step # "repair" /\ request'.limit \in Nat
        /\ request'.end \in Nat /\ request'.gaps \in {request.gaps, {}}
    BY <1>0, <2>2 DEF Idle, Latest
  <2>4. Bars' \subseteq OldestBar .. newest
    BY <1>0, <2>1 DEF Bars
  <2> QED BY <2>1, <2>3, <2>4, HolesElsewhere
<1>5. CASE FillFetch
  <2>1. PICK page : page \subseteq SourceBars /\ bars' = Merge(bars, Fetched(page))
    BY <1>5, PageRows DEF FillFetch
  <2>2. Bars' \subseteq OldestBar .. newest
    <3>1. Bars' = Bars \cup page /\ Bars \cup page \subseteq OldestBar .. newest
      BY <2>1, FetchedRows DEF Bars
    <3> QED BY <3>1
  <2>3. PICK rounds, anchor : request' = [request EXCEPT !.rounds = rounds, !.anchor = anchor]
    BY <1>5 DEF FillFetch
  <2>4. /\ DOMAIN request' = DOMAIN Idle /\ request'.step = request.step /\ request'.limit = request.limit
        /\ request'.end = request.end /\ request'.gaps = request.gaps
    BY <1>0, <2>3 DEF Idle
  <2>5. request.step = "fill"
    BY <1>5 DEF FillFetch
  <2> QED BY <1>0, <1>5, <2>2, <2>4, <2>5, HolesElsewhere DEF FillFetch
<1>6. CASE FillEnds
  BY <1>6, HolesTaken
<1>7. CASE RepairGap
  BY <1>7, HoleRepaired
<1>8. CASE FinishRequest \/ CancelRequest
  <2>1. request' = Idle /\ UNCHANGED newest
    BY <1>8 DEF FinishRequest, CancelRequest, EndRequest
  <2>2. EmptyEntry \/ UNCHANGED <<bars, gapAttempts>>
    BY <1>8 DEF FinishRequest, CancelRequest
  <2>3. Bars' \subseteq OldestBar .. newest /\ gapAttempts' \in {gapAttempts, {}}
    BY <1>0, <1>1, <2>2 DEF Bars
  <2> QED BY <1>1, <2>1, <2>3, HolesElsewhere
<1>9. CASE Evict
  <2>1. CASE request.step = "idle"
    <3>1. UNCHANGED <<newest, request>> /\ EmptyEntry
      BY <1>9, <2>1 DEF Evict
    <3>2. Bars' \subseteq OldestBar .. newest /\ gapAttempts' \in {gapAttempts, {}}
      BY <1>1, <3>1
    <3> QED BY <1>0, <2>1, <3>1, <3>2, HolesElsewhere
  <2>2. CASE request.step # "idle"
    <3>1. UNCHANGED <<newest, bars, gapAttempts, request>>
      BY <1>9, <2>2 DEF Evict
    <3>2. newest' \in newest .. NewestBar
      BY <1>0, <3>1, CacheAssumption
    <3> QED BY <3>1, <3>2, HolesUntouched
  <2> QED BY <2>1, <2>2
<1>10. CASE NextBar \/ TailTtlPasses \/ ShiftZone \/ CountShift \/ UNCHANGED cacheVars
  <2>1. UNCHANGED <<bars, gapAttempts, request>>
    BY <1>10 DEF NextBar, TailTtlPasses, ShiftZone, CountShift, cacheVars
  <2>2. newest' \in newest + 1 .. NewestBar \/ newest' = newest
    BY <1>10 DEF NextBar, TailTtlPasses, ShiftZone, CountShift, cacheVars
  <2>3. newest' \in newest .. NewestBar
    BY <1>0, <2>2, CacheAssumption
  <2> QED BY <2>1, <2>3, HolesUntouched
<1>11. CASE CooldownsPass
  <2>1. UNCHANGED <<newest, bars, request>> /\ gapAttempts' = {} /\ request.step = "idle"
    BY <1>11 DEF CooldownsPass
  <2>2. Bars' \subseteq OldestBar .. newest
    BY <1>0, <2>1 DEF Bars
  <2> QED BY <1>0, <2>1, <2>2, HolesElsewhere
<1> QED BY <1>2, <1>3, <1>4, <1>5, <1>6, <1>7, <1>8, <1>9, <1>10, <1>11 DEF CacheNext

\* A response ends a repair with nothing left to try.
LEMMA TriedOrMany ==
  ASSUME HoleInv, [CacheNext]_cacheVars, request.step = "repair", request'.step = "idle", served' # served
  PROVE  LET left == {g \in HolesOf(Bars, request) : \E t \in SourceBars : g[1] < t /\ t < g[2]}
         IN left \subseteq gapAttempts \/ Cardinality(gapAttempts) >= RepairMax
<1>1. request.gaps = {}
  <2>1. CASE FinishRequest
    BY <2>1 DEF FinishRequest
  <2>2. CASE ~FinishRequest
    <3>1. request.step # "idle" /\ request.step # "tail" /\ request.step # "fill"
      OBVIOUS
    <3>2. DOMAIN request = {"step", "limit", "end", "gen", "anchor", "rounds", "gaps"}
      BY DEF HoleInv, Idle
    <3> QED BY <2>2, <3>1, <3>2 DEF CacheNext, BeginRequest, TailFetch, TailFails, FillFetch, FillEnds, RepairGap, CancelRequest,
         EndRequest, Evict, NextBar, TailTtlPasses, CooldownsPass, ShiftZone, CountShift, cacheVars
  <2> QED BY <2>1, <2>2
<1>2. gapAttempts \cup request.gaps = gapAttempts
  BY <1>1
<1>3. \/ \A h \in HolesOf(Bars, request) : Lacks(h, SourceBars) => h \in gapAttempts
      \/ RepairMax <= Cardinality(gapAttempts)
  BY <1>2 DEF HoleInv, RepairInv
<1>4. Cardinality(gapAttempts) \in Nat /\ RepairMax \in Nat
  BY HoleFacts, FS_CardinalityType, CacheAssumption
<1> QED BY <1>3, <1>4 DEF Lacks

\* With any source, market, depths asked for, failures, cancellations and
\* evictions: a response has a hole where the source has bars only if the hole
\* was tried and nothing came of it, or one request had more holes than it
\* repairs (_served_klines, _repair_interior_gaps), although bars come and the
\* time zone shifts while the request waits for its fetches.
THEOREM HolesAreTriedHolds == CacheSpec => HolesAreTried
<1>1. HoleInv /\ [CacheNext]_cacheVars =>
        [(request.step = "repair" /\ request'.step = "idle" /\ served' # served) =>
       LET left == {g \in HolesOf(Bars, request) : \E t \in SourceBars : g[1] < t /\ t < g[2]}
       IN left \subseteq gapAttempts \/ Cardinality(gapAttempts) >= RepairMax]_cacheVars
  BY TriedOrMany
<1> QED BY HoleStart, HoleStep, <1>1, PTL DEF CacheSpec, HolesAreTried

-----------------------------------------------------------------------------
(* The threads of a live process.                                          *)

Places == {"waiting", "body", "gave_up", "ended"}

\* The count of a thread is the number of its own failures, because the wrapper
\* keeps one for each call; whoever reaches the limit is gone at once.
LaunchInv ==
  /\ launchStage \in {"new", "refused", "running", "stopped"}
  /\ launchStage \in {"new", "refused"} => DOMAIN thread = {}
  /\ thread \in [DOMAIN thread -> Places]
  /\ consecutive \in [DOMAIN thread -> 0 .. MaxErrors]
  /\ ownStreak = consecutive
  /\ \A w \in DOMAIN thread : (thread[w] = "gave_up") = (ownStreak[w] >= MaxErrors)
  /\ launchStage = "stopped" => \A w \in DOMAIN thread : thread[w] \in {"gave_up", "ended"}

LEMMA LaunchInit == LauncherInit => LaunchInv
<1> SUFFICES ASSUME LauncherInit PROVE LaunchInv
  OBVIOUS
<1>1. launchStage = "new" /\ thread = <<>> /\ consecutive = <<>> /\ ownStreak = <<>>
  BY DEF LauncherInit
<1>2. DOMAIN thread = {} /\ thread \in [{} -> Places] /\ consecutive \in [{} -> 0 .. MaxErrors]
  BY <1>1
<1> QED
  BY <1>1, <1>2 DEF LaunchInv

\* A failure raises the count of its thread, and no other.
LEMMA FailureCounted ==
  ASSUME LaunchInv, NEW w \in DOMAIN thread, Alive(w), Failed(w)
  PROVE  /\ consecutive' = [consecutive EXCEPT ![w] = consecutive[w] + 1]
         /\ ownStreak' = consecutive'
         /\ consecutive[w] + 1 \in 0 .. MaxErrors
<1>1. MaxErrors \in Nat \ {0}
  BY LauncherAssumption
<1>2. consecutive[w] < MaxErrors /\ consecutive[w] \in Nat /\ ownStreak = consecutive
  BY <1>1 DEF LaunchInv, Alive
<1>3. Min({consecutive[w] + 1, MaxErrors}) = consecutive[w] + 1
  BY <1>1, <1>2, LeastOfTwo
<1>4. ownStreak' = [ownStreak EXCEPT ![w] = consecutive[w] + 1]
  BY <1>2, <1>3 DEF Failed
<1>5. consecutive' = [v \in DOMAIN thread |-> IF v = w THEN consecutive[w] + 1 ELSE consecutive[v]]
  BY <1>3 DEF Failed, Failing
<1>6. consecutive' = [consecutive EXCEPT ![w] = consecutive[w] + 1]
  BY <1>5 DEF LaunchInv
<1> QED
  BY <1>1, <1>2, <1>4, <1>6

LEMMA LaunchStep == LaunchInv /\ [LauncherNext]_launchVars => LaunchInv'
<1> SUFFICES ASSUME LaunchInv, [LauncherNext]_launchVars PROVE LaunchInv'
  OBVIOUS
<1>0. MaxErrors \in Nat \ {0}
  BY LauncherAssumption
<1>1. CASE Launch
  <2>1. CASE launchStage' = "refused"
    BY <1>1, <2>1 DEF Launch, LaunchInv
  <2>2. CASE launchStage' # "refused"
    <3> DEFINE ws == WorkersOf(setup)
    <3>1. /\ launchStage' = "running" /\ thread' = [w \in ws |-> "waiting"]
          /\ consecutive' = [w \in ws |-> 0] /\ ownStreak' = [w \in ws |-> 0]
      BY <1>1, <2>2 DEF Launch
    <3> HIDE DEF ws
    <3> QED
      BY <1>0, <3>1 DEF LaunchInv, Places
  <2> QED
    BY <2>1, <2>2
<1>2. ASSUME NEW w \in DOMAIN thread, WaitReturns(w) PROVE LaunchInv'
  BY <1>0, <1>2 DEF WaitReturns, Alive, LaunchInv, Places
<1>3. ASSUME NEW w \in DOMAIN thread, Alive(w), Failed(w),
             \E next \in {"waiting", "body"} : thread' =
               [thread EXCEPT ![w] = IF consecutive'[w] >= MaxErrors THEN "gave_up" ELSE next]
      PROVE  LaunchInv'
  <2>1. /\ consecutive' = [consecutive EXCEPT ![w] = consecutive[w] + 1]
        /\ ownStreak' = consecutive' /\ consecutive[w] + 1 \in 0 .. MaxErrors
    BY <1>3, FailureCounted
  <2>2. launchStage' = launchStage /\ launchStage = "running"
    BY <1>3 DEF Failed, Alive
  <2> QED
    BY <1>0, <1>3, <2>1, <2>2 DEF LaunchInv, Places
<1>4. ASSUME NEW w \in DOMAIN thread, WaitRaises(w) PROVE LaunchInv'
  BY <1>3, <1>4 DEF WaitRaises
<1>5. ASSUME NEW w \in DOMAIN thread, BodyRaises(w) PROVE LaunchInv'
  BY <1>3, <1>5 DEF BodyRaises
<1>6. ASSUME NEW w \in DOMAIN thread, BodyReturns(w) PROVE LaunchInv'
  BY <1>0, <1>6 DEF BodyReturns, Alive, LaunchInv, Places
<1>7. CASE StopRunner
  BY <1>7 DEF StopRunner, LaunchInv
<1>8. CASE JoinAll
  BY <1>8 DEF JoinAll, Alive, LaunchInv, Places
<1>9. CASE UNCHANGED launchVars
  BY <1>9 DEF launchVars, LaunchInv
<1> QED
  BY <1>1, <1>2, <1>4, <1>5, <1>6, <1>7, <1>8, <1>9 DEF LauncherNext

LEMMA LaunchGivesUpAlone == LaunchInv => GivesUpAlone
  BY DEF LaunchInv, GivesUpAlone, Alive, Places

-----------------------------------------------------------------------------
(* The live bar of a derived timeframe.                                    *)

\* A bucket's sum is split between the base bar in hand and those carried over.
\* One loop reads base bars in order, so whatever is on its way is no older than
\* the base bar in hand, and no later one has been counted.
BucketInv(p) ==
  /\ formingBase \in BaseBars /\ volume \in [BaseBars -> Nat]
  /\ folded \in [BaseBars -> Nat]
  /\ update[p].step # "none" => /\ update[p].base \in BaseBars /\ update[p].volume \in Nat
                                /\ update[p].base <= formingBase
                                /\ state # NoState => state.base <= update[p].base
  /\ DOMAIN update = {p}
  /\ state # NoState =>
       /\ state.base \in BaseBars /\ state.base <= formingBase
       /\ state.carried \in Int
       /\ folded[state.base] = state.inBase
       /\ \A b \in BaseBars : b > state.base => folded[b] = 0
       /\ state.carried + state.inBase = ValueSum(folded, BaseBars)

LEMMA BaseBarsFinite == IsFiniteSet(BaseBars)
  BY FS_Interval, DerivedAssumption DEF BaseBars

LEMMA BaseBarsNat == (\A b \in BaseBars : b \in Nat) /\ NoBase \notin Nat
  BY DerivedAssumption DEF BaseBars, NoBase

LEMMA LabelNat ==
  ASSUME NEW b \in Nat
  PROVE  BucketLabel(b) \in Nat
<1>1. BucketSize \in Nat /\ BucketSize > 0
  BY DerivedAssumption
<1>2. b \div BucketSize \in Nat
  BY <1>1
<1>3. \A m, n \in Nat : m * n \in Nat
  OBVIOUS
<1> QED
  BY <1>1, <1>2, <1>3 DEF BucketLabel

\* A fold of a base bar that was not counted yet, or of the one in hand.
LEMMA FoldAdds ==
  ASSUME NEW f, NEW g, NEW st, NEW b \in BaseBars, NEW v \in Nat,
         \A y \in BaseBars : f[y] \in Int /\ g[y] \in Int,
         \A y \in BaseBars : y # b => g[y] = f[y],
         g[b] = v, f[b] = IF st.base = b THEN st.inBase ELSE 0,
         st.carried \in Int, st.inBase \in Int,
         st.carried + st.inBase = ValueSum(f, BaseBars),
         NEW new, new = Fold(st, b, v)
  PROVE  /\ new.base = b /\ new.inBase = v /\ new.carried \in Int
         /\ new.carried + new.inBase = ValueSum(g, BaseBars)
<1>1. /\ new.base = b /\ new.inBase = v
      /\ new.carried = IF st.base # b THEN st.carried + st.inBase ELSE st.carried
  BY DEF Fold
<1>2. ValueSum(g, BaseBars) = ValueSum(f, BaseBars) - f[b] + g[b]
  BY BaseBarsFinite, ValueSumChange
<1> QED
  BY <1>1, <1>2

LEMMA BucketInit ==
  ASSUME NEW p, Paths = {p}, DerivedInit
  PROVE  BucketInv(p)
<1>1. /\ volume = [b \in BaseBars |-> 0] /\ formingBase = 0 /\ state = NoState
      /\ folded = [b \in BaseBars |-> 0] /\ update = [q \in {p} |-> NoUpdate]
  BY DEF DerivedInit
<1>2. 0 \in BaseBars
  BY DerivedAssumption DEF BaseBars
<1> QED
  BY <1>1, <1>2 DEF BucketInv, NoUpdate

LEMMA BucketPublish ==
  ASSUME NEW p, Paths = {p}, BucketInv(p), PublishBar(p)
  PROVE  BucketInv(p)'
<1> DEFINE u == update[p]
<1>1. /\ u.step = "read" /\ u.base \in BaseBars /\ u.volume \in Nat /\ u.base <= formingBase
      /\ state # NoState => state.base <= u.base
      /\ UNCHANGED <<volume, formingBase>> /\ DOMAIN update = {p} /\ u.base \in Nat
  BY BaseBarsNat DEF PublishBar, BucketInv
<1>2. CASE state.label # BucketLabel(u.base)
  <2>1. update' = [update EXCEPT ![p].step = "seed"] /\ UNCHANGED <<state, folded>>
    BY <1>2 DEF PublishBar
  <2>2. update'[p].base = u.base /\ update'[p].volume = u.volume /\ DOMAIN update' = {p}
    BY <1>1, <2>1
  <2> QED
    BY <1>1, <2>1, <2>2 DEF BucketInv
<1>3. CASE state.label = BucketLabel(u.base)
  <2>1. /\ state' = Fold(state, u.base, u.volume) /\ folded' = [folded EXCEPT ![u.base] = u.volume]
        /\ update' = [update EXCEPT ![p] = NoUpdate]
    BY <1>3 DEF PublishBar, Idled
  <2>2. state # NoState
    BY <1>1, <1>3, LabelNat, BaseBarsNat DEF NoState
  <2>3. /\ folded \in [BaseBars -> Nat] /\ state.base \in BaseBars /\ state.carried \in Int
        /\ state.base <= u.base /\ folded[state.base] = state.inBase
        /\ \A b \in BaseBars : b > state.base => folded[b] = 0
        /\ state.carried + state.inBase = ValueSum(folded, BaseBars)
        /\ state.base \in Nat
    BY <1>1, <2>2, BaseBarsNat DEF BucketInv
  <2>4. folded[u.base] = IF state.base = u.base THEN state.inBase ELSE 0
    BY <1>1, <2>3
  <2>5. state.inBase \in Int
    BY <2>3
  <2> HIDE DEF u
  <2>6. /\ state'.base = u.base /\ state'.inBase = u.volume /\ state'.carried \in Int
        /\ state'.carried + state'.inBase = ValueSum(folded', BaseBars)
    <3>1. PICK f, g, st, new, b, v :
            f = folded /\ g = folded' /\ st = state /\ new = state' /\ b = u.base /\ v = u.volume
      OBVIOUS
    <3>2. b \in BaseBars /\ v \in Nat /\ new = Fold(st, b, v) /\ st.carried \in Int /\ st.inBase \in Int
      BY <1>1, <2>1, <2>3, <2>5, <3>1
    <3>3. \A y \in BaseBars : f[y] \in Int /\ g[y] \in Int
      BY <1>1, <2>1, <2>3, <3>1
    <3>4. (\A y \in BaseBars : y # b => g[y] = f[y]) /\ g[b] = v
      BY <1>1, <2>1, <2>3, <3>1
    <3>5. st.carried + st.inBase = ValueSum(f, BaseBars) /\ f[b] = IF st.base = b THEN st.inBase ELSE 0
      BY <2>3, <2>4, <3>1
    <3>6. /\ new.base = b /\ new.inBase = v /\ new.carried \in Int
          /\ new.carried + new.inBase = ValueSum(g, BaseBars)
      BY <3>2, <3>3, <3>4, <3>5, FoldAdds
    <3> QED
      BY <3>1, <3>6
  <2>7. folded' \in [BaseBars -> Nat] /\ folded'[u.base] = u.volume
    BY <1>1, <2>1, <2>3
  <2>8. \A b \in BaseBars : b > u.base => folded'[b] = 0
    BY <1>1, <2>1, <2>3, BaseBarsNat
  <2>9. update'[p].step = "none" /\ DOMAIN update' = {p}
    BY <1>1, <2>1 DEF NoUpdate
  <2> QED
    BY <1>1, <2>6, <2>7, <2>8, <2>9 DEF BucketInv
<1> QED
  BY <1>2, <1>3

LEMMA BucketSeed ==
  ASSUME NEW p, Paths = {p}, BucketInv(p), SeedState(p)
  PROVE  BucketInv(p)'
<1> DEFINE u     == update[p]
           label == BucketLabel(u.base)
           before == {b \in BaseBars : label <= b /\ b < u.base}
           ReadOf(had, last) == [b \in BaseBars |->
                         IF b \notin had THEN 0
                         ELSE IF b = u.base - 1 THEN last ELSE volume[b]]
<1>1. /\ u.step = "seed" /\ u.base \in BaseBars /\ u.volume \in Nat /\ u.base <= formingBase
      /\ UNCHANGED <<volume, formingBase>> /\ update' = [update EXCEPT ![p] = NoUpdate]
      /\ DOMAIN update = {p} /\ volume \in [BaseBars -> Nat]
      /\ u.base \in Nat
  BY BaseBarsNat DEF SeedState, BucketInv, Idled
<1>2. PICK had \in {{}, before}, last \in 0 .. MaxVolume :
        LET read == ReadOf(had, last) IN
        /\ state' = Fold([label |-> label, base |-> NoBase, inBase |-> 0,
                          carried |-> MapThenSumSet(LAMBDA b : read[b], BaseBars)],
                         u.base, u.volume)
        /\ folded' = [read EXCEPT ![u.base] = u.volume]
  BY DEF SeedState
<1> DEFINE read == ReadOf(had, last)
           st   == [label |-> label, base |-> NoBase, inBase |-> 0, carried |-> ValueSum(read, BaseBars)]
<1>3. state' = Fold(st, u.base, u.volume) /\ folded' = [read EXCEPT ![u.base] = u.volume]
  BY <1>2 DEF ValueSum
<1>4. read \in [BaseBars -> Nat]
  BY <1>1, DerivedAssumption
<1>5. \A b \in BaseBars : b >= u.base => read[b] = 0
  BY <1>1, BaseBarsNat
<1> HIDE DEF read
<1>6. ValueSum(read, BaseBars) \in Int
  BY <1>4, BaseBarsFinite, ValueSumInt
<1>7. /\ st.carried \in Int /\ st.inBase = 0 /\ st.base = NoBase
      /\ st.carried + st.inBase = ValueSum(read, BaseBars)
  BY <1>6
<1>8. read[u.base] = IF st.base = u.base THEN st.inBase ELSE 0
  BY <1>1, <1>5, <1>7, BaseBarsNat
<1> HIDE DEF st, u
<1>9. /\ state'.base = u.base /\ state'.inBase = u.volume /\ state'.carried \in Int
      /\ state'.carried + state'.inBase = ValueSum(folded', BaseBars)
  <2>1. PICK f, g, old, new, b, v :
          f = read /\ g = folded' /\ old = st /\ new = state' /\ b = u.base /\ v = u.volume
    OBVIOUS
  <2>2. b \in BaseBars /\ v \in Nat /\ new = Fold(old, b, v) /\ old.carried \in Int /\ old.inBase \in Int
    BY <1>1, <1>3, <1>7, <2>1
  <2>3. \A y \in BaseBars : f[y] \in Int /\ g[y] \in Int
    BY <1>1, <1>3, <1>4, <2>1
  <2>4. (\A y \in BaseBars : y # b => g[y] = f[y]) /\ g[b] = v
    BY <1>1, <1>3, <1>4, <2>1
  <2>5. old.carried + old.inBase = ValueSum(f, BaseBars) /\ f[b] = IF old.base = b THEN old.inBase ELSE 0
    BY <1>7, <1>8, <2>1
  <2>6. /\ new.base = b /\ new.inBase = v /\ new.carried \in Int
        /\ new.carried + new.inBase = ValueSum(g, BaseBars)
    BY <2>2, <2>3, <2>4, <2>5, FoldAdds
  <2> QED
    BY <2>1, <2>6
<1>10. folded' \in [BaseBars -> Nat] /\ folded'[u.base] = u.volume
  BY <1>1, <1>3, <1>4
<1>11. \A b \in BaseBars : b > u.base => folded'[b] = 0
  BY <1>1, <1>3, <1>4, <1>5, BaseBarsNat
<1>12. update'[p].step = "none" /\ DOMAIN update' = {p}
  BY <1>1 DEF NoUpdate
<1> QED
  BY <1>1, <1>9, <1>10, <1>11, <1>12 DEF BucketInv

LEMMA BucketStep ==
  ASSUME NEW p, Paths = {p}, BucketInv(p), [DerivedNext]_derivedVars
  PROVE  BucketInv(p)'
<1>1. CASE BaseTrade
  <2>1. volume' \in [BaseBars -> Nat]
    BY <1>1 DEF BaseTrade, BucketInv
  <2> QED
    BY <1>1, <2>1 DEF BaseTrade, BucketInv
<1>2. CASE NextBase
  <2>1. formingBase' \in BaseBars /\ formingBase' > formingBase /\ BaseBars \subseteq Int
    BY <1>2, DerivedAssumption DEF NextBase, BucketInv, BaseBars
  <2>2. state # NoState => state.base \in Nat
    BY BaseBarsNat DEF BucketInv
  <2>3. update[p].step # "none" => update[p].base \in Nat
    BY BaseBarsNat DEF BucketInv
  <2>4. formingBase \in Nat /\ formingBase' \in Nat
    BY <2>1, BaseBarsNat DEF BucketInv
  <2> QED
    BY <1>2, <2>1, <2>2, <2>3, <2>4 DEF NextBase, BucketInv
<1>3. CASE ReadBase(p)
  <2>1. formingBase \in Nat
    BY BaseBarsNat DEF BucketInv
  <2> QED
    BY <1>3, <2>1 DEF ReadBase, BucketInv
<1>4. CASE DropUpdate(p) \/ RestartStream(p)
  BY <1>4 DEF DropUpdate, RestartStream, Idled, NoUpdate, BucketInv
<1>5. CASE PublishBar(p)
  BY <1>5, BucketPublish
<1>6. CASE SeedState(p)
  BY <1>6, BucketSeed
<1>7. CASE UNCHANGED derivedVars
  BY <1>7 DEF derivedVars, BucketInv
<1> QED
  BY <1>1, <1>2, <1>3, <1>4, <1>5, <1>6, <1>7 DEF DerivedNext

LEMMA BucketAggregates ==
  ASSUME NEW p, BucketInv(p)
  PROVE  DerivedIsAggregate
  BY DEF BucketInv, DerivedIsAggregate, ValueSum

-----------------------------------------------------------------------------
(* The rules of the signal engine.                                         *)

\* Everything given has left a mark in the cooldowns, and none was given later
\* than its mark says.
SignalInv ==
  /\ configs \in Seq(RuleConfigs)
  /\ \A k \in DOMAIN cooldowns : cooldowns[k] \in Nat
  /\ \A s \in given :
       /\ s.at \in Nat /\ s.expires = s.at + CooldownTicks
       /\ <<s.rule, s.dir>> \in DOMAIN cooldowns
       /\ s.at <= cooldowns[<<s.rule, s.dir>>]
  /\ OneGoodSignal

\* The least of a set of numbers is one of them.
LEMMA LeastIn ==
  ASSUME NEW S, S \subseteq Nat, S # {}
  PROVE  Min(S) \in S
<1>1. PICK x \in S : \A y \in S : ~ (<<y, x>> \in OpToRel(<, Nat))
  BY NatLessThanWellFounded, WFMin
<1>2. \A y \in S : y < x => <<y, x>> \in OpToRel(<, Nat)
  BY DEF OpToRel
<1>3. \A y \in S : x \in Nat /\ y \in Nat /\ ~ (y < x)
  BY <1>1, <1>2
<1>4. \A y \in S : x <= y
  BY <1>3
<1> QED
  BY <1>4 DEF Min

LEMMA SignalStart == SignalInit => SignalInv
<1> SUFFICES ASSUME SignalInit PROVE SignalInv
  OBVIOUS
<1>1. DOMAIN cooldowns = {} /\ given = {} /\ configs = <<>>
  BY DEF SignalInit
<1> QED
  BY <1>1 DEF SignalInv, OneGoodSignal

\* A signal given outside the cooldown is given after the others are over.
LEMMA GivenApart ==
  ASSUME SignalInv, NEW s, NEW key, NEW at \in Nat,
         key = <<s.rule, s.dir>>, s.at = at, s.expires = at + CooldownTicks,
         ~Cooling(key, at), given' = given \cup {s},
         DOMAIN cooldowns' = DOMAIN cooldowns \cup {key}, cooldowns'[key] = at, configs' = configs,
         \A k \in DOMAIN cooldowns : k # key => cooldowns'[k] = cooldowns[k]
  PROVE  SignalInv'
<1>1. CooldownTicks \in Nat
  BY SignalAssumption
<1>2. key \in DOMAIN cooldowns => cooldowns[key] \in Nat /\ at - cooldowns[key] >= CooldownTicks
  BY <1>1 DEF Cooling, SignalInv
<1>3. \A k \in DOMAIN cooldowns' : cooldowns'[k] \in Nat
  BY DEF SignalInv
<1>4. ASSUME NEW u \in given
      PROVE  /\ u.at \in Nat /\ u.expires = u.at + CooldownTicks
             /\ <<u.rule, u.dir>> \in DOMAIN cooldowns'
             /\ u.at <= cooldowns'[<<u.rule, u.dir>>]
             /\ u.rule = s.rule /\ u.dir = s.dir => u.expires <= s.at
  <2>1. /\ u.at \in Nat /\ u.expires = u.at + CooldownTicks
        /\ <<u.rule, u.dir>> \in DOMAIN cooldowns
        /\ u.at <= cooldowns[<<u.rule, u.dir>>]
    BY DEF SignalInv
  <2>2. CASE <<u.rule, u.dir>> = key
    <3>1. key \in DOMAIN cooldowns /\ u.at <= cooldowns[key]
      BY <2>1, <2>2
    <3>2. u.at + CooldownTicks <= at
      BY <1>1, <1>2, <2>1, <3>1
    <3> QED
      BY <1>1, <2>1, <2>2, <3>2
  <2>3. CASE <<u.rule, u.dir>> # key
    BY <2>1, <2>3
  <2> QED
    BY <2>2, <2>3
<1>5. OneGoodSignal'
  BY <1>4 DEF OneGoodSignal, SignalInv
<1>6. configs' \in Seq(RuleConfigs)
  BY DEF SignalInv
<1>7. \A u \in given' : u \in given \/ u = s
  OBVIOUS
<1>8. ASSUME NEW u \in given'
      PROVE  /\ u.at \in Nat /\ u.expires = u.at + CooldownTicks
             /\ <<u.rule, u.dir>> \in DOMAIN cooldowns'
             /\ u.at <= cooldowns'[<<u.rule, u.dir>>]
  BY <1>4, <1>7
<1> QED
  BY <1>3, <1>5, <1>6, <1>8 DEF SignalInv

LEMMA SignalStep == SignalInv /\ [SignalNext]_signalVars => SignalInv'
<1> SUFFICES ASSUME SignalInv, [SignalNext]_signalVars PROVE SignalInv'
  OBVIOUS
<1>1. ASSUME NEW c \in RuleConfigs, AddSignalRule(c) PROVE SignalInv'
  BY <1>1 DEF AddSignalRule, SignalInv, OneGoodSignal
<1>2. ASSUME NEW feed \in Feeds, NEW value \in Values, NEW at \in 0 .. LastStamp,
             OnIndicator(feed, value, at)
      PROVE  SignalInv'
  <2> DEFINE before == valueNow[feed]
             result(c) == Evaluated(RuleTrees[c.rule], value, before)
             key(c) == <<c.rule, result(c).dir>>
             fire == {i \in {i \in DOMAIN configs : configs[i].feed = feed} :
                        result(configs[i]) # Untriggered /\ ~Cooling(key(configs[i]), at)}
             c == configs[Min(fire)]
             s == [rule |-> c.rule, dir |-> result(c).dir, at |-> at, expires |-> at + CooldownTicks,
                   status |-> IF c.route = "SEMI" THEN "PENDING" ELSE "CONFIRMED"]
  <2>1. CASE fire = {}
    <3>1. UNCHANGED <<cooldowns, given, configs>>
      BY <1>2, <2>1 DEF OnIndicator
    <3> QED
      BY <3>1 DEF SignalInv, OneGoodSignal
  <2>2. CASE fire # {}
    <3>0. configs' = configs
      BY <1>2 DEF OnIndicator
    <3>1. cooldowns' = [k \in DOMAIN cooldowns \cup {key(c)} |-> IF k = key(c) THEN at ELSE cooldowns[k]]
          /\ given' = given \cup {s}
      BY <1>2, <2>2 DEF OnIndicator
    <3>2. ~Cooling(key(c), at)
      <4>1. fire \subseteq Nat
        BY DEF SignalInv
      <4> HIDE DEF fire
      <4>2. Min(fire) \in fire
        BY <2>2, <4>1, LeastIn
      <4> QED
        BY <4>2 DEF fire
    <3>3. s.rule = c.rule /\ s.dir = result(c).dir /\ s.at = at /\ s.expires = at + CooldownTicks
      OBVIOUS
    <3>4. at \in Nat
      OBVIOUS
    <3> HIDE DEF s, c, fire, result, before
    <3>5. DOMAIN cooldowns' = DOMAIN cooldowns \cup {key(c)} /\ cooldowns'[key(c)] = at
          /\ \A k \in DOMAIN cooldowns : k # key(c) => cooldowns'[k] = cooldowns[k]
      <4> HIDE DEF key
      <4> QED
        BY <3>1
    <3> HIDE DEF key
    <3>6. key(c) = <<s.rule, s.dir>>
      BY <3>3 DEF key
    <3> QED
      BY <3>0, <3>1, <3>2, <3>3, <3>4, <3>5, <3>6, GivenApart
  <2> QED
    BY <2>1, <2>2
<1>3. CASE UNCHANGED signalVars
  BY <1>3 DEF signalVars, SignalInv, OneGoodSignal
<1> QED
  BY <1>1, <1>2, <1>3 DEF SignalNext

-----------------------------------------------------------------------------
(* The channels of the alert manager.                                      *)

AlertRecords == [rule : AlertRules \cup {"none"}, escalated : BOOLEAN, notified : BOOLEAN, at : Nat]
Sends        == [alert : Nat, to : SUBSET Channels, at : Channels \cup {"none"}]
Times        == [alert : Nat, at : Nat]

\* The coroutines that wait for the channel's answer.
Busy(c) == {f \in Firing : sending[f].at = c}

Most == RateLimit - 1 + Cardinality(Firing)

AlertTyped ==
  /\ tick \in Nat /\ channelOn \subseteq Channels
  /\ alerts \in Seq(AlertRecords)
  /\ sending \in [Firing -> Sends]
  /\ \A f \in Firing : sending[f].alert <= Len(alerts) /\ (sending[f].at # "none" \/ sending[f].to # {} => sending[f].alert # 0)
  /\ sendTimes \in [Channels -> SUBSET Times]
  /\ \A c \in Channels : IsFiniteSet(sendTimes[c]) /\ \A s \in sendTimes[c] : s.at <= tick

\* Whoever waits for an answer was let through at a moment when there was room,
\* so what was sent lately and what is on its way stay within the limit and one
\* for each other coroutine.
Paced == \A c \in Channels : Cardinality(Recent(c)) + Cardinality(Busy(c)) <= Most

AlertInv == AlertTyped /\ Paced /\ PaceBounded

LEMMA MostInt == IsFiniteSet(Firing) /\ Cardinality(Firing) \in Nat /\ RateLimit \in Nat /\ RateLimit > 0
                 /\ Most \in Nat /\ Minute \in Nat /\ Minute > 0
<1>1. IsFiniteSet(Firing) /\ RateLimit \in Nat \ {0} /\ Minute \in Nat \ {0}
  BY AlertAssumption
<1>2. Cardinality(Firing) \in Nat
  BY <1>1, FS_CardinalityType
<1> QED
  BY <1>1, <1>2 DEF Most

Counted ==
  \A c \in Channels :
    /\ IsFiniteSet(Recent(c)) /\ Cardinality(Recent(c)) \in Nat
    /\ IsFiniteSet(Busy(c)) /\ Cardinality(Busy(c)) \in Nat
    /\ Cardinality(Busy(c)) <= Cardinality(Firing)

LEMMA CountsNat == AlertTyped => Counted
<1> SUFFICES ASSUME AlertTyped, NEW c \in Channels
             PROVE  /\ IsFiniteSet(Recent(c)) /\ Cardinality(Recent(c)) \in Nat
                    /\ IsFiniteSet(Busy(c)) /\ Cardinality(Busy(c)) \in Nat
                    /\ Cardinality(Busy(c)) <= Cardinality(Firing)
  BY DEF Counted
<1>1. Recent(c) \subseteq sendTimes[c] /\ IsFiniteSet(sendTimes[c])
  BY DEF AlertTyped, Recent
<1>2. Busy(c) \subseteq Firing /\ IsFiniteSet(Firing)
  BY MostInt DEF Busy
<1> QED
  BY <1>1, <1>2, NoLarger

LEMMA CountsNatNext == AlertTyped' => Counted'
BY CountsNat, PTL

\* A window that ends now or later has only what is recent; an earlier one only
\* what it had.
LEMMA WindowsKept ==
  ASSUME AlertInv, AlertTyped', Paced', tick' = tick \/ tick' = tick + 1,
         \A c \in Channels : \A s \in sendTimes'[c] : s \in sendTimes[c] \/ s.at = tick'
  PROVE  PaceBounded'
<1> SUFFICES ASSUME NEW c \in Channels, NEW t \in 0 .. tick'
             PROVE  Cardinality({s \in sendTimes'[c] : s.at \in t .. t + Minute - 1})
                      <= RateLimit + Cardinality(Firing) - 1
  BY DEF PaceBounded
<1> DEFINE W == {s \in sendTimes[c] : s.at \in t .. t + Minute - 1}
           V == {s \in sendTimes'[c] : s.at \in t .. t + Minute - 1}
<1>1. /\ tick \in Nat /\ tick' \in Nat /\ t \in Nat /\ t <= tick'
      /\ IsFiniteSet(sendTimes[c]) /\ IsFiniteSet(sendTimes'[c])
      /\ \A s \in sendTimes'[c] : s.at \in Nat /\ s.at <= tick'
  <2>1. sendTimes'[c] \in SUBSET Times /\ sendTimes'[c] \subseteq Times
    BY DEF AlertTyped
  <2>2. \A s \in sendTimes'[c] : s.at \in Nat
    BY <2>1 DEF Times
  <2> QED
    BY <2>2 DEF AlertInv, AlertTyped
<1>2. Most = RateLimit + Cardinality(Firing) - 1 /\ Most \in Nat
  BY MostInt DEF Most
<1>3. CASE t + Minute - 1 >= tick'
  <2>1. V \subseteq Recent(c)'
    BY <1>1, <1>3, MostInt DEF Recent
  <2>2. IsFiniteSet(Recent(c)') /\ Cardinality(Recent(c)') \in Nat /\ Cardinality(Busy(c)') \in Nat
    BY CountsNatNext DEF Counted
  <2>3. Cardinality(Recent(c)') + Cardinality(Busy(c)') <= Most
    BY DEF Paced
  <2> HIDE DEF V
  <2>4. Cardinality(V) \in Nat /\ Cardinality(V) <= Cardinality(Recent(c)')
    BY <2>1, <2>2, NoLarger
  <2> QED
    BY <1>2, <2>2, <2>3, <2>4 DEF V
<1>4. CASE t + Minute - 1 < tick'
  <2>1. t \in 0 .. tick
    BY <1>1, <1>4, MostInt
  <2>2. V \subseteq W
    BY <1>1, <1>4, MostInt
  <2>3. IsFiniteSet(W)
    BY <1>1, FS_Subset
  <2>4. Cardinality(W) <= Most
    BY <1>2, <2>1 DEF AlertInv, PaceBounded
  <2> HIDE DEF V, W
  <2>5. Cardinality(V) <= Cardinality(W) /\ Cardinality(V) \in Nat /\ Cardinality(W) \in Nat
    BY <2>2, <2>3, NoLarger
  <2> QED
    BY <1>2, <2>4, <2>5 DEF V
<1> QED
  BY <1>1, <1>3, <1>4, MostInt

LEMMA AlertStart == AlertInit => AlertInv
<1> SUFFICES ASSUME AlertInit PROVE AlertInv
  OBVIOUS
<1>1. AlertTyped
  <2>1. alerts \in Seq(AlertRecords) /\ Len(alerts) = 0 /\ tick \in Nat /\ channelOn \subseteq Channels
    BY DEF AlertInit
  <2>2. NotSending \in Sends /\ NotSending.at = "none" /\ NotSending.to = {}
    BY DEF NotSending, Sends
  <2>3. sending \in [Firing -> Sends]
    BY <2>2 DEF AlertInit
  <2>5. NotSending.alert = 0
    BY DEF NotSending
  <2>4. sendTimes \in [Channels -> SUBSET Times] /\ \A c \in Channels : sendTimes[c] = {}
    BY DEF AlertInit
  <2> QED
    BY <2>1, <2>2, <2>3, <2>4, <2>5, FS_EmptySet DEF AlertTyped, AlertInit
<1>2. ASSUME NEW c \in Channels PROVE Recent(c) = {} /\ Busy(c) = {} /\ sendTimes[c] = {}
  <2>1. \A f \in Firing : sending[f].at = "none"
    BY DEF AlertInit, NotSending
  <2> QED
    BY <2>1, AlertAssumption DEF AlertInit, Recent, Busy
<1>3. Cardinality({}) = 0
  BY FS_EmptySet
<1>4. Paced
  BY <1>2, <1>3, MostInt DEF Paced
<1>5. PaceBounded
  <2> SUFFICES ASSUME NEW c \in Channels, NEW t \in 0 .. tick
               PROVE  Cardinality({s \in sendTimes[c] : s.at \in t .. t + Minute - 1})
                        <= RateLimit + Cardinality(Firing) - 1
    BY DEF PaceBounded
  <2>1. {s \in sendTimes[c] : s.at \in t .. t + Minute - 1} = {}
    BY <1>2
  <2>2. Cardinality({s \in sendTimes[c] : s.at \in t .. t + Minute - 1}) = 0
    BY <2>1, <1>3
  <2> QED
    BY <2>2, MostInt
<1> QED
  BY <1>1, <1>4, <1>5 DEF AlertInv

\* What was sent lately and what is on its way only get fewer.
LEMMA FewerKept ==
  ASSUME AlertInv, AlertTyped', NEW c \in Channels, Recent(c)' \subseteq Recent(c), Busy(c)' \subseteq Busy(c)
  PROVE  Cardinality(Recent(c)') + Cardinality(Busy(c)') <= Most
<1>1. /\ IsFiniteSet(Recent(c)) /\ Cardinality(Recent(c)) \in Nat
      /\ IsFiniteSet(Busy(c)) /\ Cardinality(Busy(c)) \in Nat
      /\ Cardinality(Recent(c)) + Cardinality(Busy(c)) <= Most
  BY CountsNat DEF AlertInv, Paced, Counted
<1>2. Cardinality(Recent(c)') \in Nat /\ Cardinality(Busy(c)') \in Nat
  BY CountsNatNext DEF Counted
<1>3. Cardinality(Recent(c)') <= Cardinality(Recent(c))
  BY <1>1, NoLarger
<1>4. Cardinality(Busy(c)') <= Cardinality(Busy(c))
  BY <1>1, NoLarger
<1> QED
  BY <1>1, <1>2, <1>3, <1>4, MostInt

LEMMA AlertTypedStep == AlertInv /\ [AlertNext]_alertVars => AlertTyped'
<1> SUFFICES ASSUME AlertInv, [AlertNext]_alertVars PROVE AlertTyped'
  OBVIOUS
<1> USE DEF AlertInv, AlertTyped
<1>n. NotSending \in Sends /\ NotSending.at = "none" /\ NotSending.to = {}
  BY DEF NotSending, Sends
<1>r. ASSUME NEW f \in Firing, NEW r, r \in AlertRules \cup {"none"}, NEW e \in BOOLEAN,
             RecordAlert(f, r, e), tick' = tick, channelOn' = channelOn, sendTimes' = sendTimes
      PROVE  AlertTyped'
  <2>1. [rule |-> r, escalated |-> e, notified |-> FALSE, at |-> tick] \in AlertRecords
    BY <1>r DEF AlertRecords
  <2>2. alerts' \in Seq(AlertRecords) /\ Len(alerts') = Len(alerts) + 1 /\ Len(alerts) \in Nat
    BY <1>r, <2>1 DEF RecordAlert
  <2>3. [alert |-> Len(alerts'), to |-> channelOn, at |-> "none"] \in Sends
    BY <2>2 DEF Sends
  <2>4. /\ sending' \in [Firing -> Sends] /\ \A g \in Firing : g # f => sending'[g] = sending[g]
        /\ sending'[f] = [alert |-> Len(alerts'), to |-> channelOn, at |-> "none"]
    BY <1>r, <2>3 DEF RecordAlert
  <2>5. \A g \in Firing : sending[g].alert \in Nat
    BY DEF Sends
  <2>6. \A g \in Firing : sending'[g].alert <= Len(alerts') /\ (sending'[g].at # "none" \/ sending'[g].to # {} => sending'[g].alert # 0)
    BY <2>2, <2>4, <2>5
  <2> QED
    BY <1>r, <2>2, <2>4, <2>6
<1>1. ASSUME NEW f \in Firing, NEW r \in AlertRules, Fire(f, r) PROVE AlertTyped'
  BY <1>1, <1>r DEF Fire, Escalates
<1>2. ASSUME NEW f \in Firing, FireUnruled(f) PROVE AlertTyped'
  BY <1>2, <1>r DEF FireUnruled
<1>3. ASSUME NEW f \in Firing, NEW c \in Channels, BeginSend(f, c) PROVE AlertTyped'
  <2>1. Recent(c) \subseteq sendTimes[c]
    BY DEF Recent
  <2>2. sendTimes' \in [Channels -> SUBSET Times] /\ \A d \in Channels : sendTimes'[d] \subseteq sendTimes[d]
    BY <1>3, <2>1 DEF BeginSend
  <2>3. \A d \in Channels : IsFiniteSet(sendTimes'[d]) /\ \A s \in sendTimes'[d] : s.at <= tick
    BY <2>2, FS_Subset
  <2>4. /\ [sending[f] EXCEPT !.at = c] \in Sends /\ [sending[f] EXCEPT !.to = @ \ {c}] \in Sends
        /\ sending[f].to \subseteq Channels
    BY DEF Sends
  <2>5. /\ sending' \in [Firing -> Sends] /\ \A g \in Firing : sending'[g].alert = sending[g].alert
        /\ \A g \in Firing : g # f => sending'[g] = sending[g]
    BY <1>3, <2>4 DEF BeginSend, Sends
  <2>6. sending[f].to # {} /\ sending[f].alert # 0
    BY <1>3, <2>4 DEF BeginSend
  <2> QED
    BY <1>3, <2>2, <2>3, <2>5, <2>6 DEF BeginSend
<1>4. ASSUME NEW f \in Firing, NEW works \in BOOLEAN, EndSend(f, works) PROVE AlertTyped'
  <2>1. PICK c : c = sending[f].at
    OBVIOUS
  <2>2. PICK k : k = sending[f].alert
    OBVIOUS
  <2>3. c \in Channels /\ k \in Nat \ {0} /\ k <= Len(alerts) /\ Len(alerts) \in Nat
    BY <1>4, <2>1, <2>2 DEF EndSend, Sends
  <2>4. /\ sendTimes' \in [Channels -> SUBSET Times]
        /\ \A d \in Channels : sendTimes'[d] = sendTimes[d]
             \/ sendTimes'[d] = sendTimes[d] \cup {[alert |-> k, at |-> tick]}
    <3>1. [alert |-> k, at |-> tick] \in Times
      BY <2>3 DEF Times
    <3> QED
      BY <1>4, <2>1, <2>2, <2>3, <3>1 DEF EndSend
  <2>5. \A d \in Channels : IsFiniteSet(sendTimes'[d]) /\ \A s \in sendTimes'[d] : s.at <= tick
    <3>1. \A d \in Channels : IsFiniteSet(sendTimes[d]) /\ \A s \in sendTimes[d] : s.at <= tick
      OBVIOUS
    <3>2. \A d \in Channels : IsFiniteSet(sendTimes[d] \cup {[alert |-> k, at |-> tick]})
      BY <3>1, FS_AddElement
    <3>3. \A s \in {[alert |-> k, at |-> tick]} : s.at <= tick
      OBVIOUS
    <3> QED
      BY <2>4, <3>1, <3>2, <3>3
  <2>6. alerts' \in Seq(AlertRecords) /\ Len(alerts') = Len(alerts)
    <3>1. [alerts[k] EXCEPT !.notified = TRUE] \in AlertRecords
      <4>1. alerts[k] \in AlertRecords
        BY <2>3
      <4> QED
        BY <4>1 DEF AlertRecords
    <3> QED
      BY <1>4, <2>2, <2>3, <3>1 DEF EndSend
  <2>7. /\ sending' \in [Firing -> Sends]
        /\ \A g \in Firing : sending'[g].alert = sending[g].alert
        /\ \A g \in Firing : sending'[g].at # "none" \/ sending'[g].to # {} =>
             sending[g].at # "none" \/ sending[g].to # {}
    <3>1. [sending[f] EXCEPT !.to = @ \ {c}, !.at = "none"] \in Sends
      BY DEF Sends
    <3>2. sending' = [sending EXCEPT ![f] = [sending[f] EXCEPT !.to = @ \ {c}, !.at = "none"]]
      BY <1>4, <2>1 DEF EndSend
    <3> QED
      BY <3>1, <3>2 DEF Sends
  <2> QED
    BY <1>4, <2>4, <2>5, <2>6, <2>7 DEF EndSend
<1>5. ASSUME NEW f \in Firing, Done(f) PROVE AlertTyped'
  <2>1. sending' \in [Firing -> Sends] /\ \A g \in Firing : sending'[g] = sending[g] \/ sending'[g] = NotSending
    BY <1>5, <1>n DEF Done
  <2>2. Len(alerts) \in Nat /\ NotSending.alert = 0
    BY DEF NotSending
  <2> QED
    BY <1>5, <1>n, <2>1, <2>2 DEF Done
<1>6. ASSUME NEW c \in Channels, RemoveChannel(c) PROVE AlertTyped'
  BY <1>6 DEF RemoveChannel
<1>7. CASE \E r \in AlertRules : SwitchRule(r)
  BY <1>7 DEF SwitchRule
<1>8. CASE Tock
  <2>1. tick' \in Nat /\ tick <= tick'
    BY <1>8 DEF Tock
  <2>2. \A c \in Channels : \A s \in sendTimes[c] : s.at \in Nat
    BY DEF Times
  <2> QED
    BY <1>8, <2>1, <2>2 DEF Tock
<1>9. CASE UNCHANGED alertVars
  BY <1>9 DEF alertVars
<1> QED
  BY <1>1, <1>2, <1>3, <1>4, <1>5, <1>6, <1>7, <1>8, <1>9 DEF AlertNext

LEMMA PacedStep == AlertInv /\ [AlertNext]_alertVars => Paced'
<1> SUFFICES ASSUME AlertInv, [AlertNext]_alertVars, NEW c \in Channels
             PROVE  Cardinality(Recent(c)') + Cardinality(Busy(c)') <= Most
  BY DEF Paced
<1>t. AlertTyped' /\ AlertTyped
  BY AlertTypedStep DEF AlertInv
<1>u. /\ sending \in [Firing -> Sends] /\ sendTimes \in [Channels -> SUBSET Times] /\ tick \in Nat
      /\ "none" \notin Channels /\ c # "none"
  BY <1>t, AlertAssumption DEF AlertTyped
<1>1. ASSUME NEW f \in Firing, sending' = [sending EXCEPT ![f] = sending'[f]], sending'[f].at = "none",
             sendTimes' = sendTimes, tick' = tick
      PROVE  Cardinality(Recent(c)') + Cardinality(Busy(c)') <= Most
  <2>1. Recent(c)' = Recent(c)
    BY <1>1 DEF Recent
  <2>2. Busy(c)' \subseteq Busy(c)
    BY <1>1, <1>u DEF Busy
  <2> QED
    BY <1>t, <2>1, <2>2, FewerKept
<1>2. ASSUME NEW f \in Firing, NEW r, NEW e, RecordAlert(f, r, e), sendTimes' = sendTimes, tick' = tick
      PROVE  Cardinality(Recent(c)') + Cardinality(Busy(c)') <= Most
  <2>1. sending' = [sending EXCEPT ![f] = sending'[f]] /\ sending'[f].at = "none"
    BY <1>2, <1>u DEF RecordAlert
  <2> QED
    BY <1>1, <1>2, <2>1
<1>3. ASSUME NEW f \in Firing, NEW d \in Channels, BeginSend(f, d)
      PROVE  Cardinality(Recent(c)') + Cardinality(Busy(c)') <= Most
  <2>1. Recent(d) = {s \in sendTimes[d] : tick - s.at < Minute}
    BY DEF Recent
  <2>2. sendTimes' = [sendTimes EXCEPT ![d] = Recent(d)] /\ tick' = tick
    BY <1>3 DEF BeginSend
  <2>3. Recent(c)' = Recent(c)
    <3>1. sendTimes'[c] = IF c = d THEN Recent(d) ELSE sendTimes[c]
      BY <2>2, <1>u
    <3>2. CASE c = d
      BY <3>1, <3>2, <2>1, <2>2 DEF Recent
    <3>3. CASE c # d
      BY <3>1, <3>3, <2>2 DEF Recent
    <3> QED
      BY <3>2, <3>3
  <2>4. CASE WithinRate(d) /\ c = d
    <3>1. Cardinality(Recent(c)) \in Nat /\ Cardinality(Recent(c)) < RateLimit
      BY <1>t, <2>4, CountsNat DEF WithinRate, Counted
    <3>2. Cardinality(Busy(c)') \in Nat /\ Cardinality(Busy(c)') <= Cardinality(Firing)
      BY <1>t, CountsNatNext DEF Counted
    <3> QED
      BY <2>3, <3>1, <3>2, MostInt DEF Most
  <2>5. CASE ~(WithinRate(d) /\ c = d)
    <3>1. Busy(c)' \subseteq Busy(c)
      BY <1>3, <1>u, <2>5 DEF BeginSend, Busy
    <3> QED
      BY <1>t, <2>3, <3>1, FewerKept
  <2> QED
    BY <2>4, <2>5
<1>4. ASSUME NEW f \in Firing, NEW works \in BOOLEAN, EndSend(f, works)
      PROVE  Cardinality(Recent(c)') + Cardinality(Busy(c)') <= Most
  <2>1. PICK d : d = sending[f].at
    OBVIOUS
  <2>2. PICK e : e = [alert |-> sending[f].alert, at |-> tick]
    OBVIOUS
  <2>3. /\ d \in Channels /\ tick' = tick
        /\ sendTimes' = sendTimes \/ sendTimes' = [sendTimes EXCEPT ![d] = @ \cup {e}]
        /\ sending' = [sending EXCEPT ![f].to = @ \ {d}, ![f].at = "none"]
    BY <1>4, <1>u, <2>1, <2>2 DEF EndSend, Sends
  <2>4. Busy(c)' = Busy(c) \ {f}
    <3>1. sending'[f].at = "none" /\ \A g \in Firing : g # f => sending'[g] = sending[g]
      BY <2>3, <1>u DEF Sends
    <3> QED
      BY <3>1, <1>u DEF Busy
  <2>5. CASE c # d
    <3>1. Recent(c)' = Recent(c)
      BY <2>3, <2>5, <1>u DEF Recent
    <3> QED
      BY <1>t, <2>4, <3>1, FewerKept
  <2>6. CASE c = d
    <3>1. Recent(c)' \subseteq Recent(c) \cup {e}
      BY <2>3, <2>6, <1>u DEF Recent
    <3>2. f \in Busy(c)
      BY <2>1, <2>6 DEF Busy
    <3>3. /\ IsFiniteSet(Recent(c)) /\ Cardinality(Recent(c)) \in Nat
          /\ IsFiniteSet(Busy(c)) /\ Cardinality(Busy(c)) \in Nat
      BY <1>t, CountsNat DEF Counted
    <3>4. Cardinality(Busy(c)') = Cardinality(Busy(c)) - 1
      BY <2>4, <3>2, <3>3, FS_RemoveElement
    <3>5. IsFiniteSet(Recent(c) \cup {e}) /\ Cardinality(Recent(c) \cup {e}) <= Cardinality(Recent(c)) + 1
          /\ Cardinality(Recent(c) \cup {e}) \in Nat
      <4> DEFINE R == Recent(c)
      <4>1. IsFiniteSet(R) /\ Cardinality(R) \in Nat
        BY <3>3
      <4> HIDE DEF R
      <4>2. IsFiniteSet(R \cup {e}) /\ Cardinality(R \cup {e}) = IF e \in R THEN Cardinality(R) ELSE Cardinality(R) + 1
        BY <4>1, FS_AddElement, Zenon
      <4>3. Cardinality(R \cup {e}) <= Cardinality(R) + 1 /\ Cardinality(R \cup {e}) \in Nat
        BY <4>1, <4>2
      <4> QED
        BY <4>2, <4>3 DEF R
    <3>6. Cardinality(Recent(c)') \in Nat /\ Cardinality(Recent(c)') <= Cardinality(Recent(c)) + 1
      BY <3>1, <3>3, <3>5, NoLarger
    <3>7. Cardinality(Recent(c)) + Cardinality(Busy(c)) <= Most
      BY DEF AlertInv, Paced
    <3> QED
      BY <3>3, <3>4, <3>6, <3>7, MostInt
  <2> QED
    BY <2>5, <2>6
<1>5. ASSUME NEW f \in Firing, Done(f) PROVE Cardinality(Recent(c)') + Cardinality(Busy(c)') <= Most
  <2>1. sending' = [sending EXCEPT ![f] = sending'[f]] /\ sending'[f].at = "none"
    BY <1>5, <1>u DEF Done, NotSending
  <2> QED
    BY <1>1, <1>5, <2>1 DEF Done
<1>6. ASSUME UNCHANGED <<sending, sendTimes>>, tick' = tick \/ tick' = tick + 1
      PROVE  Cardinality(Recent(c)') + Cardinality(Busy(c)') <= Most
  <2>1. Busy(c)' = Busy(c)
    BY <1>6 DEF Busy
  <2>2. sendTimes[c] \subseteq Times /\ \A s \in sendTimes[c] : s.at \in Nat
    BY <1>u DEF Times
  <2>3. Recent(c)' \subseteq Recent(c)
    BY <1>6, <1>u, <2>2, MostInt DEF Recent
  <2> QED
    BY <1>t, <2>1, <2>3, FewerKept
<1> QED
  BY <1>2, <1>3, <1>4, <1>5, <1>6
     DEF AlertNext, Fire, FireUnruled, SwitchRule, RemoveChannel, Tock, alertVars

LEMMA AlertStep == AlertInv /\ [AlertNext]_alertVars => AlertInv'
<1> SUFFICES ASSUME AlertInv, [AlertNext]_alertVars PROVE AlertInv'
  OBVIOUS
<1>1. AlertTyped' /\ Paced'
  BY AlertTypedStep, PacedStep
<1>2. tick' = tick \/ tick' = tick + 1
  BY DEF AlertNext, Fire, FireUnruled, BeginSend, EndSend, Done, SwitchRule, RemoveChannel, Tock, alertVars
<1>3. sendTimes \in [Channels -> SUBSET Times]
  BY DEF AlertInv, AlertTyped
<1>4. \A c \in Channels : \A s \in sendTimes'[c] : s \in sendTimes[c] \/ s.at = tick'
  <2>1. ASSUME NEW f \in Firing, NEW d \in Channels, BeginSend(f, d)
        PROVE  \A c \in Channels : \A s \in sendTimes'[c] : s \in sendTimes[c]
    BY <1>3, <2>1 DEF BeginSend, Recent
  <2>2. ASSUME NEW f \in Firing, NEW works \in BOOLEAN, EndSend(f, works)
        PROVE  \A c \in Channels : \A s \in sendTimes'[c] : s \in sendTimes[c] \/ s.at = tick'
    <3>1. PICK d : d = sending[f].at
      OBVIOUS
    <3>2. /\ tick' = tick
          /\ \/ sendTimes' = sendTimes
             \/ sendTimes' = [sendTimes EXCEPT ![d] = @ \cup {[alert |-> sending[f].alert, at |-> tick]}]
      BY <2>2, <3>1 DEF EndSend
    <3> QED
      BY <3>2, <1>3
  <2>3. CASE UNCHANGED sendTimes
    BY <2>3
  <2> QED
    BY <2>1, <2>2, <2>3
       DEF AlertNext, Fire, FireUnruled, Done, SwitchRule, RemoveChannel, Tock, alertVars
<1> QED
  BY <1>1, <1>2, <1>4, WindowsKept DEF AlertInv

-----------------------------------------------------------------------------
(* What a poll of a backtest task finds.                                   *)

\* A record is there from the answer on, and keeps what it ended with.
RecordsKept ==
  /\ task \in [TaskRequests -> [status : {"none", "PENDING", "RUNNING", "COMPLETED", "FAILED"},
                               parts  : SUBSET {"report", "trades", "error"}]]
  /\ poll \in [TaskRequests -> {"none", "PENDING", "RUNNING", "COMPLETED", "FAILED"}]
  /\ \A r \in TaskRequests :
       /\ stage[r] \in {"new", "fetch"} => task[r].status = "none"
       /\ task[r].status = "COMPLETED" => "report" \in task[r].parts
       /\ poll[r] = "COMPLETED" => task[r].status = "COMPLETED"

\* A client about to be closed is no longer shared.
ClientsApart ==
  /\ clientsMade \in 0 .. MaxClients /\ sharedClient \in 0 .. clientsMade
  /\ deadPools \subseteq 1 .. clientsMade /\ closedClients \subseteq 1 .. clientsMade
  /\ clientOf \in [TaskRequests -> 0 .. clientsMade]
  /\ \A r \in TaskRequests :
       stage[r] = "close" => clientOf[r] = 0 \/ clientOf[r] # sharedClient

TasksInv ==
  /\ stage \in [TaskRequests -> {"new", "fetch", "raised", "heal", "close", "answered", "refused"}]
  /\ RecordsKept /\ ClientsApart /\ PollFindsResult

LEMMA TasksStart == TasksInit => TasksInv
<1> SUFFICES ASSUME TasksInit PROVE TasksInv
  OBVIOUS
<1>1. RecordsKept
  BY DEF TasksInit, RecordsKept, NoTask
<1>2. ClientsApart
  BY TasksAssumption DEF TasksInit, ClientsApart
<1>3. PollFindsResult
  BY DEF TasksInit, PollFindsResult
<1> QED BY <1>1, <1>2, <1>3 DEF TasksInit, TasksInv

LEMMA BeginKeeps == ASSUME TasksInv, NEW r \in TaskRequests, BeginRun(r) PROVE TasksInv'
<1>1. MaxClients \in Nat
  BY TasksAssumption
<1>2. CASE router[r] = "fx"
  <2>1. RecordsKept'
    BY <1>2 DEF BeginRun, RecordTask, TasksInv, RecordsKept, clientVars
  <2>2. ClientsApart'
    BY <1>2 DEF BeginRun, RecordTask, TasksInv, ClientsApart, clientVars
  <2> QED BY <1>2, <2>1, <2>2 DEF BeginRun, TasksInv, PollFindsResult, clientVars
<1>3. CASE router[r] # "fx"
  <2>1. RecordsKept'
    BY <1>3 DEF BeginRun, TasksInv, RecordsKept
  <2>2. /\ stage' = [stage EXCEPT ![r] = "fetch"] /\ clientOf' = [clientOf EXCEPT ![r] = sharedClient']
        /\ UNCHANGED <<deadPools, closedClients, pollFails>>
    BY <1>3 DEF BeginRun
  <2>3. CASE sharedClient = 0 \/ sharedClient \in closedClients
    <3>1. clientsMade' \in 0 .. MaxClients /\ clientsMade' = clientsMade + 1 /\ sharedClient' = clientsMade'
      BY <1>1, <1>3, <2>3 DEF BeginRun, TasksInv, ClientsApart
    <3>2. ClientsApart'
      BY <1>1, <2>2, <3>1 DEF TasksInv, ClientsApart
    <3>3. sharedClient' \notin closedClients'
      BY <1>1, <2>2, <3>1 DEF TasksInv, ClientsApart
    <3> QED BY <2>1, <2>2, <3>2, <3>3 DEF TasksInv, PollFindsResult
  <2>4. CASE ~(sharedClient = 0 \/ sharedClient \in closedClients)
    <3>1. UNCHANGED <<sharedClient, clientsMade>>
      BY <1>3, <2>4 DEF BeginRun
    <3>2. ClientsApart'
      BY <2>2, <3>1 DEF TasksInv, ClientsApart
    <3> QED BY <2>1, <2>2, <3>1, <3>2 DEF TasksInv, PollFindsResult
  <2> QED BY <2>3, <2>4
<1> QED BY <1>2, <1>3

LEMMA TasksStep == TasksInv /\ [TasksNext]_taskVars => TasksInv'
<1> SUFFICES ASSUME TasksInv, [TasksNext]_taskVars PROVE TasksInv'
  OBVIOUS
<1>1. ASSUME NEW r \in TaskRequests, NEW b \in BOOLEAN, BarsFetched(r, b) PROVE TasksInv'
  <2>1. RecordsKept'
    BY <1>1 DEF BarsFetched, RecordTask, TasksInv, RecordsKept
  <2>2. ClientsApart'
    BY <1>1 DEF BarsFetched, TasksInv, ClientsApart, clientVars
  <2>3. stage' \in [TaskRequests -> {"new", "fetch", "raised", "heal", "close", "answered", "refused"}]
    BY <1>1 DEF BarsFetched, TasksInv
  <2> QED BY <1>1, <2>1, <2>2, <2>3 DEF BarsFetched, TasksInv, PollFindsResult, clientVars
<1>2. ASSUME NEW r \in TaskRequests, NEW b \in BOOLEAN, FetchRaises(r, b) PROVE TasksInv'
  BY <1>2 DEF FetchRaises, TasksInv, RecordsKept, ClientsApart, PollFindsResult, clientVars
<1>3. ASSUME NEW r \in TaskRequests, Heal(r) PROVE TasksInv'
  <2>1. ClientsApart' /\ 0 \notin closedClients'
    BY <1>3 DEF Heal, TasksInv, ClientsApart
  <2> QED BY <1>3, <2>1 DEF Heal, TasksInv, RecordsKept, PollFindsResult
<1>4. ASSUME NEW r \in TaskRequests, CloseClient(r) PROVE TasksInv'
  <2>0. clientOf[r] \in 0 .. clientsMade /\ clientsMade \in Nat
    BY <1>4, TasksAssumption DEF TasksInv, ClientsApart
  <2>3. closedClients' \subseteq 1 .. clientsMade
    <3>1. closedClients' = closedClients \cup ({clientOf[r]} \ {0}) /\ closedClients \subseteq 1 .. clientsMade
      BY <1>4 DEF CloseClient, TasksInv, ClientsApart
    <3>2. \A x \in {clientOf[r]} \ {0} : x \in 1 .. clientsMade
      BY <2>0
    <3> QED BY <3>1, <3>2
  <2>4. \A q \in TaskRequests : stage'[q] = "close" => stage[q] = "close"
    BY <1>4 DEF CloseClient, TasksInv
  <2>1. ClientsApart'
    BY <1>4, <2>3, <2>4 DEF CloseClient, TasksInv, ClientsApart
  <2>2. sharedClient' \notin closedClients'
    BY <1>4 DEF CloseClient, TasksInv, ClientsApart, PollFindsResult
  <2> QED BY <1>4, <2>1, <2>2 DEF CloseClient, TasksInv, RecordsKept, PollFindsResult
<1>5. CASE ProxyBreaks \/ ProxyRecovers
  <2>1. ClientsApart'
    BY <1>5 DEF ProxyBreaks, ProxyRecovers, TasksInv, ClientsApart, clientVars
  <2> QED BY <1>5, <2>1 DEF ProxyBreaks, ProxyRecovers, TasksInv, RecordsKept, PollFindsResult, clientVars
<1>6. ASSUME NEW r \in TaskRequests, RunTask(r) \/ Complete(r) \/ FailTask(r) PROVE TasksInv'
  <2>1. RecordsKept'
    BY <1>6 DEF RunTask, Complete, FailTask, taskFrame, TasksInv, RecordsKept
  <2> QED BY <1>6, <2>1 DEF RunTask, Complete, FailTask, taskFrame, clientVars, TasksInv, ClientsApart, PollFindsResult
<1>7. ASSUME NEW r \in TaskRequests, PollStatus(r) \/ PollResult(r) PROVE TasksInv'
  <2>1. RecordsKept'
    BY <1>7 DEF PollStatus, PollResult, TasksInv, RecordsKept
  <2>2. ~pollFails'
    BY <1>7 DEF PollStatus, PollResult, TasksInv, RecordsKept, PollFindsResult
  <2> QED BY <1>7, <2>1, <2>2 DEF PollStatus, PollResult, clientVars, TasksInv, ClientsApart, PollFindsResult
<1>8. CASE UNCHANGED taskVars
  BY <1>8 DEF taskVars, TasksInv, RecordsKept, ClientsApart, PollFindsResult
<1> QED BY <1>1, <1>2, <1>3, <1>4, <1>5, <1>6, <1>7, <1>8, BeginKeeps DEF TasksNext

-----------------------------------------------------------------------------
(* The orders that rest in the matcher.                                    *)

RestingOrders ==
  [id : Nat, kind : {"limit", "stop", "market"}, side : {"BUY", "SELL"}, price : Int,
   qty : {1}, created : Nat, low : Int, high : Int]

\* No bar up to now has reached the price of an order since it was sent.
Unreached(o, now) ==
  /\ o.created <= now /\ (o.kind = "market" => o.created = now)
  /\ o.kind # "market" =>
       /\ (o.kind = "limit") = (o.side = "BUY") => o.low > o.price
       /\ (o.kind = "limit") # (o.side = "BUY") => o.high < o.price

RestsInv ==
  /\ barNo \in 0 .. MaxBars /\ sentCount \in 0 .. MaxSent
  /\ pendingOrders \in Seq(RestingOrders) /\ Len(pendingOrders) <= sentCount
  /\ \A i \in DOMAIN pendingOrders : Unreached(pendingOrders[i], barNo)

\* What a list of orders at some places holds.
LEMMA OrdersAtPlaces ==
  ASSUME NEW T, NEW s \in Seq(T), NEW places \in SUBSET DOMAIN s
  PROVE  /\ OrdersAt(s, places) \in Seq(T) /\ Len(OrdersAt(s, places)) <= Len(s)
         /\ \A n \in DOMAIN OrdersAt(s, places) : \E k \in places : OrdersAt(s, places)[n] = s[k]
<1> DEFINE at(n) == CHOOSE k \in places : Cardinality({j \in places : j <= k}) = n
           N == Cardinality(places)
<1>1. DOMAIN s = 1 .. Len(s) /\ Len(s) \in Nat /\ IsFiniteSet(1 .. Len(s)) /\ Cardinality(1 .. Len(s)) = Len(s)
  <2>1. DOMAIN s = 1 .. Len(s) /\ Len(s) \in Nat
    OBVIOUS
  <2>2. \A n \in Nat : IsFiniteSet(1 .. n) /\ Cardinality(1 .. n) = n
    BY FS_Interval
  <2> QED BY <2>1, <2>2
<1>2. IsFiniteSet(places) /\ N \in Nat /\ N <= Len(s) /\ places \subseteq Nat
  BY <1>1, NoLarger
<1>3. ASSUME NEW n \in 1 .. N PROVE at(n) \in places
  <2>1. \E k \in places : Cardinality({j \in places : j <= k}) = n
    BY <1>2, NthIsThere
  <2> QED BY <2>1
<1>4. OrdersAt(s, places) = [n \in 1 .. N |-> s[at(n)]]
  BY Zenon DEF OrdersAt
<1> HIDE DEF at, N
<1>5. OrdersAt(s, places) \in [1 .. N -> T]
  BY <1>1, <1>3, <1>4
<1>6. OrdersAt(s, places) \in Seq(T) /\ Len(OrdersAt(s, places)) = N
  BY <1>2, <1>5
<1> QED BY <1>2, <1>3, <1>4, <1>6

LEMMA PriceRange ==
  /\ Highest \in BarPrices /\ Lowest \in BarPrices /\ BarPrices \subseteq Nat
  /\ \A p \in BarPrices : Lowest <= p /\ p <= Highest
<1> DEFINE Fin == {n \in Nat : \E S \in SUBSET BarPrices : S # {} /\ Cardinality(S) = n}
<1>1. BarPrices \subseteq Nat /\ BarPrices # {} /\ IsFiniteSet(BarPrices)
  BY MatcherAssumption
<1>2. \E p \in BarPrices : \A q \in BarPrices : p <= q
  <2>1. PICK p \in BarPrices : p \in Nat /\ \A q \in BarPrices : ~(<<q, p>> \in OpToRel(<, Nat))
    BY <1>1, NatLessThanWellFounded, WFMin
  <2>2. ASSUME NEW q \in BarPrices, q < p PROVE FALSE
    <3>1. q \in Nat /\ p \in Nat
      BY <1>1, <2>1
    <3>2. <<q, p>> \in OpToRel(<, Nat)
      BY <2>2, <3>1 DEF OpToRel
    <3> QED BY <2>1, <3>2
  <2>3. p \in Nat /\ \A q \in BarPrices : q \in Nat /\ ~(q < p)
    <3>1. p \in Nat
      BY <2>1
    <3> QED BY <1>1, <2>2, <3>1
  <2>4. \A q \in BarPrices : p <= q
    BY <2>3
  <2> QED BY <2>4
<1>3. \E p \in BarPrices : \A q \in BarPrices : q <= p
  <2>1. Cardinality(BarPrices) \in Nat /\ Cardinality(BarPrices) # 0
    BY <1>1, FS_CardinalityType, FS_EmptySet
  <2>0. Cardinality(BarPrices) \in 1 .. Cardinality(BarPrices)
    BY <2>1
  <2>2. PICK p \in BarPrices : Cardinality({j \in BarPrices : j <= p}) = Cardinality(BarPrices)
    BY <1>1, <2>0, NthIsThere
  <2>3. {j \in BarPrices : j <= p} = BarPrices
    BY <1>1, <2>2, FS_Subset
  <2> QED BY <2>3
<1> QED BY <1>1, <1>2, <1>3 DEF Highest, Lowest

LEMMA RestsStart == MatcherInit => RestsInv
<1> SUFFICES ASSUME MatcherInit PROVE RestsInv
  OBVIOUS
<1>1. <<>> \in Seq(RestingOrders) /\ Len(<<>>) = 0 /\ MaxBars \in Nat /\ MaxSent \in Nat
  BY MatcherAssumption
<1> QED BY <1>1 DEF MatcherInit, RestsInv

LEMMA SubmitRests ==
  ASSUME RestsInv, NEW kind \in {"limit", "stop", "market"}, NEW side \in {"BUY", "SELL"}, NEW price \in Int,
         kind # "market" => price \in BarPrices, SubmitOrder(kind, side, price)
  PROVE  RestsInv'
<1> DEFINE o == [id |-> sentCount', kind |-> kind, side |-> side, price |-> price,
                 qty |-> 1, created |-> barNo, low |-> Highest + 1, high |-> Lowest - 1]
<1>1. /\ MaxBars \in Nat /\ MaxSent \in Nat /\ barNo \in 0 .. MaxBars /\ sentCount' \in 0 .. MaxSent
      /\ sentCount' = sentCount + 1 /\ sentCount \in Nat /\ barNo' = barNo
  BY MatcherAssumption DEF RestsInv, SubmitOrder
<1>2. pendingOrders' = Append(pendingOrders, o)
  BY DEF SubmitOrder
<1>3. o \in RestingOrders
  BY <1>1, PriceRange DEF RestingOrders
<1>4. Unreached(o, barNo)
  BY <1>1, PriceRange DEF Unreached
<1> HIDE DEF o
<1>5. pendingOrders' \in Seq(RestingOrders) /\ Len(pendingOrders') = Len(pendingOrders) + 1
      /\ DOMAIN pendingOrders' = 1 .. Len(pendingOrders) + 1
      /\ \A i \in DOMAIN pendingOrders' : pendingOrders'[i] = IF i \in DOMAIN pendingOrders THEN pendingOrders[i] ELSE o
  BY <1>2, <1>3 DEF RestsInv
<1>6. \A i \in DOMAIN pendingOrders' : Unreached(pendingOrders'[i], barNo')
  BY <1>1, <1>4, <1>5 DEF RestsInv
<1>7. Len(pendingOrders') <= sentCount'
  BY <1>1, <1>5 DEF RestsInv
<1>8. \A i \in DOMAIN pendingOrders' : Unreached(pendingOrders'[i], barNo')
  BY <1>1, <1>6 DEF Unreached
<1> QED BY <1>1, <1>5, <1>7, <1>8 DEF RestsInv

\* A sequence without one of its elements.
LEMMA CutOut ==
  ASSUME NEW T, NEW s \in Seq(T), NEW i \in 1 .. Len(s), NEW c, c = RemoveAt(s, i)
  PROVE  c \in Seq(T) /\ Len(c) = Len(s) - 1 /\ \A k \in 1 .. Len(c) : \E j \in 1 .. Len(s) : c[k] = s[j]
<1>0. PICK n \in Nat : n = Len(s)
  OBVIOUS
<1>1. PICK a, z : a = SubSeq(s, 1, i - 1) /\ z = SubSeq(s, i + 1, n)
  OBVIOUS
<1>2. i \in 1 .. n /\ \A k \in 1 .. n : s[k] \in T
  BY <1>0
<1>3. \A k \in 1 .. i - 1 : k \in 1 .. n
  BY <1>2
<1>4. \A k \in i + 1 .. n : k \in 1 .. n
  BY <1>2
<1>5. a \in Seq(T) /\ Len(a) = i - 1 /\ \A k \in 1 .. i - 1 : a[k] = s[k]
  <2>1. /\ a \in Seq(T) /\ Len(a) = (IF 1 <= i - 1 THEN i - 1 - 1 + 1 ELSE 0)
        /\ \A k \in 1 .. i - 1 - 1 + 1 : a[k] = s[1 + k - 1]
    BY <1>1, <1>2, <1>3, SubSeqProperties
  <2>2. i - 1 - 1 + 1 = i - 1 /\ Len(a) = i - 1
    BY <1>2, <2>1
  <2>3. ASSUME NEW k \in 1 .. i - 1 PROVE a[k] = s[k]
    <3>1. 1 + k - 1 = k
      OBVIOUS
    <3> QED BY <2>1, <2>2, <3>1
  <2> QED BY <2>1, <2>2, <2>3
<1>6. z \in Seq(T) /\ Len(z) = n - i /\ \A k \in 1 .. n - i : z[k] = s[i + k]
  <2>1. /\ z \in Seq(T) /\ Len(z) = (IF i + 1 <= n THEN n - (i + 1) + 1 ELSE 0)
        /\ \A k \in 1 .. n - (i + 1) + 1 : z[k] = s[i + 1 + k - 1]
    BY <1>1, <1>2, <1>4, SubSeqProperties
  <2>2. n - (i + 1) + 1 = n - i /\ Len(z) = n - i
    BY <1>2, <2>1
  <2>3. ASSUME NEW k \in 1 .. n - i PROVE z[k] = s[i + k]
    <3>1. i + 1 + k - 1 = i + k
      BY <1>2
    <3> QED BY <2>1, <2>2, <3>1
  <2> QED BY <2>1, <2>2, <2>3
<1>7. /\ a \o z \in Seq(T) /\ Len(a \o z) = Len(a) + Len(z)
      /\ \A k \in 1 .. Len(a) + Len(z) : (a \o z)[k] = IF k <= Len(a) THEN a[k] ELSE z[k - Len(a)]
  BY <1>5, <1>6, ConcatProperties
<1>8. c = a \o z
  BY <1>0, <1>1 DEF RemoveAt
<1>9. Len(c) = n - 1 /\ c \in Seq(T)
  <2>1. i - 1 + (n - i) = n - 1
    BY <1>2
  <2> QED BY <1>5, <1>6, <1>7, <1>8, <2>1
<1>10. ASSUME NEW k \in 1 .. n - 1 PROVE \E j \in 1 .. n : c[k] = s[j]
  <2>1. CASE k < i
    <3>1. k \in 1 .. i - 1 /\ k \in 1 .. n /\ k <= i - 1 /\ i - 1 + (n - i) = n - 1
      BY <1>2, <2>1
    <3>2. c[k] = a[k]
      BY <1>5, <1>6, <1>7, <1>8, <3>1
    <3> QED BY <1>5, <3>1, <3>2
  <2>2. CASE ~(k < i)
    <3>1. k - (i - 1) \in 1 .. n - i /\ i + (k - (i - 1)) = k + 1 /\ k + 1 \in 1 .. n /\ ~(k <= i - 1)
          /\ i - 1 + (n - i) = n - 1
      BY <1>2, <2>2
    <3>2. c[k] = z[k - (i - 1)]
      BY <1>5, <1>6, <1>7, <1>8, <3>1
    <3> QED BY <1>6, <3>1, <3>2
  <2> QED BY <2>1, <2>2
<1> QED BY <1>0, <1>1, <1>8, <1>9, <1>10

LEMMA CancelRests ==
  ASSUME RestsInv, NEW i \in DOMAIN pendingOrders, CancelResting(i)
  PROVE  RestsInv'
<1>1. pendingOrders \in Seq(RestingOrders) /\ i \in 1 .. Len(pendingOrders) /\ Len(pendingOrders) \in Nat
      /\ DOMAIN pendingOrders = 1 .. Len(pendingOrders)
  BY DEF RestsInv
<1>2. barNo' = barNo /\ sentCount' = sentCount
      /\ pendingOrders' = RemoveAt(pendingOrders, i)
  BY DEF CancelResting
<1>3. /\ pendingOrders' \in Seq(RestingOrders) /\ Len(pendingOrders') = Len(pendingOrders) - 1
      /\ \A k \in 1 .. Len(pendingOrders') : \E j \in DOMAIN pendingOrders : pendingOrders'[k] = pendingOrders[j]
  <2>1. PICK c : c = pendingOrders'
    OBVIOUS
  <2>2. /\ c \in Seq(RestingOrders) /\ Len(c) = Len(pendingOrders) - 1
        /\ \A k \in 1 .. Len(c) : \E j \in 1 .. Len(pendingOrders) : c[k] = pendingOrders[j]
    <3>1. c \in Seq(RestingOrders)
      BY <1>1, <1>2, <2>1, CutOut
    <3>2. Len(c) = Len(pendingOrders) - 1
      BY <1>1, <1>2, <2>1, CutOut
    <3>3. \A k \in 1 .. Len(c) : \E j \in 1 .. Len(pendingOrders) : c[k] = pendingOrders[j]
      BY <1>1, <1>2, <2>1, CutOut
    <3> QED BY <3>1, <3>2, <3>3
  <2> QED BY <1>1, <2>1, <2>2
<1>4. \A k \in DOMAIN pendingOrders' : Unreached(pendingOrders'[k], barNo')
  <2>1. DOMAIN pendingOrders' = 1 .. Len(pendingOrders')
    BY <1>3
  <2> QED BY <1>2, <1>3, <2>1 DEF RestsInv
<1>5. Len(pendingOrders') <= sentCount'
  BY <1>1, <1>2, <1>3, MatcherAssumption DEF RestsInv
<1> QED BY <1>2, <1>3, <1>4, <1>5 DEF RestsInv

LEMMA BarRests ==
  ASSUME RestsInv, NEW b \in AllBars, OnBar(b)
  PROVE  RestsInv'
<1> DEFINE left == LeftBy(pendingOrders, b, barNo')
           seen(o) == [o EXCEPT !.low  = IF b.low  < @ THEN b.low  ELSE @,
                                !.high = IF b.high > @ THEN b.high ELSE @]
<1>1. /\ pendingOrders \in Seq(RestingOrders) /\ Len(pendingOrders) \in Nat /\ barNo' = barNo + 1
      /\ barNo \in Nat /\ barNo' \in 0 .. MaxBars /\ b.low \in Nat /\ b.high \in Nat /\ sentCount' = sentCount
  <2>1. /\ pendingOrders \in Seq(RestingOrders) /\ barNo \in 0 .. MaxBars /\ barNo < MaxBars /\ MaxBars \in Nat
        /\ barNo' = barNo + 1 /\ sentCount' = sentCount
    BY MatcherAssumption DEF RestsInv, OnBar
  <2>2. b.low \in BarPrices /\ b.high \in BarPrices
    BY DEF AllBars
  <2>3. b.low \in Nat /\ b.high \in Nat
    BY <2>2, PriceRange
  <2> QED BY <2>1, <2>3
<1>2. /\ left \in Seq(RestingOrders) /\ Len(left) <= Len(pendingOrders) /\ Len(left) \in Nat
      /\ DOMAIN left = 1 .. Len(left)
      /\ \A n \in DOMAIN left : \E k \in DOMAIN pendingOrders :
           left[n] = pendingOrders[k] /\ ~Matched(pendingOrders[k], b, barNo')
  <2> DEFINE places == {k \in DOMAIN pendingOrders : ~Matched(pendingOrders[k], b, barNo')}
  <2>1. left = OrdersAt(pendingOrders, places) /\ places \subseteq DOMAIN pendingOrders
    BY DEF LeftBy
  <2>2. \A k \in places : k \in DOMAIN pendingOrders /\ ~Matched(pendingOrders[k], b, barNo')
    OBVIOUS
  <2> HIDE DEF left, places
  <2>3. /\ left \in Seq(RestingOrders) /\ Len(left) <= Len(pendingOrders)
        /\ \A n \in DOMAIN left : \E k \in places : left[n] = pendingOrders[k]
    BY <1>1, <2>1, OrdersAtPlaces
  <2> QED BY <2>2, <2>3
<1>3. pendingOrders' = [n \in DOMAIN left |-> seen(left[n])]
  BY DEF OnBar
<1>4. ASSUME NEW o \in RestingOrders, Unreached(o, barNo), ~Matched(o, b, barNo')
      PROVE  seen(o) \in RestingOrders /\ Unreached(seen(o), barNo')
  <2>1. o.created < barNo' /\ ~Touched(o, b)
    BY <1>1, <1>4 DEF Matched, Unreached, RestingOrders
  <2>2. o.kind \in {"limit", "stop"}
    BY <2>1 DEF Touched, RestingOrders
  <2>3. seen(o) = [o EXCEPT !.low  = IF b.low  < o.low  THEN b.low  ELSE o.low,
                            !.high = IF b.high > o.high THEN b.high ELSE o.high]
    BY DEF RestingOrders
  <2>4. seen(o) \in RestingOrders
    <3>1. PICK l \in Int, h \in Int : /\ l = (IF b.low < o.low THEN b.low ELSE o.low)
                                     /\ h = (IF b.high > o.high THEN b.high ELSE o.high)
      <4>1. o.low \in Int /\ o.high \in Int /\ b.low \in Int /\ b.high \in Int
        BY <1>1 DEF RestingOrders
      <4> QED BY <4>1
    <3>2. seen(o) = [o EXCEPT !.low = l, !.high = h]
      BY <2>3, <3>1
    <3> HIDE DEF seen
    <3> QED BY <3>2 DEF RestingOrders
  <2>5. /\ seen(o).kind = o.kind /\ seen(o).side = o.side /\ seen(o).price = o.price /\ seen(o).created = o.created
        /\ seen(o).low = (IF b.low < o.low THEN b.low ELSE o.low)
        /\ seen(o).high = (IF b.high > o.high THEN b.high ELSE o.high)
    BY <2>3 DEF RestingOrders
  <2>6. /\ (o.kind = "limit") = (o.side = "BUY") => o.low > o.price /\ b.low > o.price
        /\ (o.kind = "limit") # (o.side = "BUY") => o.high < o.price /\ b.high < o.price
    <3>1. o.side \in {"BUY", "SELL"} /\ o.low \in Int /\ o.high \in Int /\ o.price \in Int
      BY DEF RestingOrders
    <3>2. CASE o.kind = "limit"
      <4>1. ~(IF o.side = "BUY" THEN b.low <= o.price ELSE b.high >= o.price)
        BY <2>1, <3>2 DEF Touched
      <4>2. /\ o.side = "BUY" => o.low > o.price
            /\ o.side # "BUY" => o.high < o.price
        BY <1>4, <3>2 DEF Unreached
      <4> QED BY <1>1, <3>1, <3>2, <4>1, <4>2
    <3>3. CASE o.kind = "stop"
      <4>1. ~(IF o.side = "BUY" THEN b.high >= o.price ELSE b.low <= o.price)
        BY <2>1, <3>3 DEF Touched
      <4>2. /\ o.side = "BUY" => o.high < o.price
            /\ o.side # "BUY" => o.low > o.price
        BY <1>4, <3>3 DEF Unreached
      <4> QED BY <1>1, <3>1, <3>3, <4>1, <4>2
    <3> QED BY <2>2, <3>2, <3>3
  <2>7. o.low \in Int /\ o.high \in Int /\ o.price \in Int /\ o.created \in Nat
    BY DEF RestingOrders
  <2> HIDE DEF seen
  <2>8. /\ (o.kind = "limit") = (o.side = "BUY") => seen(o).low > o.price
        /\ (o.kind = "limit") # (o.side = "BUY") => seen(o).high < o.price
    BY <1>1, <2>5, <2>6, <2>7
  <2> QED BY <1>1, <2>1, <2>2, <2>4, <2>5, <2>7, <2>8 DEF Unreached
<1>5. ASSUME NEW n \in DOMAIN left PROVE seen(left[n]) \in RestingOrders /\ Unreached(seen(left[n]), barNo')
  <2>1. PICK k \in DOMAIN pendingOrders : left[n] = pendingOrders[k] /\ ~Matched(pendingOrders[k], b, barNo')
    BY <1>2
  <2>2. pendingOrders[k] \in RestingOrders /\ Unreached(pendingOrders[k], barNo)
    BY <1>1 DEF RestsInv
  <2>3. seen(pendingOrders[k]) \in RestingOrders /\ Unreached(seen(pendingOrders[k]), barNo')
    BY <1>4, <2>1, <2>2
  <2> HIDE DEF seen, left
  <2> QED BY <2>1, <2>3
<1> HIDE DEF left, seen
<1>6. /\ pendingOrders' \in Seq(RestingOrders) /\ Len(pendingOrders') = Len(left) /\ DOMAIN pendingOrders' = DOMAIN left
      /\ \A n \in DOMAIN left : pendingOrders'[n] = seen(left[n])
  <2>1. pendingOrders' \in [1 .. Len(left) -> RestingOrders]
    BY <1>2, <1>3, <1>5
  <2> QED BY <1>2, <1>3, <2>1
<1>7. \A n \in DOMAIN pendingOrders' : Unreached(pendingOrders'[n], barNo')
  BY <1>5, <1>6 DEF Unreached
<1>8. Len(pendingOrders') <= sentCount'
  BY <1>1, <1>2, <1>6 DEF RestsInv
<1> QED BY <1>1, <1>6, <1>7, <1>8 DEF RestsInv

LEMMA RestsStep == RestsInv /\ [MatcherNext]_matcherVars => RestsInv'
<1> SUFFICES ASSUME RestsInv, [MatcherNext]_matcherVars PROVE RestsInv'
  OBVIOUS
<1>1. ASSUME NEW kind \in {"limit", "stop"}, NEW side \in {"BUY", "SELL"}, NEW p \in BarPrices, SubmitOrder(kind, side, p)
      PROVE  RestsInv'
  <2>1. p \in Int
    BY PriceRange
  <2> QED BY <1>1, <2>1, SubmitRests
<1>2. ASSUME NEW side \in {"BUY", "SELL"}, SubmitOrder("market", side, 0) PROVE RestsInv'
  BY <1>2, SubmitRests
<1>3. CASE UNCHANGED matcherVars
  BY <1>3 DEF matcherVars, RestsInv, Unreached
<1> QED BY <1>1, <1>2, <1>3, CancelRests, BarRests DEF MatcherNext

LEMMA RestsAgree == RestsInv => RestsUntouched /\ MatcherTypeOK
<1> SUFFICES ASSUME RestsInv PROVE RestsUntouched /\ MatcherTypeOK
  OBVIOUS
<1>1. \A i \in DOMAIN pendingOrders : pendingOrders[i] \in RestingOrders /\ Unreached(pendingOrders[i], barNo)
  BY DEF RestsInv
<1>2. barNo \in Nat /\ MaxSent \in Nat
  BY MatcherAssumption DEF RestsInv
<1>3. RestsUntouched
  BY <1>1, <1>2 DEF RestsUntouched, Unreached, RestingOrders
<1>4. MatcherTypeOK
  BY <1>2 DEF MatcherTypeOK, RestsInv
<1> QED BY <1>3, <1>4

-----------------------------------------------------------------------------
(* The parameter search.                                                   *)

LEMMA DivMod ==
  ASSUME NEW a \in Nat, NEW m \in Nat, m > 0
  PROVE  /\ a \div m \in Nat /\ (a % m) \in 0 .. m - 1 /\ a = m * (a \div m) + (a % m)
  OBVIOUS

LEMMA DivBelow ==
  ASSUME NEW a \in Nat, NEW m \in Nat, m > 0, NEW k \in Nat, a < k * m
  PROVE  a \div m < k
<1>1. PICK q \in Nat, r \in 0 .. m - 1 : q = a \div m /\ a = m * q + r
  BY DivMod
<1>2. SUFFICES ASSUME k <= q PROVE FALSE
  BY <1>1
<1>3. PICK d \in Nat : q = k + d
  BY <1>2
<1>4. m * q = m * k + m * d /\ m * d >= 0 /\ m * k = k * m
  BY <1>3
<1> QED BY <1>1, <1>4

SpaceRows == Seq(SpaceValues)

LEMMA SameNext ==
  ASSUME NEW a \in Nat, NEW b \in Nat, a + 1 = b + 1 PROVE a = b
OBVIOUS

\* The product of distinct rows with distinct values has distinct rows.
LEMMA CrossedApart ==
  ASSUME NEW V, NEW rows \in Seq(Seq(V)), NEW values \in Seq(V), values # <<>>,
         IsInjective(rows), IsInjective(values)
  PROVE  CrossedWith(rows, values) \in Seq(Seq(V)) /\ IsInjective(CrossedWith(rows, values))
<1>1. PICK n \in Nat, m \in Nat : n = Len(values) /\ m = Len(rows)
  OBVIOUS
<1>2. n > 0
  BY <1>1
<1> DEFINE q(i) == (i - 1) \div n
           r(i) == (i - 1) % n
           row(i) == rows[q(i) + 1]
           val(i) == values[r(i) + 1]
           c == CrossedWith(rows, values)
<1>0. PICK k \in Nat : k = m * n
  OBVIOUS
<1>3. c = [i \in 1 .. k |-> Append(row(i), val(i))]
  BY <1>0, <1>1 DEF CrossedWith
<1>4. ASSUME NEW i \in 1 .. k
      PROVE  /\ q(i) \in Nat /\ r(i) \in Nat /\ q(i) + 1 \in DOMAIN rows /\ r(i) + 1 \in DOMAIN values
             /\ i = n * q(i) + r(i) + 1
  <2>0. PICK a \in Nat : a = i - 1 /\ a < k
    OBVIOUS
  <2>1. a = i - 1 /\ a < m * n
    BY <1>0, <2>0
  <2>2. a \div n \in Nat /\ (a % n) \in 0 .. n - 1 /\ a = n * (a \div n) + (a % n)
    BY <1>2, <2>1, DivMod
  <2>3. a \div n < m
    BY <1>2, <2>1, DivBelow
  <2>4. q(i) = a \div n /\ r(i) = (a % n)
    BY <2>1
  <2> HIDE DEF q, r
  <2>5. q(i) \in Nat /\ q(i) < m /\ r(i) \in 0 .. n - 1 /\ a = n * q(i) + r(i)
    BY <2>2, <2>3, <2>4
  <2>6. q(i) + 1 \in 1 .. m /\ r(i) + 1 \in 1 .. n
    BY <2>5
  <2>7. i = n * q(i) + r(i) + 1
    <3>1. PICK u \in Int : u = n * q(i)
      BY <2>5
    <3> QED BY <2>1, <2>5, <3>1
  <2> QED BY <1>1, <2>5, <2>6, <2>7
<1> HIDE DEF q, r
<1>5. ASSUME NEW i \in 1 .. k
      PROVE  row(i) \in Seq(V) /\ val(i) \in V /\ Append(row(i), val(i)) \in Seq(V)
  <2>1. row(i) \in Seq(V) /\ val(i) \in V
    BY <1>4
  <2> HIDE DEF row, val
  <2> QED BY <2>1
<1>6. c \in Seq(Seq(V)) /\ DOMAIN c = 1 .. k
  <2>1. c \in [1 .. k -> Seq(V)]
    BY <1>3, <1>5
  <2>2. PICK W : W = Seq(V)
    OBVIOUS
  <2>3. c \in [1 .. k -> W]
    BY <2>1, <2>2
  <2> HIDE DEF c
  <2>4. c \in Seq(W) /\ DOMAIN c = 1 .. k
    BY <2>3
  <2> QED BY <2>2, <2>4
<1>7. ASSUME NEW i \in 1 .. k, NEW j \in 1 .. k, c[i] = c[j] PROVE i = j
  <2>1. PICK u \in Seq(V), v \in Seq(V), x \in V, y \in V :
          u = row(i) /\ v = row(j) /\ x = val(i) /\ y = val(j)
    BY <1>5
  <2>2. Append(u, x) = Append(v, y)
    BY <1>3, <1>7, <2>1
  <2>3. u = v /\ x = y
    BY <2>2, AppendInjective
  <2>4. PICK a \in Nat, b \in Nat, g \in Nat, h \in Nat : a = q(i) /\ b = r(i) /\ g = q(j) /\ h = r(j)
    BY <1>4
  <2>5. /\ a + 1 \in DOMAIN rows /\ g + 1 \in DOMAIN rows /\ b + 1 \in DOMAIN values /\ h + 1 \in DOMAIN values
        /\ i = n * a + b + 1 /\ j = n * g + h + 1
    BY <1>4, <2>4
  <2>6. rows[a + 1] = rows[g + 1] /\ values[b + 1] = values[h + 1]
    BY <2>1, <2>3, <2>4
  <2>7. a + 1 = g + 1 /\ b + 1 = h + 1
    BY <2>5, <2>6 DEF IsInjective
  <2>8. a = g /\ b = h
    <3>1. a \in Nat /\ b \in Nat /\ g \in Nat /\ h \in Nat
      BY <2>4
    <3> QED BY <2>7, <3>1, SameNext, Zenon
  <2> QED BY <2>5, <2>8
<1> QED BY <1>6, <1>7 DEF IsInjective

\* Of the values of the parameters every combination is there, once.
LEMMA GridApart == Grid \in Seq(SpaceRows) /\ IsInjective(Grid)
<1> DEFINE S == {g \in Seq(SpaceRows) : IsInjective(g)}
           rec(u) == u = [p \in 0 .. Len(ParamValues) |->
                            IF p = 0 THEN <<<<>>>> ELSE CrossedWith(u[p - 1], ParamValues[p])]
           step == [x \in S \X (1 .. Len(ParamValues)) |-> CrossedWith(x[1], ParamValues[x[2]])]
<1>0. PICK m \in Nat : m = Len(ParamValues)
  BY OptimizerAssumption
<1>1. ASSUME NEW p \in 1 .. m
      PROVE  ParamValues[p] \in Seq(SpaceValues) /\ ParamValues[p] # <<>> /\ IsInjective(ParamValues[p])
  <2>1. p \in DOMAIN ParamValues
    BY <1>0, OptimizerAssumption
  <2> QED BY <2>1, OptimizerAssumption
<1>2. <<<<>>>> \in S
  <2>1. <<>> \in SpaceRows /\ <<<<>>>> \in Seq(SpaceRows) /\ DOMAIN <<<<>>>> = {1}
    BY DEF SpaceRows
  <2> QED BY <2>1 DEF IsInjective
<1>3. ASSUME NEW g \in S, NEW p \in 1 .. m PROVE CrossedWith(g, ParamValues[p]) \in S
  <2>1. g \in Seq(Seq(SpaceValues)) /\ IsInjective(g)
    BY DEF SpaceRows
  <2>2. CrossedWith(g, ParamValues[p]) \in Seq(Seq(SpaceValues)) /\ IsInjective(CrossedWith(g, ParamValues[p]))
    BY <1>1, <2>1, CrossedApart
  <2> QED BY <2>2 DEF SpaceRows
<1>4. step \in [S \X (1 .. m) -> S]
  <2> HIDE DEF S
  <2> QED BY <1>0, <1>3
<1>5. PICK f \in [0 .. m -> S] : f[0] = <<<<>>>> /\ \A k \in 1 .. m : f[k] = step[<<f[k - 1], k>>]
  <2>1. \E f : TakesSteps(f, S, m, <<<<>>>>, step)
    <3> HIDE DEF S, step
    <3> QED BY <1>0, <1>2, <1>4, StepsExist
  <2> HIDE DEF S, step
  <2> QED BY <2>1 DEF TakesSteps
<1>6. ASSUME NEW k \in 1 .. m PROVE f[k] = CrossedWith(f[k - 1], ParamValues[k])
  <2>1. k - 1 \in 0 .. m
    OBVIOUS
  <2>2. f[k - 1] \in S
    BY <1>5, <2>1
  <2>3. PICK g \in S : g = f[k - 1]
    BY <2>2
  <2>4. step[<<g, k>>] = CrossedWith(g, ParamValues[k])
    <3> HIDE DEF S
    <3> QED BY <1>0
  <2> HIDE DEF step
  <2> QED BY <1>5, <2>3, <2>4
<1>7. rec(f)
  <2>1. \A k \in 0 .. m : f[k] = IF k = 0 THEN <<<<>>>> ELSE CrossedWith(f[k - 1], ParamValues[k])
    <3>1. \A k \in 0 .. m : k = 0 \/ k \in 1 .. m
      BY <1>0
    <3> QED BY <1>5, <1>6, <3>1
  <2>2. f = [k \in 0 .. m |-> f[k]]
    BY <1>5
  <2> QED BY <1>0, <2>1, <2>2
<1>8. ASSUME NEW u, rec(u) PROVE u[m] \in S
  <2>1. /\ u[0] = <<<<>>>>
        /\ \A k \in 1 .. m : u[k] = CrossedWith(u[k - 1], ParamValues[k])
    <3> DEFINE h == [p \in 0 .. m |-> IF p = 0 THEN <<<<>>>> ELSE CrossedWith(u[p - 1], ParamValues[p])]
    <3>1. u = h
      BY <1>0, <1>8
    <3>2. h[0] = <<<<>>>> /\ \A k \in 1 .. m : h[k] = CrossedWith(u[k - 1], ParamValues[k])
      BY <1>0
    <3> HIDE DEF h
    <3> QED BY <3>1, <3>2
  <2> DEFINE Bad == {k \in 0 .. m : u[k] \notin S}
  <2>2. SUFFICES ASSUME Bad # {} PROVE FALSE
    BY <1>0
  <2>3. PICK k \in Bad : k \in Nat /\ (k # 0 => (k - 1 \in Nat /\ k - 1 \notin Bad))
    <3>1. Bad \subseteq Nat
      OBVIOUS
    <3> HIDE DEF Bad
    <3> QED BY <2>2, <3>1, LeastBad
  <2>4. k # 0
    BY <1>2, <2>1, <2>3
  <2>5. k \in 1 .. m /\ k - 1 \in 0 .. m
    BY <2>3, <2>4
  <2>6. u[k - 1] \in S
    BY <2>3, <2>4, <2>5
  <2>7. CrossedWith(u[k - 1], ParamValues[k]) \in S
    BY <1>3, <2>5, <2>6
  <2> HIDE DEF S
  <2> QED BY <2>1, <2>3, <2>5, <2>7
<1>9. Grid = (CHOOSE u : rec(u))[Len(ParamValues)]
  BY DEF Grid
<1>10. rec(CHOOSE u : rec(u))
  <2> HIDE DEF rec
  <2> QED BY <1>7
<1>11. Grid \in S
  <2> HIDE DEF rec, S
  <2> QED BY <1>0, <1>8, <1>9, <1>10
<1> QED BY <1>11

\* at says where the sort takes each of the n results from.
SortedBy(at, rs, n) ==
  /\ at \in [1 .. n -> 1 .. n]
  /\ DOMAIN ByScore(rs) = 1 .. n /\ \A k \in 1 .. n : ByScore(rs)[k] = rs[at[k]]
  /\ \A m \in 1 .. n : \E k \in 1 .. n : at[k] = m
  /\ \A k \in 1 .. n : \A j \in 1 .. k : j # k => ~Better(rs[at[k]], rs[at[j]])

\* The sort puts every result at one place, in order.
LEMMA Sorting ==
  ASSUME NEW rs, NEW n \in Nat, DOMAIN rs = 1 .. n, \A i \in 1 .. n : rs[i].score \in Int
  PROVE  \E at : SortedBy(at, rs, n)
<1> DEFINE D == 1 .. n
           before(i) == {j \in D : Precedes(rs, j, i)}
           rank == [i \in D |-> Cardinality(before(i))]
           at == [k \in D |-> CHOOSE i \in D : Cardinality(before(i)) = k]
<1>1. IsFiniteSet(D) /\ Cardinality(D) = n
  <2>1. n \in Int /\ 1 \in Int /\ (1 > n => n = 0)
    OBVIOUS
  <2> QED BY <2>1, FS_Interval
<1>2. ASSUME NEW i \in D, NEW j \in D
      PROVE  Precedes(rs, j, i) <=> (\/ (search.ascending /\ rs[j].score < rs[i].score)
                                     \/ (~search.ascending /\ rs[j].score > rs[i].score)
                                     \/ (j <= i /\ rs[j].score = rs[i].score))
  <2>1. rs[i].score \in Int /\ rs[j].score \in Int /\ i \in Int /\ j \in Int
    OBVIOUS
  <2> QED BY <2>1 DEF Precedes, Better
<1>3. ASSUME NEW i \in D, NEW j \in D, NEW k \in D, Precedes(rs, k, j), Precedes(rs, j, i)
      PROVE  Precedes(rs, k, i)
  <2>1. rs[i].score \in Int /\ rs[j].score \in Int /\ rs[k].score \in Int /\ i \in Int /\ j \in Int /\ k \in Int
    OBVIOUS
  <2> QED BY <1>2, <1>3, <2>1
<1>4. ASSUME NEW i \in D, NEW j \in D, i # j
      PROVE  Precedes(rs, j, i) <=> ~Precedes(rs, i, j)
  <2>1. rs[i].score \in Int /\ rs[j].score \in Int /\ i \in Int /\ j \in Int
    OBVIOUS
  <2> QED BY <1>2, <1>4, <2>1
<1>5. ASSUME NEW i \in D PROVE Precedes(rs, i, i) /\ IsFiniteSet(before(i)) /\ Cardinality(before(i)) \in D
  <2>1. Precedes(rs, i, i)
    BY <1>2
  <2>2. i \in before(i) /\ before(i) \subseteq D
    BY <2>1
  <2> HIDE DEF before
  <2>3. IsFiniteSet(before(i)) /\ Cardinality(before(i)) \in Nat /\ Cardinality(before(i)) <= n
    BY <1>1, <2>2, NoLarger
  <2>4. Cardinality(before(i)) # 0
    BY <2>2, <2>3, FS_EmptySet
  <2> QED BY <2>1, <2>3, <2>4
<1>6. ASSUME NEW i \in D, NEW j \in D, i # j, Precedes(rs, j, i)
      PROVE  Cardinality(before(j)) < Cardinality(before(i))
  <2>1. before(j) \subseteq before(i)
    BY <1>3, <1>6
  <2>2. i \in before(i) /\ i \notin before(j)
    BY <1>4, <1>5, <1>6
  <2> HIDE DEF before
  <2>3. IsFiniteSet(before(i)) /\ Cardinality(before(i)) \in Nat
    BY <1>5
  <2>4. before(j) # before(i)
    BY <2>2
  <2> QED BY <2>1, <2>3, <2>4, FS_Subset, NoLarger
<1>7. rank \in [D -> 1 .. n] /\ \A i \in D : rank[i] = Cardinality(before(i))
  BY <1>5
<1>8. \A i \in D : \A j \in D : rank[i] = rank[j] => i = j
  <2> SUFFICES ASSUME NEW i \in D, NEW j \in D, rank[i] = rank[j], i # j PROVE FALSE
    OBVIOUS
  <2>1. rank[i] \in Int /\ rank[j] \in Int
    BY <1>7
  <2>2. rank[j] < rank[i] \/ rank[i] < rank[j]
    BY <1>4, <1>6, <1>7
  <2> HIDE DEF rank
  <2> QED BY <2>1, <2>2
<1>9. ASSUME NEW k \in D PROVE at[k] \in D /\ Cardinality(before(at[k])) = k
  <2>1. \E i \in D : rank[i] = k
    <3>1. k \in 1 .. Cardinality(D) /\ rank \in [D -> 1 .. Cardinality(D)]
      BY <1>1, <1>7
    <3> HIDE DEF rank, D
    <3> QED BY <1>1, <1>8, <3>1, EveryRank
  <2>2. \E i \in D : Cardinality(before(i)) = k
    BY <1>7, <2>1
  <2> HIDE DEF before
  <2> QED BY <2>2
<1>10. at \in [D -> D]
  BY <1>9
<1>11. DOMAIN ByScore(rs) = D /\ \A k \in D : ByScore(rs)[k] = rs[at[k]]
  BY DEF ByScore
<1>12. ASSUME NEW m \in D PROVE \E k \in D : at[k] = m
  <2>1. rank[m] \in D /\ rank[m] = Cardinality(before(m))
    BY <1>7
  <2>2. at[rank[m]] \in D /\ Cardinality(before(at[rank[m]])) = rank[m]
    BY <1>9, <2>1
  <2>3. rank[at[rank[m]]] = rank[m]
    BY <1>7, <2>2
  <2> HIDE DEF rank, at
  <2>4. at[rank[m]] = m
    BY <1>8, <2>2, <2>3
  <2> QED BY <2>1, <2>4
<1>13. ASSUME NEW k \in D, NEW j \in 1 .. k, j # k PROVE ~Better(rs[at[k]], rs[at[j]])
  <2>1. j \in D /\ j < k /\ k \in Int /\ j \in Int
    BY <1>13
  <2>2. at[k] \in D /\ at[j] \in D /\ Cardinality(before(at[k])) = k /\ Cardinality(before(at[j])) = j
    BY <1>9, <2>1
  <2> HIDE DEF at, before
  <2>3. at[k] # at[j]
    BY <2>1, <2>2
  <2>4. ~Precedes(rs, at[k], at[j])
    BY <1>6, <2>1, <2>2, <2>3
  <2> QED BY <2>4 DEF Precedes
<1> HIDE DEF at
<1> QED BY <1>10, <1>11, <1>12, <1>13 DEF SortedBy

SearchResults == [combo : SpaceRows, score : Int, oos : BOOLEAN]

\* What the report takes of the sorted results.
LEMMA RankedBest ==
  ASSUME NEW rs \in Seq(SearchResults)
  PROVE  /\ Ranked(rs) \in Seq(SearchResults) /\ Len(Ranked(rs)) = Min({TopN, Len(rs)})
         /\ \A k \in DOMAIN Ranked(rs) : \A j \in 1 .. k : j # k => ~Better(Ranked(rs)[k], Ranked(rs)[j])
         /\ \A k \in DOMAIN Ranked(rs), m \in DOMAIN rs :
              (\E j \in DOMAIN Ranked(rs) : Ranked(rs)[j] = rs[m]) \/ ~Better(rs[m], Ranked(rs)[k])
<1>1. PICK n \in Nat : n = Len(rs) /\ DOMAIN rs = 1 .. n
  OBVIOUS
<1>2. \A i \in 1 .. n : rs[i] \in SearchResults /\ rs[i].score \in Int
  <2>1. \A i \in 1 .. n : rs[i] \in SearchResults
    BY <1>1
  <2>2. \A r \in SearchResults : r.score \in Int
    BY DEF SearchResults
  <2> QED BY <2>1, <2>2
<1>3. PICK at : SortedBy(at, rs, n)
  BY <1>1, <1>2, Sorting
<1>4. PICK t \in 0 .. n : t = Min({TopN, Len(rs)})
  <2>1. TopN \in Nat /\ TopN \in Int /\ n \in Int
    BY OptimizerAssumption
  <2>2. Min({TopN, n}) = IF TopN <= n THEN TopN ELSE n
    BY <2>1, LeastOfTwo
  <2> QED BY <1>1, <2>1, <2>2
<1>5. PICK sorted : sorted = ByScore(rs)
  OBVIOUS
<1>6. PICK best : best = Ranked(rs) /\ best = SubSeq(sorted, 1, t)
  BY <1>4, <1>5 DEF Ranked
<1>7. \A k \in 1 .. t : sorted[k] \in SearchResults
  <2>1. \A k \in 1 .. t : k \in 1 .. n
    BY <1>1, <1>4
  <2> QED BY <1>2, <1>3, <1>5, <2>1 DEF SortedBy
<1>8. best \in Seq(SearchResults) /\ Len(best) = t /\ DOMAIN best = 1 .. t /\ \A k \in 1 .. t : best[k] = sorted[k]
  <2>1. /\ best \in Seq(SearchResults) /\ Len(best) = (IF 1 <= t THEN t - 1 + 1 ELSE 0)
        /\ \A k \in 1 .. t - 1 + 1 : best[k] = sorted[1 + k - 1]
    BY <1>6, <1>7, SubSeqProperties
  <2>2. t - 1 + 1 = t /\ Len(best) = t
    BY <2>1
  <2>3. ASSUME NEW k \in 1 .. t PROVE best[k] = sorted[k]
    <3>1. 1 + k - 1 = k
      OBVIOUS
    <3> QED BY <2>1, <2>2, <3>1
  <2> QED BY <2>1, <2>2, <2>3
<1>9. \A k \in 1 .. t : k \in 1 .. n /\ best[k] = rs[at[k]]
  <2>1. \A k \in 1 .. t : k \in 1 .. n
    BY <1>1, <1>4
  <2> QED BY <1>3, <1>5, <1>8, <2>1 DEF SortedBy
<1>10. ASSUME NEW k \in 1 .. t, NEW j \in 1 .. k, j # k PROVE ~Better(best[k], best[j])
  <2>1. j \in 1 .. t
    OBVIOUS
  <2> QED BY <1>3, <1>9, <1>10, <2>1 DEF SortedBy
<1>11. ASSUME NEW k \in 1 .. t, NEW m \in 1 .. n
       PROVE  (\E j \in 1 .. t : best[j] = rs[m]) \/ ~Better(rs[m], best[k])
  <2>1. PICK j \in 1 .. n : at[j] = m
    BY <1>3 DEF SortedBy
  <2>2. CASE j <= t
    <3>1. j \in 1 .. t
      BY <2>2
    <3> QED BY <1>9, <2>1, <3>1
  <2>3. CASE ~(j <= t)
    <3>1. k \in 1 .. j /\ k # j
      BY <2>3
    <3>2. ~Better(rs[at[j]], rs[at[k]])
      BY <1>3, <3>1 DEF SortedBy
    <3> QED BY <1>9, <2>1, <3>2
  <2> QED BY <2>2, <2>3
<1>12. Len(best) = Min({TopN, Len(rs)})
  BY <1>4, <1>8
<1> QED BY <1>1, <1>6, <1>8, <1>10, <1>11, <1>12

\* A result is of a backtest that ended, and no two are of one combination.
ResultsApart ==
  /\ \A j \in DOMAIN results : \E i \in (1 .. started) \ inPool : results[j].combo = combos[i]
  /\ \A j \in DOMAIN results : \A k \in DOMAIN results : j # k => results[j].combo # results[k].combo

SearchInv ==
  /\ search \in [method : {"grid", "random"}, ascending : BOOLEAN, forward : BOOLEAN]
  /\ phase \in {"draw", "run", "done"} /\ attempts \in 0 .. 10 * Samples
  /\ combos \in Seq(SpaceRows) /\ IsInjective(combos) /\ results \in Seq(SearchResults)
  /\ started \in 0 .. Len(combos) /\ inPool \subseteq 1 .. started /\ failedRuns \in Nat
  /\ Len(results) + failedRuns + Cardinality(inPool) = started
  /\ ResultsApart
  /\ phase = "draw" => started = 0
  /\ phase = "done" => started = Len(combos) /\ inPool = {} /\ top = Ranked(results)

LEMMA SamplesNat == Samples \in Nat
<1>1. PICK n \in Nat : n = Len(Grid)
  BY GridApart
<1>2. SampleSize \in Nat
  BY OptimizerAssumption
<1>3. Min({SampleSize, n}) = IF SampleSize <= n THEN SampleSize ELSE n
  <2>1. SampleSize \in Int /\ n \in Int
    BY <1>2
  <2> QED BY <2>1, LeastOfTwo
<1> QED BY <1>1, <1>2, <1>3 DEF Samples

LEMMA SearchStart == OptimizerInit => SearchInv
<1> SUFFICES ASSUME OptimizerInit PROVE SearchInv
  OBVIOUS
<1>1. combos \in Seq(SpaceRows) /\ IsInjective(combos)
  <2>1. combos = <<>> \/ combos = Grid
    BY DEF OptimizerInit
  <2>2. <<>> \in Seq(SpaceRows) /\ IsInjective(<<>>)
    BY DEF IsInjective
  <2> QED BY <2>1, <2>2, GridApart
<1>2. /\ search \in [method : {"grid", "random"}, ascending : BOOLEAN, forward : BOOLEAN]
      /\ phase \in {"draw", "run"} /\ attempts = 0 /\ inPool = {} /\ started = 0 /\ results = <<>> /\ failedRuns = 0
  BY DEF OptimizerInit
<1>3. 0 \in 0 .. 10 * Samples
  BY SamplesNat
<1>4. results \in Seq(SearchResults) /\ Len(results) = 0 /\ DOMAIN results = {}
  BY <1>2
<1>5. Cardinality(inPool) = 0 /\ 0 \in 0 .. Len(combos)
  BY <1>1, <1>2, FS_EmptySet
<1>6. ResultsApart
  BY <1>4 DEF ResultsApart
<1> QED BY <1>1, <1>2, <1>3, <1>4, <1>5, <1>6 DEF SearchInv

LEMMA PoolFinite == SearchInv => IsFiniteSet(inPool) /\ Cardinality(inPool) \in Nat
<1> SUFFICES ASSUME SearchInv PROVE IsFiniteSet(inPool) /\ Cardinality(inPool) \in Nat
  OBVIOUS
<1>1. started \in Nat /\ inPool \subseteq 1 .. started
  BY DEF SearchInv
<1>2. IsFiniteSet(1 .. started)
  BY <1>1, FS_Interval
<1> QED BY <1>1, <1>2, NoLarger

LEMMA DrawKeeps == ASSUME SearchInv, NEW c \in SpaceRows, Draw(c) PROVE SearchInv'
<1>1. /\ combos \in Seq(SpaceRows) /\ IsInjective(combos) /\ started = 0 /\ started' = started
      /\ inPool' = inPool /\ results' = results /\ failedRuns' = failedRuns
      /\ search' = search /\ phase' = phase /\ phase = "draw"
  BY DEF SearchInv, Draw
<1>2. attempts' \in 0 .. 10 * Samples
  BY SamplesNat DEF SearchInv, Draw
<1>3. combos' \in Seq(SpaceRows) /\ IsInjective(combos') /\ started \in 0 .. Len(combos')
      /\ \A i \in 1 .. started : combos'[i] = combos[i]
  <2>1. CASE Contains(combos, c)
    <3>1. combos' = combos
      BY <2>1 DEF Draw
    <3> QED BY <1>1, <3>1
  <2>2. CASE ~Contains(combos, c)
    <3>1. PICK s : s = combos'
      OBVIOUS
    <3>2. s = Append(combos, c) /\ DOMAIN combos = 1 .. Len(combos) /\ Len(combos) \in Nat
      BY <1>1, <2>2, <3>1 DEF Draw
    <3>3. /\ s \in Seq(SpaceRows) /\ DOMAIN s = 1 .. Len(combos) + 1 /\ Len(s) = Len(combos) + 1
          /\ s[Len(combos) + 1] = c /\ \A i \in 1 .. Len(combos) : s[i] = combos[i]
      BY <1>1, <3>2
    <3>4. \A i \in 1 .. Len(combos) : combos[i] # c
      BY <2>2 DEF Contains
    <3>5. \A i \in DOMAIN s : i = Len(combos) + 1 \/ i \in 1 .. Len(combos)
      BY <3>2, <3>3
    <3>6. ASSUME NEW i \in DOMAIN s, NEW j \in DOMAIN s, s[i] = s[j] PROVE i = j
      <4>1. CASE i \in 1 .. Len(combos) /\ j \in 1 .. Len(combos)
        BY <1>1, <3>2, <3>3, <3>6, <4>1 DEF IsInjective
      <4>2. CASE ~(i \in 1 .. Len(combos) /\ j \in 1 .. Len(combos))
        BY <3>3, <3>4, <3>5, <3>6, <4>2
      <4> QED BY <4>1, <4>2
    <3>7. IsInjective(s)
      BY <3>6 DEF IsInjective
    <3> QED BY <1>1, <3>1, <3>2, <3>3, <3>7
  <2> QED BY <2>1, <2>2
<1>4. ResultsApart'
  <2>1. ResultsApart
    BY DEF SearchInv
  <2> QED BY <1>1, <1>3, <2>1 DEF ResultsApart
<1> QED BY <1>1, <1>2, <1>3, <1>4 DEF SearchInv

LEMMA StartRunKeeps == ASSUME SearchInv, StartRun PROVE SearchInv'
<1>1. /\ started \in Nat /\ started < Len(combos) /\ started' = started + 1 /\ Len(combos) \in Nat
      /\ inPool \subseteq 1 .. started /\ inPool' = inPool \cup {started'} /\ phase = "run"
      /\ UNCHANGED <<search, phase, attempts, combos, results, failedRuns>>
  BY DEF SearchInv, StartRun
<1>2. started' \in 0 .. Len(combos) /\ inPool' \subseteq 1 .. started' /\ started' \notin inPool
  <2>1. \A i \in inPool : i \in 1 .. started + 1 /\ i # started + 1
    BY <1>1
  <2>2. started + 1 \in 1 .. started + 1 /\ started + 1 \in 0 .. Len(combos)
    BY <1>1
  <2> QED BY <1>1, <2>1, <2>2
<1>3. Cardinality(inPool') = Cardinality(inPool) + 1
  BY <1>1, <1>2, PoolFinite, FS_AddElement
<1>4. \A i \in (1 .. started) \ inPool : i \in (1 .. started') \ inPool'
  BY <1>1
<1>5. ResultsApart'
  <2>1. ResultsApart
    BY DEF SearchInv
  <2> QED BY <1>1, <1>4, <2>1 DEF ResultsApart
<1>6. Len(results') + failedRuns' + Cardinality(inPool') = started'
  <2>1. Len(results) + failedRuns + Cardinality(inPool) = started /\ Len(results) \in Nat /\ failedRuns \in Nat
    BY DEF SearchInv
  <2>2. Cardinality(inPool) \in Nat
    BY PoolFinite
  <2> QED BY <1>1, <1>3, <2>1, <2>2
<1> QED BY <1>1, <1>2, <1>5, <1>6 DEF SearchInv

LEMMA EndKeeps ==
  ASSUME SearchInv, NEW i \in inPool, NEW score \in Int, NEW oos \in BOOLEAN, EndRun(i, score, oos)
  PROVE  SearchInv'
<1> DEFINE r == [combo |-> combos[i], score |-> score, oos |-> oos]
<1>1. /\ started \in Nat /\ started \in 0 .. Len(combos) /\ inPool \subseteq 1 .. started /\ i \in 1 .. started
      /\ results \in Seq(SearchResults) /\ Len(results) \in Nat /\ DOMAIN results = 1 .. Len(results)
      /\ combos \in Seq(SpaceRows) /\ IsInjective(combos) /\ i \in DOMAIN combos /\ DOMAIN combos = 1 .. Len(combos)
      /\ inPool' = inPool \ {i} /\ UNCHANGED <<search, phase, attempts, combos, started, failedRuns, top>>
  BY DEF SearchInv, EndRun
<1>2. results' = Append(results, r)
  BY DEF EndRun
<1>3. r \in SearchResults /\ r.combo = combos[i]
  <2>1. combos[i] \in SpaceRows
    BY <1>1
  <2> QED BY <2>1 DEF SearchResults
<1> HIDE DEF r
<1>4. PICK s : s = results'
  OBVIOUS
<1>5. /\ s \in Seq(SearchResults) /\ Len(s) = Len(results) + 1 /\ DOMAIN s = 1 .. Len(results) + 1
      /\ s[Len(results) + 1] = r /\ \A k \in 1 .. Len(results) : s[k] = results[k]
  BY <1>1, <1>2, <1>3, <1>4
<1>6. \A k \in DOMAIN s : k = Len(results) + 1 \/ k \in DOMAIN results
  BY <1>1, <1>5
<1>7. \A j \in DOMAIN results : \E k \in (1 .. started) \ inPool : results[j].combo = combos[k]
  BY DEF SearchInv, ResultsApart
<1>8. \A j \in DOMAIN results : results[j].combo # combos[i]
  <2> SUFFICES ASSUME NEW j \in DOMAIN results, results[j].combo = combos[i] PROVE FALSE
    OBVIOUS
  <2>1. PICK k \in (1 .. started) \ inPool : results[j].combo = combos[k]
    BY <1>7
  <2>2. k \in DOMAIN combos /\ k # i
    BY <1>1, <2>1
  <2> QED BY <1>1, <2>1, <2>2 DEF IsInjective
<1>9. ASSUME NEW j \in DOMAIN s PROVE \E k \in (1 .. started) \ (inPool \ {i}) : s[j].combo = combos[k]
  <2>1. CASE j = Len(results) + 1
    <3>1. i \in (1 .. started) \ (inPool \ {i})
      BY <1>1
    <3> QED BY <1>3, <1>5, <2>1, <3>1
  <2>2. CASE j \in DOMAIN results
    BY <1>1, <1>5, <1>7, <2>2
  <2> QED BY <1>6, <2>1, <2>2
<1>10. ASSUME NEW j \in DOMAIN s, NEW k \in DOMAIN s, j # k PROVE s[j].combo # s[k].combo
  <2>1. CASE j \in DOMAIN results /\ k \in DOMAIN results
    <3>1. s[j] = results[j] /\ s[k] = results[k]
      BY <1>1, <1>5, <2>1
    <3> QED BY <1>10, <2>1, <3>1 DEF SearchInv, ResultsApart
  <2>2. CASE j = Len(results) + 1 /\ k \in DOMAIN results
    BY <1>1, <1>3, <1>5, <1>8, <2>2
  <2>3. CASE k = Len(results) + 1 /\ j \in DOMAIN results
    BY <1>1, <1>3, <1>5, <1>8, <2>3
  <2> QED BY <1>6, <1>10, <2>1, <2>2, <2>3
<1>11. ResultsApart'
  BY <1>1, <1>4, <1>9, <1>10 DEF ResultsApart
<1>12. Cardinality(inPool') = Cardinality(inPool) - 1 /\ Cardinality(inPool) \in Nat
  BY <1>1, PoolFinite, FS_RemoveElement
<1>13. Len(results') + failedRuns' + Cardinality(inPool') = started'
  <2>1. Len(results) + failedRuns + Cardinality(inPool) = started /\ failedRuns \in Nat
    BY DEF SearchInv
  <2>2. Len(results') = Len(results) + 1
    BY <1>4, <1>5
  <2> QED BY <1>1, <1>12, <2>1, <2>2
<1>14. phase # "done"
  BY DEF SearchInv
<1> QED BY <1>1, <1>4, <1>5, <1>11, <1>13, <1>14 DEF SearchInv

LEMMA FailKeeps == ASSUME SearchInv, NEW i \in inPool, RunFails(i) PROVE SearchInv'
<1>1. /\ inPool' = inPool \ {i} /\ failedRuns' = failedRuns + 1 /\ failedRuns \in Nat /\ phase # "done"
      /\ Len(results) \in Nat /\ UNCHANGED <<search, phase, attempts, combos, started, results, top>>
  BY DEF SearchInv, RunFails
<1>2. Cardinality(inPool') = Cardinality(inPool) - 1 /\ Cardinality(inPool) \in Nat
  BY <1>1, PoolFinite, FS_RemoveElement
<1>3. Len(results') + failedRuns' + Cardinality(inPool') = started'
  <2>1. Len(results) + failedRuns + Cardinality(inPool) = started
    BY DEF SearchInv
  <2> QED BY <1>1, <1>2, <2>1
<1>4. ResultsApart'
  <2>1. ResultsApart
    BY DEF SearchInv
  <2> QED BY <1>1, <2>1 DEF ResultsApart
<1> QED BY <1>1, <1>3, <1>4 DEF SearchInv

LEMMA SearchStep == SearchInv /\ [OptimizerNext]_optimizerVars => SearchInv'
<1> SUFFICES ASSUME SearchInv, [OptimizerNext]_optimizerVars PROVE SearchInv'
  OBVIOUS
<1>1. ASSUME NEW c \in Range(Grid), Draw(c) PROVE SearchInv'
  <2>1. c \in SpaceRows
    BY GridApart DEF Range
  <2> QED BY <1>1, <2>1, DrawKeeps
<1>2. CASE Drawn
  <2>1. ResultsApart'
    BY <1>2 DEF SearchInv, Drawn, ResultsApart
  <2> QED BY <1>2, <2>1 DEF SearchInv, Drawn
<1>3. CASE Report
  <2>1. ResultsApart'
    BY <1>3 DEF SearchInv, Report, ResultsApart
  <2>2. Ranked(results)' = Ranked(results)
    BY <1>3 DEF Report, Ranked, ByScore, Precedes, Better
  <2> QED BY <1>3, <2>1, <2>2 DEF SearchInv, Report
<1>4. ASSUME NEW i \in inPool, NEW s \in Scores, NEW oos \in BOOLEAN, EndRun(i, s, oos) PROVE SearchInv'
  <2>1. s \in Int
    BY OptimizerAssumption
  <2> QED BY <1>4, <2>1, EndKeeps
<1>5. CASE UNCHANGED optimizerVars
  <2>1. Ranked(results)' = Ranked(results) /\ ResultsApart'
    BY <1>5 DEF optimizerVars, Ranked, ByScore, Precedes, Better, SearchInv, ResultsApart
  <2> QED BY <1>5, <2>1 DEF optimizerVars, SearchInv
<1> QED BY <1>1, <1>2, <1>3, <1>4, <1>5, StartRunKeeps, FailKeeps DEF OptimizerNext

LEMMA SearchAgrees == SearchInv => OptimizerTypeOK /\ TopAreBest
<1> SUFFICES ASSUME SearchInv PROVE OptimizerTypeOK /\ TopAreBest
  OBVIOUS
<1>1. OptimizerTypeOK
  <2>1. inPool \subseteq 1 .. Len(combos)
    BY DEF SearchInv
  <2> QED BY <2>1 DEF OptimizerTypeOK, SearchInv
<1>2. ASSUME phase = "done"
      PROVE  /\ IsInjective(combos) /\ Len(results) + failedRuns = Len(combos)
             /\ \A i, j \in DOMAIN results : i # j => results[i].combo # results[j].combo
  <2>1. inPool = {} /\ started = Len(combos) /\ Len(results) + failedRuns + Cardinality(inPool) = started
        /\ Len(results) \in Nat /\ failedRuns \in Nat
    BY <1>2 DEF SearchInv
  <2>2. Cardinality(inPool) = 0
    BY <2>1, FS_EmptySet
  <2> QED BY <2>1, <2>2 DEF SearchInv, ResultsApart
<1>3. ASSUME phase = "done"
      PROVE  /\ Len(top) = Min({TopN, Len(results)})
             /\ \A k \in DOMAIN top : \A j \in 1 .. k : j # k => ~Better(top[k], top[j])
             /\ \A k \in DOMAIN top, m \in DOMAIN results :
                  (\E j \in DOMAIN top : top[j] = results[m]) \/ ~Better(results[m], top[k])
  BY <1>3, RankedBest DEF SearchInv
<1>4. ASSUME phase = "done", NEW i \in DOMAIN top, NEW j \in DOMAIN top, i < j PROVE ~Better(top[j], top[i])
  <2>1. top \in Seq(SearchResults)
    BY <1>4, RankedBest DEF SearchInv
  <2>2. i \in 1 .. j /\ i # j
    BY <1>4, <2>1
  <2> QED BY <1>3, <1>4, <2>2
<1>5. TopAreBest
  BY <1>2, <1>3, <1>4 DEF TopAreBest, Range
<1> QED BY <1>1, <1>5

-----------------------------------------------------------------------------
(* The components side by side.                                            *)

KeptInv ==
  /\ part = "state"    => CleanInv
  /\ part = "launcher" => LaunchInv

\* What a strategy runs on, with any number of strategies, threads, restarts and
\* failures: state it has not changed since is on disk (StateStore.save), and it
\* is given up for failures of its own only (LiveRunner._safe_run).
THEOREM StrategiesKeptHolds == Spec => []StrategiesKept
<1>1. Init => KeptInv
  BY CleanInit, LaunchInit DEF Init, KeptInv
<1>2. KeptInv /\ [Next]_vars => KeptInv'
  <2> SUFFICES ASSUME KeptInv, [Next]_vars PROVE KeptInv'
    OBVIOUS
  <2>1. part' = part
    BY DEF Next, vars
  <2>2. part = "state" => [StateNext]_stateVars
    BY DEF Next, vars
  <2>3. part = "launcher" => [LauncherNext]_launchVars
    BY DEF Next, vars
  <2> QED
    BY <2>1, <2>2, <2>3, CleanStep, LaunchStep DEF KeptInv
<1>3. CleanInv => CleanIsSaved
  BY DEF CleanInv
<1>4. KeptInv => StrategiesKept
  BY <1>3, LaunchGivesUpAlone DEF KeptInv, StrategiesKept
<1> QED
  BY <1>1, <1>2, <1>4, PTL DEF Spec

TrueInv(p) ==
  /\ part = "cache"   => ZoneInv
  /\ part = "derived" => BucketInv(p)

\* Bars out of the gateway's caches are the source's, for any number of bars and
\* requests, wherever a request is cancelled: all in one time zone, and a derived
\* bar is the aggregate of its base bars where one loop reads them, as that of
\* the terminal does (market_sources/bar_aggregator.py).
THEOREM CacheTrueHolds ==
  ASSUME NEW p, Paths = {p}
  PROVE  Spec => []CacheTrue
<1>1. Init => TrueInv(p)
  BY ZoneInit, BucketInit DEF Init, TrueInv
<1>2. TrueInv(p) /\ [Next]_vars => TrueInv(p)'
  <2> SUFFICES ASSUME TrueInv(p), [Next]_vars PROVE TrueInv(p)'
    OBVIOUS
  <2>1. part' = part
    BY DEF Next, vars
  <2>2. part = "cache" => [CacheNext]_cacheVars
    BY DEF Next, vars
  <2>3. part = "derived" => [DerivedNext]_derivedVars
    BY DEF Next, vars
  <2> QED
    BY <2>1, <2>2, <2>3, ZoneStep, BucketStep DEF TrueInv
<1>3. ZoneInv => OneZone
  BY DEF ZoneInv, OneZone, Bars
<1>4. TrueInv(p) => CacheTrue
  BY <1>3, BucketAggregates DEF TrueInv, CacheTrue
<1> QED
  BY <1>1, <1>2, <1>4, PTL DEF Spec

PacedInv ==
  /\ part = "signal" => SignalInv
  /\ part = "alert"  => AlertInv

\* With any rules, feeds, coroutines and channels: a rule signals once per
\* cooldown (SignalEngine.on_indicator_update), and a channel sends no more than
\* its limit and one for each other coroutine in any minute
\* (NotificationChannel.send), although the limit is read before an await and
\* the count is raised after it.
THEOREM SignalsPacedHolds == Spec => []SignalsPaced
<1>1. Init => PacedInv
  BY SignalStart, AlertStart DEF Init, PacedInv
<1>2. PacedInv /\ [Next]_vars => PacedInv'
  <2> SUFFICES ASSUME PacedInv, [Next]_vars PROVE PacedInv'
    OBVIOUS
  <2>1. part' = part
    BY DEF Next, vars
  <2>2. part = "signal" => [SignalNext]_signalVars
    BY DEF Next, vars
  <2>3. part = "alert" => [AlertNext]_alertVars
    BY DEF Next, vars
  <2> QED
    BY <2>1, <2>2, <2>3, SignalStep, AlertStep DEF PacedInv
<1>3. PacedInv => SignalsPaced
  BY DEF PacedInv, SignalInv, AlertInv, SignalsPaced
<1> QED
  BY <1>1, <1>2, <1>3, PTL DEF Spec

DataInv ==
  /\ part = "stream" => ServedInv
  /\ part = "market" => MarketInv
  /\ part = "batch"  => RowInv /\ NewestInv

\* Market data goes through whole, with any streams, minutes, prices, writers and
\* failures: what is subscribed is served by the socket (base.py: _ws_loop), what
\* is stored of a bar that is over is true of it (MarketEngine._process_kline),
\* and no row is lost or overwritten by an older one on its way to the table
\* (BatchWriter.flush).
THEOREM MarketDataTrueHolds == Spec => []MarketDataTrue
<1>1. Init => DataInv
  BY ServedStart, MarketStart, RowInit, NewestStart DEF Init, DataInv
<1>2. DataInv /\ [Next]_vars => DataInv'
  <2> SUFFICES ASSUME DataInv, [Next]_vars PROVE DataInv'
    OBVIOUS
  <2>1. part' = part
    BY DEF Next, vars
  <2>2. part = "stream" => [StreamNext]_streamVars
    BY DEF Next, vars
  <2>3. part = "market" => [MarketNext]_marketVars
    BY DEF Next, vars
  <2>4. part = "batch" => [BatchNext]_batchVars
    BY DEF Next, vars
  <2> QED
    BY <2>1, <2>2, <2>3, <2>4, ServedStep, MarketStep, RowStep, NewestStep, BatchAssumption DEF DataInv
<1>3. DataInv => MarketDataTrue
  BY ServedIsEnough, RowsAreKept DEF DataInv, MarketInv, MarketDataTrue
<1> QED
  BY <1>1, <1>2, <1>3, PTL DEF Spec
================================================================================
