---------------------------- MODULE Gateway_proofs -----------------------------
(***************************************************************************)
(* The services of the gateway and the backtest beside them, for any       *)
(* number of callers, faults, snapshots, workers and bars: an answer of    *)
(* the terminal driver belongs to its call, the volume of the A-share loop *)
(* is counted once, and an order of a lock-step backtest is filled at the  *)
(* step its strategy was woken for. Each component has its own theorem;    *)
(* MCGateway runs one of them while the others stand still, and the last   *)
(* theorem has the types of all of them.                                   *)
(***************************************************************************)
EXTENDS MCGateway, FiniteSetTheorems, TLAPS

-----------------------------------------------------------------------------
(* The terminal driver.                                                    *)

\* What the pipe may hold at every place of the holder of the lock: the one
\* request that waits for its answer, or the one answer, and nothing while no
\* call is between its send and its end. A worker that died leaves the pipe as
\* it is until a kill closes it.
OneInPipe(r) == (down = <<r>> /\ up = <<>>) \/ (down = <<>> /\ up = <<r>>)

PipeInv ==
  /\ holder \in Callers \cup {NoOne} /\ at \in Steps
  /\ holder = NoOne <=> at = "out"
  /\ calls \in Nat
  /\ asked \in [Callers -> Nat] /\ got \in [Callers -> Nat]
  /\ live \in BOOLEAN /\ cool \in BOOLEAN
  /\ orphans = 0
  /\ at \in {"out", "ensure", "send"} => down = <<>> /\ up = <<>>
  /\ at \in {"startCall", "startOnly"} => OneInPipe(None)
  /\ at = "wait" => OneInPipe(asked[holder])
  /\ \A c \in Callers : got[c] \in {None, asked[c]}

\* Sequences of at most one element, as the pipe has them.
LEMMA OneElement ==
  ASSUME NEW r
  PROVE  /\ Append(<<>>, r) = <<r>> /\ Head(<<r>>) = r /\ Tail(<<r>>) = <<>>
         /\ <<r>> # <<>>
  OBVIOUS

LEMMA NoneType == None \in Nat
  BY DEF None

\* A new worker has a new pipe with the initialize request in it.
LEMMA SpawnEffect ==
  ASSUME orphans = 0, Spawn(FALSE)
  PROVE  orphans' = 0 /\ live' = TRUE /\ OneInPipe(None)'
  BY NoneType DEF Spawn, OneInPipe

\* The worker turns the one request into the one answer.
LEMMA AnswerEffect ==
  ASSUME NEW r, OneInPipe(r), WorkerAnswers
  PROVE  OneInPipe(r)'
<1>1. down = <<r>> /\ up = <<>>
  BY DEF OneInPipe, WorkerAnswers
<1>2. down' = <<>> /\ up' = <<r>>
  BY <1>1, OneElement DEF WorkerAnswers
<1> QED
  BY <1>2 DEF OneInPipe

LEMMA PipeInit == DriverInit => PipeInv
<1> SUFFICES ASSUME DriverInit PROVE PipeInv
  OBVIOUS
<1> QED
  BY NoneType DEF DriverInit, PipeInv, Steps

\* Whatever a step does, it keeps what each place of the lock's holder knows of
\* the pipe (Mt5Api._call).
LEMMA PipeStep == PipeInv /\ [DriverNext]_driverVars => PipeInv'
<1> SUFFICES ASSUME PipeInv, [DriverNext]_driverVars PROVE PipeInv'
  OBVIOUS
<1> USE CallersAssumption, OneElement, NoneType DEF PipeInv, Steps
<1>1. ASSUME NEW c \in Callers, Enter(c) PROVE PipeInv'
  BY <1>1 DEF Enter, SameWorker, OneInPipe
<1>2. ASSUME NEW c \in Callers, Ensure(c) PROVE PipeInv'
  <2>1. CASE live /\ Goto("send") /\ SameWorker /\ UNCHANGED cool
    BY <1>2, <2>1 DEF Ensure, Goto, SameWorker, OneInPipe
  <2>2. CASE ~live /\ ~cool /\ Kill /\ Return(c, None) /\ UNCHANGED cool
    BY <1>2, <2>2 DEF Ensure, Kill, Return, OneInPipe
  <2>3. CASE ~live /\ cool /\ cool' = FALSE /\ Spawn(FALSE) /\ Goto("startCall")
    BY <1>2, <2>3, SpawnEffect DEF Ensure, Goto
  <2> QED
    BY <1>2, <2>1, <2>2, <2>3 DEF Ensure
<1>3. ASSUME NEW c \in Callers, Started(c) PROVE PipeInv'
  BY <1>3 DEF Started, Goto, Return, OneInPipe
<1>4. ASSUME NEW c \in Callers, StartFails(c) PROVE PipeInv'
  BY <1>4 DEF StartFails, Kill, Return, OneInPipe
<1>5. ASSUME NEW c \in Callers, Send(c) PROVE PipeInv'
  BY <1>5 DEF Send, Goto, OneInPipe
<1>6. ASSUME NEW c \in Callers, Answered(c) PROVE PipeInv'
  BY <1>6 DEF Answered, Return, OneInPipe
<1>7. ASSUME NEW c \in Callers, GiveUp(c) PROVE PipeInv'
  <2>1. CASE Spawn(FALSE) /\ cool' = FALSE /\ Goto("startOnly")
    BY <1>7, <2>1, SpawnEffect DEF GiveUp, Goto
  <2>2. CASE Kill /\ Return(c, None) /\ UNCHANGED cool
    BY <1>7, <2>2 DEF GiveUp, Kill, Return, OneInPipe
  <2> QED
    BY <1>7, <2>1, <2>2 DEF GiveUp
<1>8. ASSUME NEW c \in Callers, Initialize(c) PROVE PipeInv'
  <2>1. CASE live
    BY <1>8, <2>1 DEF Initialize, SameWorker, OneInPipe
  <2>2. CASE ~live
    BY <1>8, <2>2, SpawnEffect DEF Initialize
  <2> QED
    BY <2>1, <2>2
<1>9. ASSUME NEW c \in Callers, Connect(c) PROVE PipeInv'
  BY <1>9, SpawnEffect DEF Connect
<1>10. CASE Shutdown
  BY <1>10 DEF Shutdown, Kill, OneInPipe
<1>11. CASE WorkerAnswers
  <2>1. at \in {"startCall", "startOnly"} => OneInPipe(None)'
    BY <1>11, AnswerEffect
  <2>2. at = "wait" => OneInPipe(asked[holder])'
    BY <1>11, AnswerEffect DEF WorkerAnswers
  <2>3. at \notin {"out", "ensure", "send"}
    BY <1>11 DEF WorkerAnswers
  <2> QED
    BY <1>11, <2>1, <2>2, <2>3 DEF WorkerAnswers
<1>12. CASE WorkerFails
  BY <1>12 DEF WorkerFails, OneInPipe
<1>13. CASE CooldownPasses
  BY <1>13 DEF CooldownPasses, OneInPipe
<1>14. CASE UNCHANGED driverVars
  BY <1>14 DEF driverVars, OneInPipe
<1> QED
  BY <1>1, <1>2, <1>3, <1>4, <1>5, <1>6, <1>7, <1>8, <1>9, <1>10, <1>11, <1>12,
     <1>13, <1>14 DEF DriverNext, CallStep

\* A call of the driver returns the answer to its own request or none, and one
\* worker at most is on the terminal, however calls, timeouts, deaths and
\* restarts of the worker interleave (Mt5Api._call).
THEOREM OwnAnswersHolds == DriverSpec => []OwnAnswers
<1>1. PipeInv => OwnAnswers
  BY DEF PipeInv, OwnAnswers
<1> QED
  BY PipeInit, PipeStep, <1>1, PTL DEF DriverSpec

-----------------------------------------------------------------------------
(* The volume of the A-share loop.                                         *)

\* What the bars have of the day is bounded by the last snapshot that was
\* applied, or, before the first one, by the snapshot in hand; and snapshots
\* grow with the day.
VolumeInv ==
  /\ traded \in Nat /\ snapshot \in Nat /\ m1 \in Nat /\ lastCum \in Nat /\ overlap \in Nat
  /\ seeded \in BOOLEAN /\ loop \in {"out", "poll", "seed", "apply"}
  /\ lastCum <= snapshot /\ snapshot <= traded
  /\ ~seeded => loop \in {"out", "poll"} /\ m1 = 0 /\ overlap = 0
  /\ loop = "seed" => m1 = 0 /\ overlap = 0 /\ lastCum = 0
  /\ m1 <= lastCum + overlap \/ (loop = "apply" /\ lastCum = 0 /\ m1 <= snapshot + overlap)

LEMMA VolumeInit == ThsInit => VolumeInv
<1> SUFFICES ASSUME ThsInit PROVE VolumeInv
  OBVIOUS
<1>1. lastCum <= snapshot /\ snapshot <= traded /\ m1 <= lastCum + overlap
  BY DEF ThsInit
<1> QED
  BY <1>1 DEF ThsInit, VolumeInv

\* Every step keeps the bound: only the seed and the difference of two
\* snapshots add volume (_update_symbol, _seed_today).
LEMMA VolumeStep == VolumeInv /\ [ThsNext]_thsVars => VolumeInv'
<1> SUFFICES ASSUME VolumeInv, [ThsNext]_thsVars PROVE VolumeInv'
  OBVIOUS
<1> USE DEF VolumeInv
<1>1. CASE ThsTrade
  BY <1>1 DEF ThsTrade
<1>2. CASE SessionBreaks \/ ThsConnect \/ ReconnectCools \/ OtherCallDrops
  BY <1>2 DEF SessionBreaks, ThsConnect, ReconnectCools, OtherCallDrops
<1>3. CASE BeginPoll
  BY <1>3 DEF BeginPoll
<1>4. CASE Snapshot
  BY <1>4 DEF Snapshot
<1>5. CASE SnapshotFails
  BY <1>5 DEF SnapshotFails
<1>6. CASE Seed
  BY <1>6 DEF Seed
<1>7. CASE ApplySnapshot
  BY <1>7 DEF ApplySnapshot
<1>8. CASE RestartThsLoop
  BY <1>8 DEF RestartThsLoop
<1>9. CASE UNCHANGED thsVars
  BY <1>9 DEF thsVars
<1> QED
  BY <1>1, <1>2, <1>3, <1>4, <1>5, <1>6, <1>7, <1>8, <1>9 DEF ThsNext, ThsLoopStep

\* The bars of the day never have more volume than was traded, but for what was
\* traded between the first snapshot and the seed (_update_symbol).
THEOREM VolumeCountedOnceHolds == ThsSpec => []VolumeCountedOnce
<1>1. VolumeInv => VolumeCountedOnce
  BY DEF VolumeInv, VolumeCountedOnce
<1> QED
  BY VolumeInit, VolumeStep, <1>1, PTL DEF ThsSpec

-----------------------------------------------------------------------------
(* The hand-over of the steps of a backtest.                               *)

\* While the pump waits for acknowledgements a worker has the step in its
\* queue, or at work, or has acknowledged it: one of the three.
Queued(w)  == gates[w].events = <<step>> /\ gates[w].acks = 0 /\ thread[w] \in {"new", "gate"}
AtWork(w)  == /\ gates[w].events = <<>> /\ gates[w].acks = 0
              /\ thread[w] \in {"works", "fills"} /\ seenStep[w] = step
Acked(w)   == gates[w].events = <<>> /\ gates[w].acks = 1 /\ thread[w] = "gate"
Waiting(w) == gates[w].events = <<>> /\ gates[w].acks = 0 /\ thread[w] \in {"new", "gate"}
Ending(w)  == (gates[w].events = <<Terminate>> /\ thread[w] = "gate") \/ thread[w] = "over"

GateType == [events : Seq(Nat), acks : Nat, started : BOOLEAN]

LockstepInv ==
  /\ pump \in {"idle", "acks", "join", "done"}
  /\ step \in Nat /\ (pump = "acks" => step # Terminate)
  /\ gates \in [Workers -> GateType]
  /\ thread \in [Workers -> {"new", "gate", "works", "fills", "over"}]
  /\ seenStep \in [Workers -> Nat]
  /\ lastFill \in [Workers -> [step : Nat, seen : Nat]]
  /\ \A w \in Workers : gates[w].started <=> thread[w] # "new"
  /\ pump = "idle" => \A w \in Workers : Waiting(w)
  /\ pump = "acks" => \A w \in Workers : Queued(w) \/ AtWork(w) \/ Acked(w)
  /\ pump \in {"join", "done"} => \A w \in Workers : Ending(w)
  /\ FilledAtSeenBar

LEMMA TerminateType == Terminate \in Nat
  BY DEF Terminate

LEMMA QueueOfOne ==
  ASSUME NEW e \in Nat
  PROVE  /\ <<>> \in Seq(Nat) /\ <<e>> \in Seq(Nat) /\ <<e>> # <<>>
         /\ Append(<<>>, e) = <<e>> /\ Head(<<e>>) = e /\ Tail(<<e>>) = <<>>
  OBVIOUS

\* What publishing and acknowledging make of a gate.
LEMMA OnePublished ==
  ASSUME NEW g \in GateType, NEW e \in Nat, g.events = <<>>, g.acks = 1
  PROVE  LET h == [g EXCEPT !.acks = g.acks - 1, !.events = Append(g.events, e)]
         IN h \in GateType /\ h.events = <<e>> /\ h.acks = 0 /\ h.started = g.started
<1>1. g.acks - 1 = 0 /\ 0 \in Nat
  OBVIOUS
<1>2. Append(g.events, e) = <<e>> /\ <<e>> \in Seq(Nat)
  BY QueueOfOne
<1> DEFINE q == <<e>>
           h == [g EXCEPT !.acks = 0, !.events = q]
<1>3. [g EXCEPT !.acks = g.acks - 1, !.events = Append(g.events, e)] = h
  BY <1>1, <1>2
<1>4. q \in Seq(Nat)
  BY <1>2
<1>5. h \in GateType /\ h.events = q /\ h.acks = 0 /\ h.started = g.started
  <2> HIDE DEF q
  <2> QED
    BY <1>1, <1>4 DEF GateType
<1> HIDE DEF h
<1> QED
  BY <1>3, <1>5

LEMMA AllPublished ==
  ASSUME gates \in [Workers -> GateType], NEW e \in Nat,
         \A w \in Workers : gates[w].events = <<>> /\ gates[w].acks = 1,
         gates' = [w \in Workers |-> [gates[w] EXCEPT !.acks = @ - 1, !.events = Append(@, e)]]
  PROVE  /\ gates' \in [Workers -> GateType]
         /\ \A w \in Workers : gates'[w].events = <<e>> /\ gates'[w].acks = 0
                               /\ gates'[w].started = gates[w].started
<1> DEFINE h(w) == [gates[w] EXCEPT !.acks = gates[w].acks - 1,
                                    !.events = Append(gates[w].events, e)]
<1>1. ASSUME NEW w \in Workers
      PROVE  h(w) \in GateType /\ h(w).events = <<e>> /\ h(w).acks = 0
             /\ h(w).started = gates[w].started
  BY OnePublished
<1>2. gates' = [w \in Workers |-> h(w)]
  OBVIOUS
<1> HIDE DEF h
<1> QED
  BY <1>1, <1>2

\* The same for the first step, which nobody has to acknowledge one before.
LEMMA QueueSet ==
  ASSUME NEW g \in GateType, NEW q \in Seq(Nat)
  PROVE  LET h == [g EXCEPT !.events = q]
         IN h \in GateType /\ h.events = q /\ h.acks = g.acks /\ h.started = g.started
  BY DEF GateType

LEMMA FirstPublished ==
  ASSUME gates \in [Workers -> GateType], NEW e \in Nat,
         \A w \in Workers : gates[w].events = <<>>,
         gates' = [w \in Workers |-> [gates[w] EXCEPT !.events = Append(@, e)]]
  PROVE  /\ gates' \in [Workers -> GateType]
         /\ \A w \in Workers : gates'[w].events = <<e>> /\ gates'[w].acks = gates[w].acks
                               /\ gates'[w].started = gates[w].started
<1> DEFINE q == <<e>>
           h(w) == [gates[w] EXCEPT !.events = q]
<1>1. q \in Seq(Nat) /\ Append(<<>>, e) = q
  BY QueueOfOne
<1>2. gates' = [w \in Workers |-> h(w)]
  BY <1>1
<1> HIDE DEF q
<1>3. ASSUME NEW w \in Workers
      PROVE  h(w) \in GateType /\ h(w).events = q /\ h(w).acks = gates[w].acks
             /\ h(w).started = gates[w].started
  <2>1. gates[w] \in GateType /\ q \in Seq(Nat)
    BY <1>1
  <2> QED
    BY <2>1, QueueSet
<1> HIDE DEF h
<1>4. /\ gates' \in [Workers -> GateType]
      /\ \A w \in Workers : gates'[w].events = q /\ gates'[w].acks = gates[w].acks
                            /\ gates'[w].started = gates[w].started
  BY <1>2, <1>3
<1> QED
  BY <1>4 DEF q

\* One event is taken from one gate.
LEMMA EventTaken ==
  ASSUME gates \in [Workers -> GateType], NEW w \in Workers, NEW e \in Nat,
         gates[w].events = <<e>>, gates' = [gates EXCEPT ![w].events = Tail(@)]
  PROVE  /\ gates' \in [Workers -> GateType] /\ Head(gates[w].events) = e
         /\ gates'[w].events = <<>> /\ gates'[w].acks = gates[w].acks
         /\ gates'[w].started = gates[w].started
         /\ \A v \in Workers \ {w} : gates'[v] = gates[v]
<1> DEFINE q == Tail(gates[w].events)
           h == [gates[w] EXCEPT !.events = q]
<1>1. q = <<>> /\ q \in Seq(Nat) /\ Head(gates[w].events) = e
  BY QueueOfOne
<1>2. gates' = [gates EXCEPT ![w] = h]
  OBVIOUS
<1> HIDE DEF q
<1>3. h \in GateType /\ h.events = q /\ h.acks = gates[w].acks /\ h.started = gates[w].started
  BY <1>1, QueueSet
<1> HIDE DEF h
<1>4. gates'[w] = h /\ gates' \in [Workers -> GateType]
      /\ \A v \in Workers \ {w} : gates'[v] = gates[v]
  BY <1>2, <1>3
<1> QED
  BY <1>1, <1>3, <1>4

LEMMA GateReached ==
  ASSUME NEW g \in GateType, NEW a \in Nat
  PROVE  LET h == [g EXCEPT !.started = TRUE, !.acks = a]
         IN h \in GateType /\ h.events = g.events /\ h.acks = a /\ h.started = TRUE
  BY DEF GateType

LEMMA LockstepInit == BacktestInit => LockstepInv
<1> SUFFICES ASSUME BacktestInit PROVE LockstepInv
  OBVIOUS
<1>1. gates \in [Workers -> GateType]
  BY DEF BacktestInit, GateType
<1>2. lastFill \in [Workers -> [step : Nat, seen : Nat]] /\ FilledAtSeenBar
  BY DEF BacktestInit, FilledAtSeenBar
<1> QED
  BY <1>1, <1>2 DEF BacktestInit, LockstepInv, Waiting

\* A worker comes back to its gate from a step, or for the first time.
LEMMA GateKeeps ==
  ASSUME LockstepInv, NEW w \in Workers, thread[w] \in {"new", "works"}, ToGate(w),
         UNCHANGED <<pump, step, seenStep, lastFill>>
  PROVE  LockstepInv'
<1> USE DEF LockstepInv
<1>1. /\ gates' \in [Workers -> GateType] /\ thread' = [thread EXCEPT ![w] = "gate"]
      /\ gates'[w].started = TRUE /\ gates'[w].events = gates[w].events
      /\ gates'[w].acks = gates[w].acks + (IF thread[w] = "works" THEN 1 ELSE 0)
      /\ \A v \in Workers \ {w} : gates'[v] = gates[v]
  <2>1. gates[w] \in GateType /\ (gates[w].started <=> thread[w] = "works")
    OBVIOUS
  <2> DEFINE a == IF gates[w].started THEN gates[w].acks + 1 ELSE gates[w].acks
             h == [gates[w] EXCEPT !.started = TRUE, !.acks = a]
  <2>a. a \in Nat
    BY <2>1 DEF GateType
  <2>h. h \in GateType /\ h.events = gates[w].events /\ h.acks = a /\ h.started = TRUE
    <3> HIDE DEF a
    <3> QED
      BY <2>1, <2>a, GateReached
  <2>g. gates' = [gates EXCEPT ![w] = h]
    BY DEF ToGate
  <2>2. /\ gates'[w].started = TRUE /\ gates'[w].events = gates[w].events
        /\ gates'[w].acks = a
        /\ \A v \in Workers \ {w} : gates'[v] = gates[v]
    <3> HIDE DEF h, a
    <3> QED
      BY <2>h, <2>g
  <2>3. gates' \in [Workers -> GateType]
    <3> HIDE DEF h, a
    <3> QED
      BY <2>h, <2>g
  <2>4. thread' = [thread EXCEPT ![w] = "gate"]
    BY DEF ToGate
  <2> QED
    BY <2>1, <2>2, <2>3, <2>4 DEF GateType
<1>2. \A v \in Workers : gates'[v].started <=> thread'[v] # "new"
  BY <1>1
<1>3. pump = "idle" => \A v \in Workers : Waiting(v)'
  BY <1>1 DEF Waiting
<1>4. pump = "acks" => \A v \in Workers : (Queued(v) \/ AtWork(v) \/ Acked(v))'
  BY <1>1 DEF Queued, AtWork, Acked
<1>5. pump \in {"join", "done"} => \A v \in Workers : Ending(v)'
  BY <1>1 DEF Ending
<1> QED
  BY <1>1, <1>2, <1>3, <1>4, <1>5 DEF FilledAtSeenBar

LEMMA TakeEventKeeps ==
  ASSUME LockstepInv, NEW w \in Workers, TakeEvent(w)
  PROVE  LockstepInv'
<1> USE DEF LockstepInv
<1>1. /\ thread[w] = "gate" /\ gates[w].events # <<>> /\ UNCHANGED <<pump, step, lastFill>>
      /\ gates' = [gates EXCEPT ![w].events = Tail(@)]
  BY DEF TakeEvent, executorVars
<1>2. CASE pump = "acks"
  <2>1. gates[w].events = <<step>> /\ gates[w].acks = 0
    BY <1>1, <1>2 DEF Queued, AtWork, Acked
  <2>2. /\ Head(gates[w].events) = step /\ step # Terminate
        /\ gates'[w].events = <<>> /\ gates'[w].acks = 0 /\ gates'[w].started = gates[w].started
        /\ \A v \in Workers \ {w} : gates'[v] = gates[v]
        /\ gates' \in [Workers -> GateType]
    BY <1>1, <1>2, <2>1, EventTaken
  <2>3. /\ thread' = [thread EXCEPT ![w] = "works"]
        /\ seenStep' = [seenStep EXCEPT ![w] = step]
    BY <2>2 DEF TakeEvent
  <2>4. \A v \in Workers : (Queued(v) \/ AtWork(v) \/ Acked(v))'
    BY <1>1, <1>2, <2>2, <2>3 DEF Queued, AtWork, Acked
  <2> QED
    BY <1>1, <1>2, <2>2, <2>3, <2>4 DEF FilledAtSeenBar
<1>3. CASE pump \in {"join", "done"}
  <2>1. gates[w].events = <<Terminate>>
    BY <1>1, <1>3 DEF Ending
  <2>2. /\ Head(gates[w].events) = Terminate
        /\ gates'[w].events = <<>> /\ gates'[w].started = gates[w].started
        /\ \A v \in Workers \ {w} : gates'[v] = gates[v]
        /\ gates' \in [Workers -> GateType]
    BY <1>1, <2>1, EventTaken, TerminateType
  <2>3. thread' = [thread EXCEPT ![w] = "over"] /\ UNCHANGED seenStep
    BY <2>2 DEF TakeEvent
  <2>4. \A v \in Workers : Ending(v)'
    BY <1>3, <2>2, <2>3 DEF Ending
  <2> QED
    BY <1>1, <1>3, <2>2, <2>3, <2>4 DEF FilledAtSeenBar
<1>4. CASE pump = "idle"
  BY <1>1, <1>4 DEF Waiting
<1> QED
  BY <1>2, <1>3, <1>4

\* An order is sent at work only, and at work only while the pump waits.
LEMMA SubmitKeeps ==
  ASSUME LockstepInv, NEW w \in Workers, NEW side, NEW qty, Submit(w, side, qty)
  PROVE  LockstepInv'
<1> USE DEF LockstepInv
<1>1. /\ thread[w] = "works" /\ UNCHANGED <<pump, step, gates, seenStep>>
      /\ thread' = [thread EXCEPT ![w] = "fills"]
      /\ lastFill' = [lastFill EXCEPT ![w] = [step |-> step, seen |-> seenStep[w]]]
  BY DEF Submit
<1>2. pump = "acks" /\ AtWork(w)
  BY <1>1 DEF Waiting, Ending, Queued, Acked
<1>3. \A v \in Workers : (Queued(v) \/ AtWork(v) \/ Acked(v))'
  BY <1>1, <1>2 DEF Queued, AtWork, Acked
<1>4. FilledAtSeenBar'
  BY <1>1, <1>2 DEF FilledAtSeenBar, AtWork
<1>5. lastFill' \in [Workers -> [step : Nat, seen : Nat]]
  BY <1>1
<1> QED
  BY <1>1, <1>2, <1>3, <1>4, <1>5

LEMMA FillKeeps ==
  ASSUME LockstepInv, NEW w \in Workers, ApplyFill(w)
  PROVE  LockstepInv'
<1> USE DEF LockstepInv
<1>1. /\ thread[w] = "fills" /\ UNCHANGED <<pump, step, gates, seenStep, lastFill>>
      /\ thread' = [thread EXCEPT ![w] = "works"]
  BY DEF ApplyFill
<1>2. pump = "acks" /\ AtWork(w)
  BY <1>1 DEF Waiting, Ending, Queued, Acked
<1>3. \A v \in Workers : (Queued(v) \/ AtWork(v) \/ Acked(v))'
  BY <1>1, <1>2 DEF Queued, AtWork, Acked
<1> QED
  BY <1>1, <1>2, <1>3 DEF FilledAtSeenBar

\* A gate that counts an acknowledgement has nothing queued or at work.
LEMMA AllAcked ==
  ASSUME LockstepInv, pump = "acks", \A w \in Workers : gates[w].acks > 0
  PROVE  \A w \in Workers : Acked(w)
<1> SUFFICES ASSUME NEW w \in Workers PROVE Acked(w)
  OBVIOUS
<1>1. gates[w].acks # 0
  OBVIOUS
<1>2. Queued(w) \/ AtWork(w) \/ Acked(w)
  BY DEF LockstepInv
<1> QED
  BY <1>1, <1>2 DEF Queued, AtWork

\* The next step is published when all workers have acknowledged the last.
LEMMA PublishKeeps ==
  ASSUME LockstepInv, StartPump \/ Advance
  PROVE  LockstepInv'
<1> USE DEF LockstepInv
<1>1. UNCHANGED <<thread, seenStep, lastFill>>
  BY DEF StartPump, Advance, threadVars, executorVars
<1>2. \A w \in Workers : gates[w].events = <<>> /\ thread[w] \in {"new", "gate"}
                         /\ (pump = "acks" => thread[w] = "gate")
  <2>1. CASE pump = "idle"
    BY <2>1 DEF Waiting
  <2>2. CASE Advance
    <3>1. pump = "acks" /\ \A w \in Workers : gates[w].acks > 0
      BY <2>2 DEF Advance
    <3>2. \A w \in Workers : Acked(w)
      BY <3>1, AllAcked
    <3> HIDE DEF LockstepInv
    <3> QED
      BY <3>1, <3>2 DEF Acked
  <2> QED
    BY <2>1, <2>2 DEF StartPump
<1>3. CASE StartPump
  <2>1. /\ pump = "idle" /\ pump' = "acks" /\ step' = step + 1
        /\ gates' = [w \in Workers |-> [gates[w] EXCEPT !.events = Append(@, step')]]
    BY <1>3 DEF StartPump, Reveal
  <2>2. step' \in Nat /\ step' # Terminate
    BY <2>1 DEF Terminate
  <2>4. /\ gates' \in [Workers -> GateType]
        /\ \A w \in Workers : gates'[w].events = <<step'>> /\ gates'[w].acks = gates[w].acks
                              /\ gates'[w].started = gates[w].started
    BY <1>2, <2>1, <2>2, FirstPublished
  <2>5. \A w \in Workers : Queued(w)'
    BY <1>1, <1>2, <2>1, <2>4 DEF Queued, Waiting
  <2> QED
    BY <1>1, <2>1, <2>2, <2>4, <2>5 DEF FilledAtSeenBar
<1>4. CASE Advance /\ step < Len(Timeline)
  <2>1. /\ pump = "acks" /\ pump' = "acks" /\ step' = step + 1
        /\ gates' = [w \in Workers |->
                       [gates[w] EXCEPT !.acks = @ - 1, !.events = Append(@, step')]]
        /\ \A w \in Workers : gates[w].acks = 1
    <3>1. pump = "acks" /\ \A w \in Workers : gates[w].acks > 0
      BY <1>4 DEF Advance
    <3>2. \A w \in Workers : gates[w].acks = 1
      BY <3>1, AllAcked DEF Acked
    <3> QED
      BY <1>4, <3>1, <3>2 DEF Advance, Reveal
  <2>2. step' \in Nat /\ step' # Terminate
    <3>1. step' = step + 1 /\ step \in Nat
      BY <2>1
    <3> QED
      BY <3>1 DEF Terminate
  <2>4. /\ gates' \in [Workers -> GateType]
        /\ \A w \in Workers : gates'[w].events = <<step'>> /\ gates'[w].acks = 0
                              /\ gates'[w].started = gates[w].started
    BY <1>2, <2>1, <2>2, AllPublished
  <2>5. \A w \in Workers : Queued(w)'
    BY <1>1, <1>2, <2>1, <2>4 DEF Queued
  <2> QED
    BY <1>1, <2>1, <2>2, <2>4, <2>5 DEF FilledAtSeenBar
<1>5. CASE Advance /\ ~(step < Len(Timeline))
  <2>1. /\ pump = "acks" /\ pump' = "join" /\ step' = step
        /\ gates' = [w \in Workers |->
                       [gates[w] EXCEPT !.acks = @ - 1, !.events = Append(@, Terminate)]]
        /\ \A w \in Workers : gates[w].acks = 1
    <3>1. pump = "acks" /\ \A w \in Workers : gates[w].acks > 0
      BY <1>5 DEF Advance
    <3>2. \A w \in Workers : gates[w].acks = 1
      BY <3>1, AllAcked DEF Acked
    <3> QED
      BY <1>5, <3>1, <3>2 DEF Advance
  <2>2. \A w \in Workers : Append(gates[w].events, Terminate) = <<Terminate>>
                           /\ <<Terminate>> \in Seq(Nat)
    BY <1>2, QueueOfOne, TerminateType
  <2>3. /\ gates' \in [Workers -> GateType]
        /\ \A w \in Workers : gates'[w].events = <<Terminate>>
                              /\ gates'[w].started = gates[w].started
    BY <1>2, <2>1, TerminateType, AllPublished
  <2>4. \A w \in Workers : Ending(w)'
    BY <1>1, <1>2, <2>1, <2>3 DEF Ending
  <2> QED
    BY <1>1, <2>1, <2>3, <2>4 DEF FilledAtSeenBar
<1> QED
  BY <1>3, <1>4, <1>5

LEMMA LockstepStep == LockstepInv /\ [BacktestNext]_backtestVars => LockstepInv'
<1> SUFFICES ASSUME LockstepInv, [BacktestNext]_backtestVars PROVE LockstepInv'
  OBVIOUS
<1>1. CASE StartPump \/ Advance
  BY <1>1, PublishKeeps
<1>2. ASSUME UNCHANGED <<step, gates, thread, seenStep, lastFill>>,
             pump' = pump \/ (pump = "join" /\ pump' = "done")
      PROVE  LockstepInv'
  BY <1>2 DEF LockstepInv, FilledAtSeenBar, Waiting, Queued, AtWork, Acked, Ending
<1>3. CASE Finished
  <2>1. /\ UNCHANGED <<step, gates, thread, seenStep, lastFill>>
        /\ pump = "join" /\ pump' = "done"
    BY <1>3 DEF Finished, threadVars, executorVars
  <2> QED
    BY <2>1, <1>2
<1>4. ASSUME NEW s \in Books, FlattenBook(s) PROVE LockstepInv'
  <2>1. UNCHANGED <<step, gates, thread, seenStep, lastFill, pump>>
    BY <1>4 DEF FlattenBook, threadVars
  <2> QED
    BY <2>1, <1>2
<1>5. ASSUME NEW w \in Workers, NextStep(w) \/ Leave(w) PROVE LockstepInv'
  <2>1. /\ thread[w] \in {"new", "works"} /\ ToGate(w)
        /\ UNCHANGED <<pump, step, seenStep, lastFill>>
    BY <1>5 DEF NextStep, Leave, executorVars
  <2> QED
    BY <2>1, GateKeeps
<1>6. ASSUME NEW w \in Workers, TakeEvent(w) PROVE LockstepInv'
  BY <1>6, TakeEventKeeps
<1>7. ASSUME NEW w \in Workers, ApplyFill(w) PROVE LockstepInv'
  BY <1>7, FillKeeps
<1>8. ASSUME NEW w \in Workers, NEW side \in {"BUY", "SELL"}, NEW qty \in 1 .. MaxLot,
             Submit(w, side, qty)
      PROVE  LockstepInv'
  BY <1>8, SubmitKeeps
<1>9. CASE UNCHANGED backtestVars
  <2>1. UNCHANGED <<step, gates, thread, seenStep, lastFill, pump>>
    BY <1>9 DEF backtestVars
  <2> QED
    BY <2>1, <1>2
<1> QED
  BY <1>1, <1>3, <1>4, <1>5, <1>6, <1>7, <1>8, <1>9 DEF BacktestNext, PumpStep, WorkerStep

\* An order is filled at the step its strategy was woken for, however the
\* threads are scheduled and whenever strategies end (run_lockstep, Gate).
THEOREM FilledAtSeenBarHolds == BacktestSpec => []FilledAtSeenBar
<1>1. LockstepInv => FilledAtSeenBar
  BY DEF LockstepInv
<1> QED
  BY LockstepInit, LockstepStep, <1>1, PTL DEF BacktestSpec

-----------------------------------------------------------------------------
(* Types. The driver and the loop of the snapshots have theirs beside the  *)
(* invariants above.                                                       *)

\* The driver starts well typed.
LEMMA DriverTypeStart == DriverInit => DriverTypeOK
<1> SUFFICES ASSUME DriverInit PROVE DriverTypeOK
  OBVIOUS
<1>1. 0 \in 0 .. MaxCalls /\ 0 \in 0 .. MaxWorkerFaults /\ <<>> \in Seq(0 .. MaxCalls) /\ 0 \in Nat
  BY DriverAssumption
<1> QED
  BY <1>1 DEF DriverInit, DriverTypeOK, Steps, None

\* What the pipe carries are the numbers of calls.
LEMMA DriverTypeStep == PipeInv /\ DriverTypeOK /\ [DriverNext]_driverVars => DriverTypeOK'
<1> SUFFICES ASSUME PipeInv, DriverTypeOK, [DriverNext]_driverVars PROVE DriverTypeOK'
  OBVIOUS
<1>a. None \in 0 .. MaxCalls /\ <<None>> \in Seq(0 .. MaxCalls) /\ <<>> \in Seq(0 .. MaxCalls)
  BY DriverAssumption DEF None
<1>b. orphans + 0 = orphans /\ orphans \in Nat
  BY DEF DriverTypeOK
<1> USE CallersAssumption, DriverAssumption, <1>a DEF DriverTypeOK, Steps
<1>1. ASSUME NEW c \in Callers, Enter(c) PROVE DriverTypeOK'
  BY <1>1 DEF Enter, SameWorker
<1>2. ASSUME NEW c \in Callers, Ensure(c) PROVE DriverTypeOK'
  BY <1>2, <1>b DEF Ensure, Goto, SameWorker, Kill, Return, Spawn
<1>3. ASSUME NEW c \in Callers, Started(c) PROVE DriverTypeOK'
  <2>1. /\ up' \in Seq(0 .. MaxCalls)
        /\ UNCHANGED <<calls, asked, live, hung, orphans, down, cool, workerFaults>>
    BY <1>3 DEF Started
  <2>2. at' \in Steps /\ holder' \in Callers \cup {NoOne} /\ got' \in [Callers -> 0 .. MaxCalls]
    BY <1>3 DEF Started, Goto, Return
  <2> QED
    BY <2>1, <2>2
<1>4. ASSUME NEW c \in Callers, StartFails(c) PROVE DriverTypeOK'
  <2>1. UNCHANGED <<calls, asked, orphans>> /\ down' = <<>> /\ up' = <<>> /\ live' \in BOOLEAN /\ hung' \in BOOLEAN
    BY <1>4 DEF StartFails, Kill
  <2>2. at' \in Steps /\ holder' \in Callers \cup {NoOne} /\ got' \in [Callers -> 0 .. MaxCalls]
    BY <1>4 DEF StartFails, Return
  <2>3. \/ workerFaults < MaxWorkerFaults /\ workerFaults' = workerFaults + 1
        \/ workerFaults' = workerFaults
    BY <1>4 DEF StartFails
  <2>4. workerFaults' \in 0 .. MaxWorkerFaults
    BY <2>3
  <2>5. cool' \in BOOLEAN
    BY <1>4, Zenon DEF StartFails
  <2> QED
    BY <2>1, <2>2, <2>4, <2>5
<1>5. ASSUME NEW c \in Callers, Send(c) PROVE DriverTypeOK'
  BY <1>5 DEF Send, Goto
<1>6. ASSUME NEW c \in Callers, Answered(c) PROVE DriverTypeOK'
  BY <1>6 DEF Answered, Return
<1>7. ASSUME NEW c \in Callers, GiveUp(c) PROVE DriverTypeOK'
  BY <1>7, <1>b DEF GiveUp, Goto, Kill, Return, Spawn
<1>8. ASSUME NEW c \in Callers, Initialize(c) PROVE DriverTypeOK'
  BY <1>8, <1>b DEF Initialize, SameWorker, Spawn
<1>9. ASSUME NEW c \in Callers, Connect(c) PROVE DriverTypeOK'
  BY <1>9, <1>b DEF Connect, Spawn
<1>10. CASE Shutdown
  BY <1>10 DEF Shutdown, Kill
<1>11. CASE WorkerAnswers
  BY <1>11 DEF WorkerAnswers
<1>12. CASE WorkerFails
  <2>1. UNCHANGED <<holder, at, calls, asked, got, orphans, down, up, cool>>
    BY <1>12 DEF WorkerFails
  <2>2. workerFaults' \in 0 .. MaxWorkerFaults
    BY <1>12 DEF WorkerFails
  <2>3. live' \in BOOLEAN /\ hung' \in BOOLEAN
    BY <1>12, Zenon DEF WorkerFails
  <2> QED
    BY <2>1, <2>2, <2>3
<1>13. CASE CooldownPasses
  BY <1>13 DEF CooldownPasses
<1>14. CASE UNCHANGED driverVars
  BY <1>14 DEF driverVars
<1> QED
  BY <1>1, <1>2, <1>3, <1>4, <1>5, <1>6, <1>7, <1>8, <1>9, <1>10, <1>11, <1>12,
     <1>13, <1>14 DEF DriverNext, CallStep


\* And so does the loop of the snapshots.
LEMMA ThsTypeStart == ThsInit => ThsTypeOK
<1> SUFFICES ASSUME ThsInit PROVE ThsTypeOK
  OBVIOUS
<1>1. 0 \in 0 .. DayVolume /\ 0 \in 0 .. SessionFaults /\ 0 \in Nat
  BY ThsAssumption
<1> QED
  BY <1>1 DEF ThsInit, ThsTypeOK

\* No snapshot has more than the day.
LEMMA ThsTypeStep == VolumeInv /\ ThsTypeOK /\ [ThsNext]_thsVars => ThsTypeOK'
<1> SUFFICES ASSUME VolumeInv, ThsTypeOK, [ThsNext]_thsVars PROVE ThsTypeOK'
  OBVIOUS
<1> USE ThsAssumption DEF VolumeInv, ThsTypeOK
<1>1. CASE ThsTrade
  BY <1>1 DEF ThsTrade
<1>2. CASE SessionBreaks \/ ThsConnect \/ ReconnectCools \/ OtherCallDrops
  <2>1. UNCHANGED <<traded, loop, seeded, m1, lastCum>>
    BY <1>2 DEF SessionBreaks, ThsConnect, ReconnectCools, OtherCallDrops
  <2>2. breaks' \in 0 .. SessionFaults
    BY <1>2 DEF SessionBreaks, ThsConnect, ReconnectCools, OtherCallDrops
  <2>3. session' \in {"none", "good", "dead"}
    BY <1>2 DEF SessionBreaks, ThsConnect, ReconnectCools, OtherCallDrops
  <2>4. cooling' \in BOOLEAN
    BY <1>2, Zenon DEF SessionBreaks, ThsConnect, ReconnectCools, OtherCallDrops
  <2> QED
    BY <2>1, <2>2, <2>3, <2>4
<1>3. CASE BeginPoll
  BY <1>3 DEF BeginPoll
<1>4. CASE Snapshot
  BY <1>4 DEF Snapshot
<1>5. CASE SnapshotFails
  BY <1>5 DEF SnapshotFails
<1>6. CASE Seed
  BY <1>6 DEF Seed
<1>7. CASE ApplySnapshot
  BY <1>7 DEF ApplySnapshot
<1>8. CASE RestartThsLoop
  BY <1>8 DEF RestartThsLoop
<1>9. CASE UNCHANGED thsVars
  BY <1>9 DEF thsVars
<1> QED
  BY <1>1, <1>2, <1>3, <1>4, <1>5, <1>6, <1>7, <1>8, <1>9 DEF ThsNext, ThsLoopStep

-----------------------------------------------------------------------------
(* The strategy host.                                                      *)

\* What an instance can be, and the versions of its file.
Statuses == {"none", "INITIALIZED", "RUNNING", "PAUSED", "STOPPED", "LOADED", "ERROR"}
Versions == [cls : 1 .. MaxEdits, version : Nat]

\* What the watcher carries from step to step.
WatcherType ==
  [step : {"idle", "load", "import", "commit", "register", "unload", "restore", "restart"},
   hash : Contents, cls : Contents, prev : Versions \cup {NoModule}, held : Int]

\* Only a file that is there and imports becomes a version, and only a version
\* goes to the history.
HostInv ==
  /\ file \in Contents /\ edits \in Contents /\ fileHash \in Contents
  /\ watcher \in WatcherType /\ (watcher.step = "commit" => watcher.cls # 0)
  /\ module \in Versions \cup {NoModule} /\ history \in Seq(Versions)
  /\ registry \in Contents /\ rolling \in Contents
  /\ instance \in [status : Statuses, cls : Contents, ticks : Int, sameName : BOOLEAN]

\* What the initial values are.
LEMMA HostConstants ==
  /\ 0 \in Contents /\ 1 .. MaxEdits \subseteq Contents /\ \A c \in Contents : c # 0 => c \in 1 .. MaxEdits
  /\ Watching \in WatcherType /\ Watching.step = "idle"
  /\ Gone \in [status : Statuses, cls : Contents, ticks : Int, sameName : BOOLEAN]
  /\ NoModule.version = 0 /\ NoModule.cls = 0
  BY HostAssumption DEF Contents, Watching, WatcherType, Gone, Statuses, NoModule

\* No file, no module, no instance at first.
LEMMA HostStart == HostInit => HostInv
  BY HostConstants DEF HostInit, HostInv

\* Every step of the watcher and of the API keeps it.
LEMMA HostStep == HostInv /\ [HostNext]_hostVars => HostInv'
<1> SUFFICES ASSUME HostInv, [HostNext]_hostVars PROVE HostInv'
  OBVIOUS
<1> USE HostConstants DEF HostInv
<1>1. CASE Edit
  BY <1>1, HostAssumption DEF Edit, apiVars, Contents
<1>2. CASE RemoveFile
  BY <1>2 DEF RemoveFile, apiVars
<1>3. CASE CheckChanges
  <2>1. UNCHANGED <<file, edits, module, history, fileHash, registry, instance, rolling>>
    BY <1>3 DEF CheckChanges, diskVars, apiVars
  <2>2. Captured \in Int
    BY DEF Captured
  <2>3. watcher' \in WatcherType /\ watcher'.step # "commit"
    <3>1. CASE watcher' = [Watching EXCEPT !.step = "load"]
      BY <3>1 DEF WatcherType
    <3>2. CASE watcher' = [Watching EXCEPT !.step = "load", !.held = Captured]
      BY <2>2, <3>2 DEF WatcherType
    <3>3. CASE watcher' = [watcher EXCEPT !.step = "unload"]
      BY <3>3 DEF WatcherType
    <3> QED BY <1>3, <3>1, <3>2, <3>3 DEF CheckChanges, Go
  <2> QED BY <2>1, <2>3
<1>4. CASE ComputeHash
  <2>1. UNCHANGED <<file, edits, module, history, fileHash, registry, instance, rolling>>
    BY <1>4 DEF ComputeHash, diskVars, apiVars
  <2>2. watcher' \in WatcherType /\ watcher'.step # "commit"
    <3>1. CASE watcher' = Watching
      BY <3>1
    <3>2. CASE watcher' = [watcher EXCEPT !.step = "import", !.hash = file]
      BY <3>2 DEF WatcherType
    <3> QED BY <1>4, <3>1, <3>2 DEF ComputeHash
  <2> QED BY <2>1, <2>2
<1>5. CASE Import
  <2>1. UNCHANGED <<file, edits, module, history, fileHash, registry, instance, rolling>>
    BY <1>5 DEF Import, diskVars, apiVars
  <2>2. watcher' \in WatcherType /\ (watcher'.step = "commit" => watcher'.cls # 0)
    <3>1. CASE watcher' = Watching
      BY <3>1
    <3>2. CASE file # 0 /\ watcher' = [watcher EXCEPT !.step = "commit", !.cls = file, !.prev = module]
      BY <3>2 DEF WatcherType
    <3> QED BY <1>5, <3>1, <3>2 DEF Import
  <2> QED BY <2>1, <2>2
<1>6. CASE Commit
  <2>1. UNCHANGED <<file, edits, registry, instance, rolling>> /\ fileHash' = watcher.hash
    BY <1>6 DEF Commit, diskVars, apiVars
  <2>2. watcher' \in WatcherType /\ watcher'.step # "commit" /\ watcher.hash \in Contents
    BY <1>6 DEF Commit, Go, WatcherType
  <2>3. watcher.cls \in 1 .. MaxEdits /\ watcher.prev \in Versions \cup {NoModule}
    BY <1>6 DEF Commit, WatcherType
  <2>4. watcher.prev.version \in Nat
    BY <2>3 DEF Versions
  <2>5. module' \in Versions
    BY <1>6, <2>3, <2>4 DEF Commit, Versions
  <2>6. history' \in Seq(Versions)
    BY <1>6, <2>3 DEF Commit
  <2> QED BY <2>1, <2>2, <2>5, <2>6
<1>7. CASE Register
  <2>1. UNCHANGED <<file, edits, module, history, fileHash, instance, rolling>> /\ registry' = watcher.cls
    BY <1>7 DEF Register, diskVars, apiVars
  <2>2. watcher' \in WatcherType /\ watcher'.step # "commit" /\ watcher.cls \in Contents
    BY <1>7 DEF Register, Go, WatcherType, Watching
  <2> QED BY <2>1, <2>2
<1>8. CASE UnloadFile
  BY <1>8 DEF UnloadFile, diskVars, apiVars
<1>9. CASE Restore
  <2>1. UNCHANGED <<file, edits, module, history, fileHash, registry, rolling>>
    BY <1>9 DEF Restore, diskVars, apiVars
  <2>2. watcher' \in WatcherType /\ watcher'.step # "commit" /\ watcher.held \in Int
    BY <1>9 DEF Restore, Go, WatcherType, Watching
  <2>3. module.cls \in Contents
    BY DEF Versions
  <2>4. instance' \in [status : Statuses, cls : Contents, ticks : Int, sameName : BOOLEAN]
    <3>1. CASE instance' = instance
      BY <3>1
    <3>2. CASE instance' = [status |-> "LOADED", cls |-> module.cls, ticks |-> watcher.held, sameName |-> TRUE]
      BY <2>2, <2>3, <3>2 DEF Statuses
    <3> QED
      BY <1>9, <3>1, <3>2 DEF Restore
  <2> QED BY <2>1, <2>2, <2>4
<1>10. CASE Restart
  <2>1. UNCHANGED <<file, edits, module, history, fileHash, registry, rolling>> /\ watcher' = Watching
    BY <1>10 DEF Restart, diskVars, apiVars
  <2>2. instance' \in [status : Statuses, cls : Contents, ticks : Int, sameName : BOOLEAN]
    BY <1>10 DEF Restart, Statuses
  <2> QED BY <2>1, <2>2
<1>11. ASSUME NEW sameName \in BOOLEAN, CreateStrategy(sameName) PROVE HostInv'
  BY <1>11 DEF CreateStrategy, OnlyInstance, diskVars, Statuses
<1>12. CASE StartStrategy \/ StopStrategy \/ PauseStrategy \/ UnloadStrategy \/ Tick
  <2>1. OnlyInstance
    BY <1>12 DEF StartStrategy, StopStrategy, PauseStrategy, UnloadStrategy, Tick
  <2>2. instance' \in [status : Statuses, cls : Contents, ticks : Int, sameName : BOOLEAN]
    BY <1>12 DEF StartStrategy, StopStrategy, PauseStrategy, UnloadStrategy, Tick, Statuses
  <2> QED BY <2>1, <2>2 DEF OnlyInstance, diskVars
<1>13. CASE Rollback
  <2>1. UNCHANGED <<file, edits, watcher, fileHash, registry, instance>>
    BY <1>13 DEF Rollback, diskVars
  <2>2. PICK target \in ToSet(history) : module' = target /\ rolling' = target.cls
    BY <1>13 DEF Rollback
  <2>3. target \in Versions
    BY <2>2 DEF ToSet
  <2>4. target.cls \in Contents
    BY <2>3 DEF Versions
  <2>5. history' \in Seq(Versions)
    BY <1>13 DEF Rollback
  <2> QED BY <2>1, <2>2, <2>3, <2>4, <2>5
<1>14. CASE RegisterRollback
  BY <1>14 DEF RegisterRollback, diskVars
<1>15. CASE UNCHANGED hostVars
  BY <1>15 DEF hostVars
<1> QED
  BY <1>1, <1>2, <1>3, <1>4, <1>5, <1>6, <1>7, <1>8, <1>9, <1>10, <1>11, <1>12, <1>13, <1>14, <1>15
     DEF HostNext

\* It contains the type.
LEMMA HostTyped == HostInv => HostTypeOK
<1> SUFFICES ASSUME HostInv PROVE HostTypeOK
  OBVIOUS
<1>1. module.cls \in Contents
  BY HostConstants DEF HostInv, Versions
<1>2. ASSUME NEW i \in DOMAIN history PROVE history[i].cls \in 1 .. MaxEdits
  <2>1. history[i] \in Versions
    BY DEF HostInv
  <2> QED BY <2>1 DEF Versions
<1> QED BY <1>1, <1>2 DEF HostInv, HostTypeOK, WatcherType, Statuses

-----------------------------------------------------------------------------
(* The websocket hub.                                                      *)

\* A publication on its way.
Publication ==
  [topic : Topics \cup {"none"}, size : {0} \cup {Cardinality(S) : S \in SUBSET Clients}, emptied : BOOLEAN,
   visited : SUBSET Clients, owed : SUBSET Clients, dead : SUBSET Clients, got : SUBSET Clients,
   at : Clients \cup {"none"}]

\* There is none, or it has a topic.
Publications == {p \in Publication : p = NoPub \/ p.topic \in Topics}

\* A publication passes clients only, those of its topic.
HubInv == HubTypeOK /\ pub \in Publications

\* None is one.
LEMMA NoPubIs == NoPub \in Publications
  BY DEF NoPub, Publication, Publications

\* A change of the subscribers leaves a publication one.
LEMMA NoticedIs ==
  ASSUME NEW p \in Publications, NEW subs
  PROVE  Noticed(p, subs) \in Publications
<1> DEFINE e == p.emptied \/ subs[p.topic] = {}
           o == p.owed \cap subs[p.topic]
<1>1. e \in BOOLEAN /\ o \in SUBSET Clients
  BY DEF Publication, Publications
<1>2. p # NoPub => [p EXCEPT !.emptied = e, !.owed = o] \in Publications
  <2> HIDE DEF e, o
  <2> QED BY <1>1 DEF Publication, Publications
<1>3. Noticed(p, subs) = IF p = NoPub THEN p ELSE [p EXCEPT !.emptied = e, !.owed = o]
  BY DEF Noticed
<1> QED BY <1>2, <1>3

\* Whoever leaves is no longer subscribed to anything.
LEMMA Disconnected ==
  ASSUME HubTypeOK, NEW C, NEW p \in Publications, Disconnect(C, p)
  PROVE  /\ connections' \subseteq Clients /\ subscribers' \in [Topics -> SUBSET Clients]
         /\ pub' \in Publications
<1>1. connections' \subseteq Clients
  BY DEF Disconnect, HubTypeOK
<1>2. subscribers' \in [Topics -> SUBSET Clients]
  BY DEF Disconnect, HubTypeOK
<1>3. pub' \in Publications
  BY NoticedIs DEF Disconnect
<1> QED BY <1>1, <1>2, <1>3

\* And so does the next step of a publication: a failure, a client, the end.
LEMMA Continued ==
  ASSUME HubTypeOK, NEW p \in Publications, p.topic \in Topics, Continue(p)
  PROVE  /\ connections' \subseteq Clients /\ subscribers' \in [Topics -> SUBSET Clients]
         /\ pub' \in Publications
<1>1. CASE Raise(p)
  BY <1>1, NoPubIs DEF Raise, HubTypeOK
<1>2. CASE Visit(p)
  <2>1. PICK c \in (subscribers[p.topic] \ p.visited) \cap connections,
             ghosts \in SUBSET ((subscribers[p.topic] \ p.visited) \ connections) :
          pub' = [p EXCEPT !.visited = @ \cup ghosts \cup {c}, !.dead = @ \cup ghosts, !.at = c]
    BY <1>2 DEF Visit
  <2>2. subscribers[p.topic] \subseteq Clients /\ p.visited \subseteq Clients /\ p.dead \subseteq Clients
    BY DEF HubTypeOK, Publication, Publications
  <2> DEFINE v == p.visited \cup ghosts \cup {c}
             d == p.dead \cup ghosts
  <2>3. v \in SUBSET Clients /\ d \in SUBSET Clients /\ c \in Clients
    BY <2>2
  <2>4. pub' = [p EXCEPT !.visited = v, !.dead = d, !.at = c]
    BY <2>1
  <2>5. pub' \in Publications
    <3> HIDE DEF v, d
    <3> QED BY <2>3, <2>4 DEF Publication, Publications
  <2> QED BY <1>2, <2>5 DEF Visit, HubTypeOK
<1>3. CASE Finish(p)
  <2>1. PICK C : Disconnect(C, NoPub)
    BY <1>3 DEF Finish
  <2> QED BY <2>1, NoPubIs, Disconnected
<1> QED BY <1>1, <1>2, <1>3 DEF Continue

\* Nobody is connected at first.
LEMMA HubStart == HubInit => HubInv
<1> SUFFICES ASSUME HubInit PROVE HubInv
  OBVIOUS
<1>1. pub = NoPub /\ NoPub.topic = "none" /\ NoPub.at = "none"
  BY DEF HubInit, NoPub
<1> QED BY <1>1, NoPubIs DEF HubInit, HubInv, HubTypeOK

\* Every step of the endpoints and of the stream keeps it.
LEMMA HubStep == HubInv /\ [HubNext]_hubVars => HubInv'
<1> SUFFICES ASSUME HubInv, [HubNext]_hubVars PROVE HubInv'
  OBVIOUS
<1>0. HubTypeOK /\ pub \in Publications
  BY DEF HubInv
<1>a. ASSUME pub' \in Publications
      PROVE  pub'.topic \in Topics \cup {"none"} /\ pub'.at \in Clients \cup {"none"}
  BY <1>a DEF Publication, Publications
<1>1. ASSUME NEW c \in Clients, ConnectClient(c) \/ SocketBreaks(c) \/ Acknowledged(c) PROVE HubInv'
  <2>1. UNCHANGED <<subscribers, stream, streamOn, pub>>
    BY <1>1 DEF ConnectClient, SocketBreaks, Acknowledged
  <2>2. connections' \subseteq Clients /\ socketUp' \subseteq Clients
    BY <1>0, <1>1 DEF ConnectClient, SocketBreaks, Acknowledged, HubTypeOK
  <2>3. endpoint' \in [Clients -> {"none", "reads", "acks", "over"}]
    BY <1>0, <1>1 DEF ConnectClient, SocketBreaks, Acknowledged, HubTypeOK
  <2> QED BY <1>0, <2>1, <2>2, <2>3 DEF HubInv, HubTypeOK
<1>2. ASSUME NEW c \in Clients, EndpointEnds(c) PROVE HubInv'
  <2>1. Disconnect({c}, pub) /\ UNCHANGED <<socketUp, stream, streamOn>>
    BY <1>2 DEF EndpointEnds
  <2>2. endpoint' \in [Clients -> {"none", "reads", "acks", "over"}]
    BY <1>0, <1>2 DEF EndpointEnds, HubTypeOK
  <2> QED BY <1>0, <1>a, <2>1, <2>2, Disconnected DEF HubInv, HubTypeOK
<1>3. ASSUME NEW c \in Clients, NEW t \in Topics, NEW wants \in BOOLEAN, HandleMessage(c, t, wants) PROVE HubInv'
  <2>1. UNCHANGED <<connections, socketUp, stream, streamOn>> /\ pub' = Noticed(pub, subscribers')
    BY <1>3 DEF HandleMessage
  <2>2. endpoint' \in [Clients -> {"none", "reads", "acks", "over"}]
    BY <1>0, <1>3 DEF HandleMessage, HubTypeOK
  <2>3. subscribers' \in [Topics -> SUBSET Clients]
    BY <1>0, <1>3 DEF HandleMessage, HubTypeOK
  <2>4. pub' \in Publications
    BY <1>0, <2>1, NoticedIs
  <2> QED BY <1>0, <1>a, <2>1, <2>2, <2>3, <2>4 DEF HubInv, HubTypeOK
<1>4. ASSUME NEW t \in Topics, NEW s \in Signatures, PublishBar(t, s) PROVE HubInv'
  <2>1. UNCHANGED <<endpoint, socketUp, stream, streamOn>>
    BY <1>4 DEF PublishBar
  <2>2. CASE UNCHANGED <<connections, subscribers, pub, missed>>
    BY <1>0, <2>1, <2>2 DEF HubInv, HubTypeOK
  <2> DEFINE n == Cardinality(subscribers[t])
             o == subscribers[t]
             p == [NoPub EXCEPT !.topic = t, !.size = n, !.owed = o]
  <2>3. CASE Continue(p)
    <3>1. o \in SUBSET Clients /\ n \in {0} \cup {Cardinality(S) : S \in SUBSET Clients}
      BY <1>0 DEF HubTypeOK
    <3>2. p \in Publications /\ p.topic \in Topics
      <4> HIDE DEF n, o
      <4> QED BY <3>1, NoPubIs DEF Publication, Publications
    <3> HIDE DEF p
    <3>3. /\ connections' \subseteq Clients /\ subscribers' \in [Topics -> SUBSET Clients]
          /\ pub' \in Publications
      BY <1>0, <2>3, <3>2, Continued
    <3> QED BY <1>0, <1>a, <2>1, <3>3 DEF HubInv, HubTypeOK
  <2> QED BY <1>4, <2>2, <2>3 DEF PublishBar
<1>5. CASE Sent
  <2>1. UNCHANGED <<endpoint, socketUp, stream, streamOn>> /\ pub.at # "none"
    BY <1>5 DEF Sent
  <2> DEFINE g == pub.got \cup {pub.at}
             d == pub.dead \cup {pub.at}
             p == IF pub.at \in socketUp THEN [pub EXCEPT !.got = g] ELSE [pub EXCEPT !.dead = d]
  <2>2. Continue(p)
    BY <1>5 DEF Sent
  <2>3. g \in SUBSET Clients /\ d \in SUBSET Clients
    BY <1>0, <2>1 DEF Publication, Publications
  <2>4. pub.topic \in Topics
    <3>1. pub # NoPub
      BY <2>1 DEF NoPub
    <3> QED BY <1>0, <3>1 DEF Publications
  <2>5. p \in Publications /\ p.topic \in Topics
    <3> HIDE DEF g, d
    <3> QED BY <1>0, <2>3, <2>4 DEF Publication, Publications
  <2> HIDE DEF p
  <2>6. /\ connections' \subseteq Clients /\ subscribers' \in [Topics -> SUBSET Clients]
        /\ pub' \in Publications
    BY <1>0, <2>2, <2>5, Continued
  <2> QED BY <1>0, <1>a, <2>1, <2>6 DEF HubInv, HubTypeOK
<1>6. CASE Dispatch
  <2>1. UNCHANGED <<connections, endpoint, socketUp, subscribers>> /\ streamOn' = TRUE /\ pub' = NoPub
        /\ stream' = ActiveTargets
    BY <1>6 DEF Dispatch
  <2>2. ActiveTargets \subseteq Topics
    BY HubAssumption DEF ActiveTargets
  <2> QED BY <1>0, <1>a, <2>1, <2>2, NoPubIs DEF HubInv, HubTypeOK
<1>7. CASE UNCHANGED hubVars
  BY <1>0, <1>7 DEF hubVars, HubInv, HubTypeOK
<1> QED BY <1>1, <1>2, <1>3, <1>4, <1>5, <1>6, <1>7 DEF HubNext

-----------------------------------------------------------------------------
(* The backtest: the timeline has an event at every place, and the account *)
(* holds whole quantities at whole prices.                                 *)

\* The symbols have an order.
BookOrder == SetToSeq(Books)
BookRank(s) == CHOOSE i \in DOMAIN BookOrder : BookOrder[i] = s

\* Every symbol has a place of its own.
LEMMA BooksRanked ==
  \A s, r \in Books : BookRank(s) \in Nat /\ (BookRank(s) = BookRank(r) => s = r)
<1> DEFINE n == Cardinality(Books)
<1>1. n \in Nat /\ ExistsBijection(1 .. n, Books)
  BY BacktestAssumption, FS_CardinalityType
<1>2. PICK f : f \in Bijection(1 .. n, Books)
  BY <1>1 DEF ExistsBijection
<1>3. f \in [1 .. n -> Books] /\ IsInjective(f) /\ \A s \in Books : \E i \in 1 .. n : f[i] = s
  BY <1>2 DEF Bijection, Injection, Surjection, IsInjective
<1>4. BookOrder \in [1 .. n -> Books] /\ IsInjective(BookOrder)
  BY <1>3 DEF BookOrder, SetToSeq
<1>5. BookOrder \in Injection(1 .. n, Books)
  BY <1>4 DEF Injection
<1>6. BookOrder \in Surjection(1 .. n, Books)
  <2>1. IsFiniteSet(1 .. n) /\ Cardinality(1 .. n) = n
    BY <1>1, FS_Interval
  <2>2. IsFiniteSet(Books)
    BY BacktestAssumption
  <2> QED BY <1>5, <2>1, <2>2, FS_Injection
<1>7. ASSUME NEW s \in Books PROVE BookRank(s) \in 1 .. n /\ BookOrder[BookRank(s)] = s
  <2>1. \E i \in DOMAIN BookOrder : BookOrder[i] = s
    BY <1>4, <1>6 DEF Surjection
  <2> QED BY <1>4, <2>1 DEF BookRank
<1> QED BY <1>1, <1>7

\* The history is finite.
LEMMA EventsFinite == IsFiniteSet(Events) /\ \A e \in Events : e.at \in 0 .. LastTime /\ e.period \in Nat /\ e.symbol \in Books
<1> DEFINE T == 0 .. LastTime
           Q == (T \X T) \X Books
           f == [e \in Events |-> <<<<e.at, e.period>>, e.symbol>>]
<1>1. ASSUME NEW e \in Events PROVE e.at \in T /\ e.period \in T /\ e.symbol \in Books /\ e.period \in Nat
  <2>1. e.at \in T /\ e.period \in Periods /\ e.symbol \in Books /\ e.at + e.period <= LastTime
    BY DEF Events
  <2>2. LastTime \in Nat /\ e.period \in Nat
    BY <2>1, BacktestAssumption
  <2> QED BY <2>1, <2>2
<1>2. IsFiniteSet(T) /\ IsFiniteSet(Books)
  BY BacktestAssumption, FS_Interval
<1>3. IsFiniteSet(Q)
  <2>1. IsFiniteSet(T \X T)
    BY <1>2, FS_Product
  <2> QED BY <1>2, <2>1, FS_Product
<1>4. f \in Injection(Events, Q)
  <2>1. f \in [Events -> Q]
    BY <1>1
  <2>2. ASSUME NEW d \in Events, NEW e \in Events, f[d] = f[e] PROVE d = e
    <3>1. d.at = e.at /\ d.period = e.period /\ d.symbol = e.symbol
      BY <2>2
    <3> QED BY <3>1 DEF Events
  <2> QED BY <2>1, <2>2 DEF Injection, IsInjective
<1> HIDE DEF f, Q
<1>5. IsFiniteSet(Events)
  BY <1>3, <1>4, FS_Injection
<1> QED BY <1>1, <1>5

\* Of two events one comes first, and that is an order.
LEMMA BeforeOrders ==
  /\ \A e \in Events : ~Before(e, e)
  /\ \A d, e \in Events : d = e \/ Before(d, e) \/ Before(e, d)
  /\ \A c, d, e \in Events : Before(c, d) /\ Before(d, e) => Before(c, e)
<1>1. \A d, e : Before(d, e) <=>
        \/ d.at < e.at
        \/ d.at = e.at /\ d.period > e.period
        \/ d.at = e.at /\ d.period = e.period /\ BookRank(d.symbol) < BookRank(e.symbol)
  BY DEF Before, BookRank, BookOrder
<1>2. \A e \in Events : e.at \in Nat /\ e.period \in Nat /\ e.symbol \in Books /\ BookRank(e.symbol) \in Nat
  BY EventsFinite, BooksRanked
<1>3. \A d, e \in Events : d.at = e.at /\ d.period = e.period /\ BookRank(d.symbol) = BookRank(e.symbol) => d = e
  <2> SUFFICES ASSUME NEW d \in Events, NEW e \in Events, d.at = e.at, d.period = e.period,
                      BookRank(d.symbol) = BookRank(e.symbol)
               PROVE  d = e
    OBVIOUS
  <2>1. d.symbol = e.symbol
    BY <1>2, BooksRanked
  <2> QED BY <2>1 DEF Events
<1>4. ASSUME NEW d \in Events, NEW e \in Events PROVE d = e \/ Before(d, e) \/ Before(e, d)
  BY <1>1, <1>2, <1>3
<1>5. ASSUME NEW c \in Events, NEW d \in Events, NEW e \in Events, Before(c, d), Before(d, e) PROVE Before(c, e)
  BY <1>1, <1>2, <1>5
<1>6. ASSUME NEW e \in Events PROVE ~Before(e, e)
  BY <1>1, <1>2
<1> QED BY <1>4, <1>5, <1>6

\* The timeline has every place filled with an event.
LEMMA TimelineIs ==
  /\ Len(Timeline) \in Nat /\ DOMAIN Timeline = 1 .. Len(Timeline)
  /\ \A i \in 1 .. Len(Timeline) : Timeline[i] \in Events
  /\ Timeline # <<>> => Len(Timeline) # 0
<1> DEFINE n == Cardinality(Events)
           before(e) == {d \in Events : Before(d, e)}
           r == [e \in Events |-> Cardinality(before(e))]
<1>1. n \in Nat /\ IsFiniteSet(Events)
  BY EventsFinite, FS_CardinalityType
<1>2. ASSUME NEW e \in Events
      PROVE  IsFiniteSet(before(e)) /\ Cardinality(before(e)) \in Nat /\ Cardinality(before(e)) < n
  <2>1. before(e) \in SUBSET Events /\ e \notin before(e)
    BY BeforeOrders
  <2>2. IsFiniteSet(before(e)) /\ Cardinality(before(e)) <= n /\ Cardinality(before(e)) # n
    BY <1>1, <2>1, FS_Subset
  <2>3. Cardinality(before(e)) \in Nat
    BY <2>2, FS_CardinalityType
  <2> QED BY <1>1, <2>2, <2>3
<1>3. ASSUME NEW d \in Events, NEW e \in Events, Before(d, e) PROVE Cardinality(before(d)) < Cardinality(before(e))
  <2>1. before(d) \in SUBSET before(e) /\ d \in before(e) /\ d \notin before(d)
    BY <1>3, BeforeOrders
  <2>2. Cardinality(before(d)) <= Cardinality(before(e)) /\ Cardinality(before(d)) # Cardinality(before(e))
    BY <1>2, <2>1, FS_Subset
  <2> QED BY <1>2, <2>2
<1>4. r \in Injection(Events, 0 .. n - 1)
  <2>1. r \in [Events -> 0 .. n - 1]
    BY <1>1, <1>2
  <2>2. ASSUME NEW d \in Events, NEW e \in Events, r[d] = r[e] PROVE d = e
    <3>1. ~Before(d, e) /\ ~Before(e, d)
      BY <1>2, <1>3, <2>2
    <3> QED BY <3>1, BeforeOrders
  <2> QED BY <2>1, <2>2 DEF Injection, IsInjective
<1>5. IsFiniteSet(0 .. n - 1) /\ Cardinality(0 .. n - 1) = n
  <2>1. n = 0 \/ n > 0
    BY <1>1
  <2>2. 0 \in Int /\ n - 1 \in Int
    BY <1>1
  <2>3. Cardinality(0 .. n - 1) = IF 0 > n - 1 THEN 0 ELSE n - 1 - 0 + 1
    BY <2>2, FS_Interval
  <2>4. IsFiniteSet(0 .. n - 1)
    BY <2>2, FS_Interval
  <2> HIDE DEF n
  <2> QED BY <1>1, <2>1, <2>3, <2>4
<1>6. r \in Surjection(Events, 0 .. n - 1)
  <2> HIDE DEF r
  <2> QED BY <1>4, <1>5, FS_Injection
<1> DEFINE c(i) == CHOOSE e \in Events : Cardinality(before(e)) = i - 1
<1>7. ASSUME NEW i \in 1 .. n PROVE c(i) \in Events
  <2>1. i - 1 \in 0 .. n - 1
    BY <1>1
  <2>2. \E e \in Events : r[e] = i - 1
    BY <1>6, <2>1 DEF Surjection
  <2> QED BY <2>2
<1>8. Timeline = [i \in 1 .. n |-> c(i)]
  BY DEF Timeline
<1> HIDE DEF n, c
<1>9. Timeline \in Seq(Events) /\ Len(Timeline) = n /\ DOMAIN Timeline = 1 .. n
  BY <1>1, <1>7, <1>8
<1> QED BY <1>1, <1>7, <1>8, <1>9

\* A position, what a fill has read, and the places of the feed.
Holding  == [side : Int, qty : Nat, cost : Int, fee : Int, ticket : Nat]
Fillings == [side : {"none", "BUY", "SELL"}, qty : Nat, price : Int, of : Holding]
Places   == 0 .. Len(Timeline)

\* What is held or is being filled has a price: its symbol has had a bar.
AccountInv ==
  /\ step \in Places /\ (pump = "idle" => step = 0) /\ seenStep \in [Workers -> Places]
  /\ current \in [Books -> Places] /\ walk \in [Books -> [0 .. LastTime -> Nat]] /\ bookOf \in [Workers -> Books]
  /\ draining \subseteq Workers
  /\ cash \in Int /\ tickets \in Nat
  /\ position \in [Books -> Holding] /\ filling \in [Workers -> Fillings]
  /\ \A s \in Books : position[s].qty # 0 => current[s] # 0
  /\ \A w \in Workers : thread[w] = "fills" => current[bookOf[w]] # 0

\* No position is one.
LEMMA NothingHeld == NoPosition \in Holding /\ NoPosition.qty = 0 /\ NoFill \in Fillings
  BY DEF NoPosition, Holding, NoFill, Fillings

\* Prices and fees are divided whole.
LEMMA WholeQuotient ==
  ASSUME NEW a \in Int, NEW b \in Nat, b # 0
  PROVE  a \div b \in Int
  OBVIOUS

\* Whatever position the fill has read, the books stay whole numbers.
LEMMA BookedIs ==
  ASSUME NEW s \in Books, position[s] \in Holding, tickets \in Nat,
         NEW side, NEW qty \in Nat, NEW price \in Int, NEW of \in Holding
  PROVE  /\ Booked(s, side, qty, price, of).cash \in Int
         /\ Booked(s, side, qty, price, of).tickets \in Nat
         /\ Booked(s, side, qty, price, of).position \in Holding
<1> DEFINE signed == Sign(side) * qty
           net == of.side * of.qty
           isHeld == of.ticket # 0 /\ position[s].ticket = of.ticket
           held == IF isHeld THEN position[s] ELSE [of EXCEPT !.qty = 0, !.fee = 0]
           closed == IF net * signed < 0 THEN (IF of.qty < qty THEN of.qty ELSE qty) ELSE 0
           entry == IF of.qty = 0 THEN 0 ELSE of.cost \div of.qty
           gross == held.side * (price - entry) * closed
           portion == IF held.qty > 0 THEN (held.fee * closed) \div held.qty ELSE 0
           opened(n) == [side |-> IF net + signed > 0 THEN 1 ELSE -1, qty |-> n, cost |-> price * n,
                         fee |-> Fee, ticket |-> tickets + 1]
           rest == IF net + signed > 0 THEN net + signed ELSE -(net + signed)
           closing == [cash |-> gross, tickets |-> tickets + 1,
                       pnl |-> gross - (portion + Fee),
                       position |-> IF held.qty > closed
                        THEN [held EXCEPT !.qty = @ - closed, !.fee = @ - portion,
                                          !.cost = entry * (held.qty - closed)]
                        ELSE IF rest > 0 THEN opened(rest) ELSE NoPosition]
           opening == [cash |-> 0, tickets |-> tickets + 1, pnl |-> 0,
                       position |-> IF of.side * signed > 0
                        THEN IF isHeld
                             THEN [held EXCEPT !.qty = @ + qty, !.cost = @ + price * qty,
                                               !.fee = @ + Fee]
                             ELSE position[s]
                        ELSE opened(qty)]
<1>17. Booked(s, side, qty, price, of) = IF closed > 0 THEN closing ELSE opening
  BY DEF Booked
<1> HIDE DEF closing, opening, opened, rest, gross, portion, entry, closed, held, isHeld, net, signed
<1>1. signed = Sign(side) * qty
  BY DEF signed
<1>2. signed \in Int
  BY <1>1 DEF Sign
<1>3. net = of.side * of.qty
  BY DEF net
<1>4. net \in Int /\ of.qty \in Nat /\ of.cost \in Int /\ of.ticket \in Nat
  BY <1>3 DEF Holding
<1>5. isHeld = (of.ticket # 0 /\ position[s].ticket = of.ticket)
  BY DEF isHeld
<1>6. held = (IF isHeld THEN position[s] ELSE [of EXCEPT !.qty = 0, !.fee = 0])
  BY DEF held
<1>7. held \in Holding
  <2>1. CASE isHeld
    BY <1>6, <2>1
  <2>2. CASE ~isHeld
    <3>1. held = [of EXCEPT !.qty = 0, !.fee = 0]
      BY <1>6, <2>2
    <3>2. 0 \in Nat /\ 0 \in Int
      OBVIOUS
    <3> QED BY <3>1, <3>2 DEF Holding
  <2> QED BY <2>1, <2>2
<1>8. held.side \in Int /\ held.qty \in Nat /\ held.cost \in Int /\ held.fee \in Int /\ held.ticket \in Nat
  BY <1>7 DEF Holding
<1>9. closed = (IF net * signed < 0 THEN (IF of.qty < qty THEN of.qty ELSE qty) ELSE 0)
  BY DEF closed
<1>10. closed \in Nat
  BY <1>4, <1>9
<1>11. entry = (IF of.qty = 0 THEN 0 ELSE of.cost \div of.qty)
  BY DEF entry
<1>12. entry \in Int
  BY <1>4, <1>11, WholeQuotient
<1>13. gross = held.side * (price - entry) * closed
  BY DEF gross
<1>14. gross \in Int
  <2>1. price - entry \in Int
    BY <1>12
  <2>2. held.side * (price - entry) \in Int
    BY <1>8, <2>1
  <2> QED BY <1>10, <1>13, <2>2
<1>15. portion = (IF held.qty > 0 THEN (held.fee * closed) \div held.qty ELSE 0)
  BY DEF portion
<1>16. portion \in Int
  <2>1. held.fee * closed \in Int
    BY <1>8, <1>10
  <2>2. CASE held.qty > 0
    <3>1. held.qty # 0
      BY <1>8, <2>2
    <3>2. (held.fee * closed) \div held.qty \in Int
      BY <1>8, <2>1, <3>1, WholeQuotient
    <3> QED BY <1>15, <2>2, <3>2
  <2>3. CASE ~(held.qty > 0)
    BY <1>15, <2>3
  <2> QED BY <2>2, <2>3
<1> USE DEF closing, opening, opened, rest
<1>18. Fee \in Nat
  BY BacktestAssumption
<1>19. ASSUME NEW n \in Nat PROVE opened(n) \in Holding
  <2>1. price * n \in Int /\ tickets + 1 \in Nat
    OBVIOUS
  <2>2. (IF net + signed > 0 THEN 1 ELSE -1) \in Int
    OBVIOUS
  <2> QED BY <1>18, <2>1, <2>2 DEF Holding
<1> HIDE DEF opened
<1>20. closing.cash \in Int /\ closing.tickets \in Nat /\ opening.cash \in Int /\ opening.tickets \in Nat
  BY <1>14
<1>21. closing.position \in Holding
  <2>1. CASE held.qty > closed
    <3> DEFINE q == held.qty - closed
               f == held.fee - portion
               k == entry * (held.qty - closed)
    <3>1. q \in Nat /\ f \in Int /\ k \in Int
      <4>1. q \in Nat
        BY <1>8, <1>10, <2>1
      <4> QED BY <1>8, <1>12, <1>16, <4>1
    <3>2. closing.position = [held EXCEPT !.qty = q, !.fee = f, !.cost = k]
      BY <2>1
    <3> HIDE DEF q, f, k, closing
    <3> QED BY <1>7, <3>1, <3>2 DEF Holding
  <2>2. CASE ~(held.qty > closed) /\ rest > 0
    <3>1. rest \in Nat
      BY <1>2, <1>4, <2>2
    <3> QED BY <1>19, <2>2, <3>1
  <2>3. CASE ~(held.qty > closed) /\ ~(rest > 0)
    BY <2>3, NothingHeld
  <2> QED BY <2>1, <2>2, <2>3
<1>22. opening.position \in Holding
  <2>1. CASE of.side * signed > 0 /\ isHeld
    <3> DEFINE q == held.qty + qty
               k == held.cost + price * qty
               f == held.fee + Fee
    <3>1. q \in Nat /\ f \in Int /\ k \in Int
      <4>1. price * qty \in Int
        OBVIOUS
      <4> QED BY <1>8, <1>18, <4>1
    <3>2. opening.position = [held EXCEPT !.qty = q, !.cost = k, !.fee = f]
      BY <2>1
    <3> HIDE DEF q, f, k, opening
    <3> QED BY <1>7, <3>1, <3>2 DEF Holding
  <2>2. CASE of.side * signed > 0 /\ ~isHeld
    BY <2>2
  <2>3. CASE ~(of.side * signed > 0)
    BY <1>19, <2>3
  <2> QED BY <2>1, <2>2, <2>3
<1> HIDE DEF opening, closing
<1> QED BY <1>17, <1>20, <1>21, <1>22

\* The price of the moment.
LEMMA OpenPriceIs ==
  ASSUME AccountInv, NEW s \in Books, current[s] # 0
  PROVE  OpenPrice(s) \in Nat
<1>1. current[s] \in 1 .. Len(Timeline)
  BY TimelineIs DEF AccountInv, Places
<1>2. Timeline[current[s]].at \in 0 .. LastTime
  BY <1>1, TimelineIs, EventsFinite
<1> QED BY <1>2 DEF AccountInv, OpenPrice

\* Nothing is held at first.
LEMMA AccountStart == BacktestInit => AccountInv
<1> SUFFICES ASSUME BacktestInit PROVE AccountInv
  OBVIOUS
<1>1. 0 \in Places
  BY TimelineIs DEF Places
<1>2. walk \in [Books -> [0 .. LastTime -> Nat]]
  BY BacktestAssumption DEF BacktestInit
<1>3. cash \in Int
  BY BacktestAssumption DEF BacktestInit
<1> QED BY <1>1, <1>2, <1>3, NothingHeld DEF BacktestInit, AccountInv

\* The next event is there.
LEMMA Revealed ==
  ASSUME AccountInv, Reveal, step + 1 <= Len(Timeline)
  PROVE  /\ step' \in Places /\ current' \in [Books -> Places]
         /\ \A s \in Books : current[s] # 0 => current'[s] # 0
<1>1. step' = step + 1 /\ step' \in 1 .. Len(Timeline)
  BY TimelineIs DEF Reveal, AccountInv, Places
<1>2. Timeline[step'].symbol \in Books
  BY <1>1, TimelineIs, EventsFinite
<1>3. current' = [current EXCEPT ![Timeline[step'].symbol] = step']
  BY DEF Reveal
<1>4. step' \in Places /\ step' # 0
  BY <1>1 DEF Places
<1> QED BY <1>2, <1>3, <1>4 DEF AccountInv

\* Every step of the pump and of the workers keeps it.
LEMMA AccountStep == LockstepInv /\ AccountInv /\ [BacktestNext]_backtestVars => AccountInv'
<1> SUFFICES ASSUME LockstepInv, AccountInv, [BacktestNext]_backtestVars PROVE AccountInv'
  OBVIOUS
<1>1. CASE StartPump
  <2>1. Reveal /\ pump' = "acks" /\ pump = "idle" /\ Timeline # <<>>
        /\ UNCHANGED <<walk, bookOf, thread, draining, seenStep, filling, cash, position, tickets>>
    BY <1>1 DEF StartPump, threadVars, executorVars
  <2>2. step + 1 <= Len(Timeline)
    BY <2>1, TimelineIs DEF AccountInv
  <2> QED BY <2>1, <2>2, Revealed DEF AccountInv
<1>2. CASE Advance
  <2>1. UNCHANGED <<walk, bookOf, thread, draining, seenStep, filling, cash, position, tickets>> /\ pump = "acks"
    BY <1>2 DEF Advance, threadVars, executorVars
  <2>2. CASE step < Len(Timeline)
    <3>1. Reveal /\ pump' = "acks"
      BY <1>2, <2>1, <2>2 DEF Advance
    <3>2. step + 1 <= Len(Timeline)
      BY <2>2, TimelineIs DEF AccountInv, Places
    <3> QED BY <2>1, <3>1, <3>2, Revealed DEF AccountInv
  <2>3. CASE ~(step < Len(Timeline))
    BY <1>2, <2>1, <2>3 DEF Advance, AccountInv
  <2> QED BY <2>2, <2>3
<1>3. CASE Finished
  BY <1>3 DEF Finished, threadVars, executorVars, AccountInv
<1>4. ASSUME NEW s \in Books, FlattenBook(s) PROVE AccountInv'
  <2>1. /\ position[s].qty > 0 /\ UNCHANGED <<walk, bookOf, pump, step, current, thread, draining, seenStep, filling>>
    BY <1>4 DEF FlattenBook, threadVars
  <2>2. position[s] \in Holding /\ tickets \in Nat /\ position[s].qty \in Nat /\ cash \in Int
    BY DEF AccountInv, Holding
  <2>3. current[s] # 0
    BY <2>1, <2>2 DEF AccountInv
  <2>4. OpenPrice(s) \in Int
    BY <2>3, OpenPriceIs
  <2>5. PICK b, side : b = Booked(s, side, position[s].qty, OpenPrice(s), position[s])
                       /\ cash' = cash - Fee + b.cash /\ tickets' = b.tickets
                       /\ position' = [position EXCEPT ![s] = b.position]
    BY <1>4 DEF FlattenBook
  <2>6. b.cash \in Int /\ b.tickets \in Nat /\ b.position \in Holding
    BY <2>2, <2>4, <2>5, BookedIs
  <2>7. Fee \in Nat
    BY BacktestAssumption
  <2>8. cash' \in Int /\ tickets' \in Nat /\ position' \in [Books -> Holding]
    BY <2>2, <2>5, <2>6, <2>7 DEF AccountInv
  <2>9. \A t \in Books : position'[t].qty # 0 => current[t] # 0
    BY <2>3, <2>5 DEF AccountInv
  <2> QED BY <2>1, <2>8, <2>9 DEF AccountInv
<1>5. ASSUME NEW w \in Workers, NextStep(w) \/ Leave(w) PROVE AccountInv'
  <2>1. /\ UNCHANGED <<walk, bookOf, pump, step, current, seenStep, filling, cash, position, tickets>>
        /\ thread' = [thread EXCEPT ![w] = "gate"] /\ draining' \subseteq draining \cup {w}
    BY <1>5 DEF NextStep, Leave, ToGate, executorVars
  <2> QED BY <2>1 DEF AccountInv, LockstepInv
<1>6. ASSUME NEW w \in Workers, TakeEvent(w) PROVE AccountInv'
  <2>1. /\ UNCHANGED <<walk, bookOf, pump, step, current, draining, filling, cash, position, tickets>>
        /\ gates[w].events # <<>> /\ thread[w] = "gate"
    BY <1>6 DEF TakeEvent, executorVars
  <2>2. CASE Head(gates[w].events) = Terminate
    BY <1>6, <2>1, <2>2 DEF TakeEvent, AccountInv, LockstepInv
  <2>3. CASE Head(gates[w].events) # Terminate
    <3>1. gates[w].events = <<step>>
      BY <2>1, <2>3, QueueOfOne, TerminateType DEF LockstepInv, Waiting, Queued, AtWork, Acked, Ending
    <3>2. Head(gates[w].events) = step
      BY <3>1
    <3>3. seenStep' = [seenStep EXCEPT ![w] = step] /\ thread' = [thread EXCEPT ![w] = "works"]
      BY <1>6, <2>3, <3>2 DEF TakeEvent
    <3> QED BY <2>1, <3>3 DEF AccountInv, LockstepInv
  <2> QED BY <2>2, <2>3
<1>7. ASSUME NEW w \in Workers, ApplyFill(w) PROVE AccountInv'
  <2>1. /\ UNCHANGED <<walk, bookOf, pump, step, current, draining, seenStep>> /\ thread[w] = "fills"
        /\ thread' = [thread EXCEPT ![w] = "works"] /\ filling' = [filling EXCEPT ![w] = NoFill]
    BY <1>7 DEF ApplyFill
  <2>2. PICK f, b : /\ f = filling[w] /\ b = Booked(bookOf[w], f.side, f.qty, f.price, f.of)
                    /\ cash' = cash + b.cash /\ tickets' = b.tickets
                    /\ position' = [position EXCEPT ![bookOf[w]] = b.position]
    BY <1>7 DEF ApplyFill
  <2>3. f.qty \in Nat /\ f.price \in Int /\ f.of \in Holding
    <3>1. f \in Fillings
      BY <2>2 DEF AccountInv
    <3> QED BY <3>1 DEF Fillings
  <2>4. bookOf[w] \in Books /\ position[bookOf[w]] \in Holding /\ tickets \in Nat /\ cash \in Int
    BY DEF AccountInv
  <2>5. b.cash \in Int /\ b.tickets \in Nat /\ b.position \in Holding
    BY <2>2, <2>3, <2>4, BookedIs
  <2>6. cash' \in Int /\ tickets' \in Nat /\ position' \in [Books -> Holding]
    BY <2>2, <2>4, <2>5 DEF AccountInv
  <2>7. current[bookOf[w]] # 0
    BY <2>1 DEF AccountInv
  <2>8. \A t \in Books : position'[t].qty # 0 => current[t] # 0
    BY <2>2, <2>4, <2>7 DEF AccountInv
  <2>9. filling' \in [Workers -> Fillings]
    BY <2>1, NothingHeld DEF AccountInv
  <2>10. \A v \in Workers : thread'[v] = "fills" => thread[v] = "fills"
    BY <2>1 DEF LockstepInv
  <2> QED BY <2>1, <2>6, <2>8, <2>9, <2>10 DEF AccountInv
<1>8. ASSUME NEW w \in Workers, NEW side \in {"BUY", "SELL"}, NEW qty \in 1 .. MaxLot, Submit(w, side, qty)
      PROVE  AccountInv'
  <2>1. /\ UNCHANGED <<walk, bookOf, pump, step, current, draining, seenStep, position, tickets>>
        /\ current[bookOf[w]] # 0 /\ cash' = cash - Fee
        /\ thread' = [thread EXCEPT ![w] = "fills"]
    BY <1>8 DEF Submit
  <2> DEFINE g == [side |-> side, qty |-> qty, price |-> OpenPrice(bookOf[w]), of |-> position[bookOf[w]]]
  <2>2. filling' = [filling EXCEPT ![w] = g]
    BY <1>8 DEF Submit
  <2>3. bookOf[w] \in Books /\ position[bookOf[w]] \in Holding /\ cash \in Int
    BY DEF AccountInv
  <2>4. OpenPrice(bookOf[w]) \in Int
    BY <2>1, <2>3, OpenPriceIs
  <2>5. qty \in Nat
    BY BacktestAssumption
  <2>6. g \in Fillings
    BY <2>3, <2>4, <2>5 DEF Fillings
  <2> HIDE DEF g
  <2>7. filling' \in [Workers -> Fillings]
    BY <2>2, <2>6 DEF AccountInv
  <2>8. Fee \in Nat
    BY BacktestAssumption
  <2>9. cash' \in Int
    BY <2>1, <2>3, <2>8
  <2>10. \A v \in Workers : thread'[v] = "fills" => v = w \/ thread[v] = "fills"
    BY <2>1 DEF LockstepInv
  <2> QED BY <2>1, <2>7, <2>9, <2>10 DEF AccountInv
<1>9. CASE UNCHANGED backtestVars
  BY <1>9 DEF backtestVars, AccountInv
<1> QED
  BY <1>1, <1>2, <1>3, <1>4, <1>5, <1>6, <1>7, <1>8, <1>9 DEF BacktestNext, PumpStep, WorkerStep

\* With the places of the workers it contains the type.
LEMMA AccountTyped == LockstepInv /\ AccountInv => BacktestTypeOK
<1> SUFFICES ASSUME LockstepInv, AccountInv PROVE BacktestTypeOK
  OBVIOUS
<1>1. ASSUME NEW s \in Books PROVE position[s].qty \in Nat
  <2>1. position[s] \in Holding
    BY DEF AccountInv
  <2> QED BY <2>1 DEF Holding
<1> QED BY <1>1 DEF LockstepInv, AccountInv, Places, BacktestTypeOK

-----------------------------------------------------------------------------
(* All of them.                                                            *)

\* What each component keeps in the behaviours that are its own.
GatewayInv ==
  /\ part = "driver"   => PipeInv /\ DriverTypeOK
  /\ part = "ths"      => VolumeInv /\ ThsTypeOK
  /\ part = "host"     => HostInv
  /\ part = "hub"      => HubInv
  /\ part = "backtest" => LockstepInv /\ AccountInv

\* Every service stays in the states its code knows, however long it runs: the
\* pipe of the terminal driver carries numbers of calls, a failed import never
\* becomes a version of a strategy (StrategyWatcher), a publication passes
\* connected clients only (WebSocketHub.publish), and the executor of the
\* backtest reads a bar that is there and books whole quantities, whatever
\* position a fill has read (BacktestExecutor._apply_fill).
THEOREM GatewayTypedHolds == Spec => []GatewayTyped
<1>1. Init => GatewayInv
  BY PipeInit, DriverTypeStart, VolumeInit, ThsTypeStart, HostStart, HubStart, LockstepInit, AccountStart
     DEF Init, GatewayInv
<1>2. GatewayInv /\ [Next]_vars => GatewayInv'
  <2> SUFFICES ASSUME GatewayInv, [Next]_vars PROVE GatewayInv'
    OBVIOUS
  <2>1. UNCHANGED part
    BY DEF Next, vars
  <2>2. CASE part = "driver"
    <3>1. [DriverNext]_driverVars
      BY <2>2 DEF Next, vars
    <3> QED BY <2>1, <2>2, <3>1, PipeStep, DriverTypeStep DEF GatewayInv
  <2>3. CASE part = "ths"
    <3>1. [ThsNext]_thsVars
      BY <2>3 DEF Next, vars
    <3> QED BY <2>1, <2>3, <3>1, VolumeStep, ThsTypeStep DEF GatewayInv
  <2>4. CASE part = "host"
    <3>1. [HostNext]_hostVars
      BY <2>4 DEF Next, vars
    <3> QED BY <2>1, <2>4, <3>1, HostStep DEF GatewayInv
  <2>5. CASE part = "hub"
    <3>1. [HubNext]_hubVars
      BY <2>5 DEF Next, vars
    <3> QED BY <2>1, <2>5, <3>1, HubStep DEF GatewayInv
  <2>6. CASE part = "backtest"
    <3>1. [BacktestNext]_backtestVars
      BY <2>6 DEF Next, vars
    <3> QED BY <2>1, <2>6, <3>1, LockstepStep, AccountStep DEF GatewayInv
  <2>7. CASE part \notin {"driver", "ths", "host", "hub", "backtest"}
    BY <2>1, <2>7 DEF GatewayInv
  <2> QED BY <2>2, <2>3, <2>4, <2>5, <2>6, <2>7
<1>3. GatewayInv => GatewayTyped
  BY HostTyped, AccountTyped DEF GatewayInv, GatewayTyped, HubInv
<1> QED
  BY <1>1, <1>2, <1>3, PTL DEF Spec
================================================================================
