------------------------------- MODULE Mt5Driver -------------------------------
(***************************************************************************)
(* The terminal driver (gateway/market_sources/mt5_driver.py): the market  *)
(* source and the executor call one Mt5Api from many threads; a lock lets  *)
(* one call at a time talk to the worker process over a pipe, and a call   *)
(* that gets no answer in time kills the worker and starts another, not    *)
(* more often than the cooldown allows.                                    *)
(*                                                                         *)
(* Abstracted: a request is its number, an answer the number of the        *)
(* request it answers; 0 is the initialize request and "no result". The    *)
(* clock is one flag, whether the cooldown since the last start has passed.*)
(***************************************************************************)
EXTENDS Integers, Sequences

CONSTANTS
  Callers,          \* the threads that share the driver
  MaxCalls,         \* bound: calls made
  MaxWorkerFaults   \* bound: times a worker hangs, dies or fails to start

ASSUME DriverAssumption == MaxCalls \in Nat /\ MaxWorkerFaults \in Nat

None == 0
NoOne == "no one"
ASSUME CallersAssumption == NoOne \notin Callers

VARIABLES
  holder, at,          \* who holds the lock, and how far it is
  calls, asked, got,   \* calls made; per caller: its request, what it returned
  live, hung, orphans, \* the worker: alive, stuck in the terminal; others alive
  down, up,            \* the two directions of the pipe
  cool,                \* the cooldown since the last start has passed
  workerFaults

driverVars == <<holder, at, calls, asked, got, live, hung, orphans, down, up,
                cool, workerFaults>>

Steps == {"out", "ensure", "startCall", "startOnly", "send", "wait"}

DriverTypeOK ==
  /\ holder \in Callers \cup {NoOne} /\ at \in Steps
  /\ calls \in 0 .. MaxCalls
  /\ asked \in [Callers -> 0 .. MaxCalls] /\ got \in [Callers -> 0 .. MaxCalls]
  /\ live \in BOOLEAN /\ hung \in BOOLEAN /\ orphans \in Nat
  /\ down \in Seq(0 .. MaxCalls) /\ up \in Seq(0 .. MaxCalls)
  /\ cool \in BOOLEAN /\ workerFaults \in 0 .. MaxWorkerFaults

DriverInit ==
  /\ holder = NoOne /\ at = "out"
  /\ calls = 0
  /\ asked = [c \in Callers |-> None] /\ got = [c \in Callers |-> None]
  /\ live = FALSE /\ hung = FALSE /\ orphans = 0
  /\ down = <<>> /\ up = <<>>
  /\ cool = TRUE /\ workerFaults = 0

-----------------------------------------------------------------------------
(* What the _locked methods do to the worker and the pipe.                 *)

\* The process ends and the pipe is closed with all that is in it.
Kill ==
  /\ live' = FALSE /\ hung' = FALSE
  /\ down' = <<>> /\ up' = <<>>
  /\ UNCHANGED orphans

\* A new process and a new pipe, which carries the initialize request; a
\* process that is left behind lives on, out of reach.
Spawn(left) ==
  /\ orphans' = orphans + (IF left THEN 1 ELSE 0)
  /\ live' = TRUE /\ hung' = FALSE
  /\ down' = <<None>> /\ up' = <<>>

Return(c, value) ==
  /\ holder' = NoOne /\ at' = "out"
  /\ got' = [got EXCEPT ![c] = value]

Goto(step) == at' = step /\ UNCHANGED <<holder, got>>

SameWorker == UNCHANGED <<live, hung, orphans, down, up>>

-----------------------------------------------------------------------------
(* A call, between taking and releasing the lock.                          *)

Enter(c) ==
  /\ holder = NoOne /\ calls < MaxCalls
  /\ holder' = c /\ at' = "ensure"
  /\ calls' = calls + 1
  /\ asked' = [asked EXCEPT ![c] = calls'] /\ got' = [got EXCEPT ![c] = None]
  /\ SameWorker
  /\ UNCHANGED <<cool, workerFaults>>

\* A live worker is used; a dead one is replaced when the cooldown is over.
Ensure(c) ==
  /\ holder = c /\ at = "ensure"
  /\ \/ live /\ Goto("send") /\ SameWorker /\ UNCHANGED cool
     \/ ~live /\ ~cool /\ Kill /\ Return(c, None) /\ UNCHANGED cool
     \/ ~live /\ cool /\ cool' = FALSE /\ Spawn(FALSE) /\ Goto("startCall")
  /\ UNCHANGED <<calls, asked, workerFaults>>

\* initialize answers within the timeout; the call goes on, or the start
\* was all there was to do.
Started(c) ==
  /\ holder = c /\ at \in {"startCall", "startOnly"} /\ up # <<>>
  /\ up' = Tail(up) /\ UNCHANGED <<live, hung, orphans, down, cool>>
  /\ IF at = "startCall" THEN Goto("send") ELSE Return(c, None)
  /\ UNCHANGED <<calls, asked, workerFaults>>

\* The terminal refuses, the worker died, or 8 s passed (the cooldown's length).
StartFails(c) ==
  /\ holder = c /\ at \in {"startCall", "startOnly"}
  /\ \/ /\ up # <<>> /\ workerFaults < MaxWorkerFaults
        /\ workerFaults' = workerFaults + 1 /\ UNCHANGED cool
     \/ up = <<>> /\ ~live /\ UNCHANGED <<cool, workerFaults>>
     \/ up = <<>> /\ live /\ cool' = TRUE /\ UNCHANGED workerFaults
  /\ Kill /\ Return(c, None)
  /\ UNCHANGED <<calls, asked>>

Send(c) ==
  /\ holder = c /\ at = "send" /\ live
  /\ down' = Append(down, asked[c]) /\ Goto("wait")
  /\ UNCHANGED <<live, hung, orphans, up, calls, asked, cool, workerFaults>>

Answered(c) ==
  /\ holder = c /\ at = "wait" /\ up # <<>>
  /\ up' = Tail(up) /\ Return(c, Head(up))
  /\ UNCHANGED <<live, hung, orphans, down, calls, asked, cool, workerFaults>>

\* Mutants: a call that timed out leaves the worker and the pipe as they are;
\* the poll for the answer has no timeout.
GiveUpKeepsWorker(c) ==
  /\ holder = c /\ at = "wait" /\ up = <<>>
  /\ Return(c, None) /\ SameWorker
  /\ UNCHANGED <<calls, asked, cool, workerFaults>>

GiveUpOnDead(c) ==
  /\ holder = c /\ ~live
  /\ at = "send" \/ (at = "wait" /\ up = <<>>)
  /\ Kill /\ Return(c, None)
  /\ UNCHANGED <<calls, asked, cool, workerFaults>>

\* Broken pipe, end of file, or no answer in time: at least the cooldown has
\* passed then. The worker is killed and, if the cooldown allows, replaced.
GiveUp(c) ==
  /\ holder = c
  /\ \E cooled \in {TRUE, cool} :
       /\ \/ at = "send" /\ ~live /\ cooled = cool
          \/ at = "wait" /\ up = <<>> /\ cooled = (IF live THEN TRUE ELSE cool)
       /\ IF cooled
          THEN Spawn(FALSE) /\ cool' = FALSE /\ Goto("startOnly")
          ELSE Kill /\ Return(c, None) /\ UNCHANGED cool
  /\ UNCHANGED <<calls, asked, workerFaults>>

\* initialize: unlike connect it keeps a live worker and ignores the cooldown.
Initialize(c) ==
  /\ holder = NoOne
  /\ cool' = FALSE
  /\ IF live
     THEN SameWorker /\ UNCHANGED <<holder, at, got>>
     ELSE /\ Spawn(FALSE)
          /\ holder' = c /\ at' = "startOnly" /\ got' = [got EXCEPT ![c] = None]
  /\ UNCHANGED <<calls, asked, workerFaults>>

Connect(c) ==
  /\ holder = NoOne /\ cool
  /\ cool' = FALSE
  /\ Spawn(FALSE)
  /\ holder' = c /\ at' = "startOnly" /\ got' = [got EXCEPT ![c] = None]
  /\ UNCHANGED <<calls, asked, workerFaults>>

\* The worker gets 2 s to leave, then it is killed; a later call starts another.
Shutdown ==
  /\ holder = NoOne
  /\ Kill
  /\ UNCHANGED <<holder, at, calls, asked, got, cool, workerFaults>>

-----------------------------------------------------------------------------
(* The worker process and the clock.                                       *)

\* One answer per request, in order: a result that cannot be sent is answered
\* with the error.
WorkerAnswers ==
  /\ live /\ ~hung /\ down # <<>>
  /\ down' = Tail(down) /\ up' = Append(up, Head(down))
  /\ UNCHANGED <<holder, at, calls, asked, got, live, hung, orphans, cool,
                 workerFaults>>

\* The terminal call never comes back, or the process dies.
WorkerFails ==
  /\ live /\ workerFaults < MaxWorkerFaults
  /\ workerFaults' = workerFaults + 1
  /\ \/ down # <<>> /\ ~hung /\ hung' = TRUE /\ UNCHANGED live
     \/ live' = FALSE /\ hung' = FALSE
  /\ UNCHANGED <<holder, at, calls, asked, got, orphans, down, up, cool>>

CooldownPasses ==
  /\ ~cool /\ cool' = TRUE
  /\ UNCHANGED <<holder, at, calls, asked, got, live, hung, orphans, down, up,
                 workerFaults>>

CallStep(c) ==
  Ensure(c) \/ Started(c) \/ StartFails(c) \/ Send(c) \/ Answered(c) \/ GiveUp(c)

DriverNext ==
  \/ \E c \in Callers : Enter(c) \/ CallStep(c) \/ Initialize(c) \/ Connect(c)
  \/ Shutdown \/ WorkerAnswers \/ WorkerFails \/ CooldownPasses

\* Nothing a holder of the lock waits for is unbounded: poll has a timeout.
DriverFairness == \A c \in Callers : WF_driverVars(CallStep(c))

DriverSpec == DriverInit /\ [][DriverNext]_driverVars /\ DriverFairness

-----------------------------------------------------------------------------
(* Properties.                                                             *)

\* What a call returns is the answer to its own request or no result at all:
\* an answer that comes after its caller gave up is never read, and there is
\* never a second worker on the terminal that could act as well (_call,
\* _kill_locked).
OwnAnswers ==
  /\ \A c \in Callers : got[c] \in {None, asked[c]}
  /\ orphans = 0

\* Whoever takes the lock gives it back, whatever the terminal does: one stuck
\* call must not stop the market data and the orders of all strategies.
LockReleased == \A c \in Callers : (holder = c) ~> (holder = NoOne)
==============================================================================
