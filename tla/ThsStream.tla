-------------------------------- MODULE ThsStream --------------------------------
(***************************************************************************)
(* The A-share source (gateway/market_sources/ths_source.py): ThsApi, one  *)
(* session of an SDK that can hang, behind a lock; and the stream loop     *)
(* that polls snapshots with the day's cumulative volume and builds the    *)
(* bars of the day from their differences, after a seed from history.      *)
(*                                                                         *)
(* Abstracted: one code, one day; of the day's bars the volume of all. A    *)
(* call of the SDK is one step: the lock admits one at a time.             *)
(***************************************************************************)
EXTENDS Integers

CONSTANTS
  DayVolume,      \* bound: the day's volume
  SessionFaults,  \* bound: times the SDK's session breaks
  MaxLoopRestarts \* bound: times the loop is cancelled

ASSUME ThsAssumption ==
  DayVolume \in Nat /\ SessionFaults \in Nat
  /\ MaxLoopRestarts \in Nat

VARIABLES
  traded,          \* the volume of the day so far
  session,         \* ThsApi: "none", "good", or "dead", a session kept though it is dead
  cooling,         \* connected less than the cooldown ago
  breaks,          \* times a session broke
  loop,            \* the stream loop: "out", "poll", "seed" or "apply"
  snapshot,        \* the cumulative volume it read
  seeded,          \* whether the day's state exists
  m1, lastCum,     \* _SymState: volume of the day's bars, last cumulative volume
  overlap,         \* ghost: volume traded after the first snapshot, in the seed
  loopRestarts     \* times the loop was cancelled

thsVars == <<traded, session, cooling, breaks, loop, snapshot, seeded,
             m1, lastCum, overlap, loopRestarts>>

ThsTypeOK ==
  /\ traded \in 0 .. DayVolume
  /\ session \in {"none", "good", "dead"} /\ cooling \in BOOLEAN
  /\ breaks \in 0 .. SessionFaults
  /\ loop \in {"out", "poll", "seed", "apply"} /\ seeded \in BOOLEAN
  /\ m1 \in Nat /\ lastCum \in 0 .. DayVolume

ThsInit ==
  /\ traded = 0
  /\ session = "none" /\ cooling = FALSE /\ breaks = 0
  /\ loop = "out" /\ snapshot = 0 /\ seeded = FALSE
  /\ m1 = 0 /\ lastCum = 0 /\ overlap = 0 /\ loopRestarts = 0

ThsTrade ==
  /\ traded < DayVolume /\ traded' = traded + 1
  /\ UNCHANGED <<session, cooling, breaks, loop, snapshot, seeded, m1, lastCum, overlap, loopRestarts>>

-----------------------------------------------------------------------------
(* ThsApi. A call that succeeds has a good session; after one that fails    *)
(* with a timeout, an exception or a dead connection, there is none.        *)

\* The network or the server ends the session; nobody knows yet.
SessionBreaks ==
  /\ session = "good" /\ breaks < SessionFaults
  /\ session' = "dead" /\ breaks' = breaks + 1
  /\ UNCHANGED <<traded, cooling, loop, snapshot, seeded, m1, lastCum, overlap, loopRestarts>>

\* _ensure_locked, from connect or the start of any call.
ThsConnect ==
  /\ session = "none" /\ ~cooling
  /\ cooling' = TRUE
  /\ session' = "good" \/ session' = "none"
  /\ UNCHANGED <<traded, breaks, loop, snapshot, seeded, m1, lastCum, overlap, loopRestarts>>

ReconnectCools ==
  /\ cooling /\ cooling' = FALSE
  /\ UNCHANGED <<traded, session, breaks, loop, snapshot, seeded, m1, lastCum, overlap, loopRestarts>>

\* Any other caller of the driver meets the dead session: it is dropped.
OtherCallDrops ==
  /\ session = "dead" /\ session' = "none"
  /\ UNCHANGED <<traded, cooling, breaks, loop, snapshot, seeded, m1, lastCum, overlap, loopRestarts>>

-----------------------------------------------------------------------------
(* stream_loop and _update_symbol.                                         *)

BeginPoll ==
  /\ loop = "out" /\ loop' = "poll"
  /\ UNCHANGED <<traded, session, cooling, breaks, snapshot, seeded, m1, lastCum, overlap, loopRestarts>>

\* The state of the day is made before its seed is there.
Snapshot ==
  /\ loop = "poll" /\ session = "good"
  /\ snapshot' = traded
  /\ seeded' = TRUE
  /\ IF seeded THEN loop' = "apply" /\ UNCHANGED <<m1, lastCum, overlap>>
     ELSE /\ loop' = "seed"
          /\ m1' = 0 /\ lastCum' = 0 /\ overlap' = 0
  /\ UNCHANGED <<traded, session, cooling, breaks, loopRestarts>>

\* Mutant: a call that fails on a dead connection keeps the session.
SnapshotFailsKept ==
  /\ loop = "poll" /\ session # "good"
  /\ loop' = "out"
  /\ UNCHANGED <<traded, session, cooling, breaks, snapshot, seeded, m1, lastCum,
                 overlap, loopRestarts>>

SnapshotFails ==
  /\ loop = "poll" /\ session # "good"
  /\ session' = "none" /\ loop' = "out"
  /\ UNCHANGED <<traded, cooling, breaks, snapshot, seeded, m1, lastCum, overlap, loopRestarts>>

\* _seed_today: today's bars up to now, or none.
Seed ==
  /\ loop = "seed" /\ loop' = "apply"
  /\ IF session = "good" THEN m1' = traded /\ overlap' = traded - snapshot /\ UNCHANGED session
     ELSE session' = "none" /\ UNCHANGED <<m1, overlap>>
  /\ UNCHANGED <<traded, cooling, breaks, snapshot, seeded, lastCum, loopRestarts>>

\* Mutant: the first snapshot of the day is a difference too.
ApplyFirstToo ==
  /\ loop = "apply" /\ loop' = "out"
  /\ m1' = m1 + (IF snapshot > lastCum THEN snapshot - lastCum ELSE 0)
  /\ lastCum' = snapshot
  /\ UNCHANGED <<traded, session, cooling, breaks, snapshot, seeded, overlap, loopRestarts>>

\* The first snapshot is only the baseline of the differences.
ApplySnapshot ==
  /\ loop = "apply" /\ loop' = "out"
  /\ LET delta == IF lastCum # 0 /\ snapshot > lastCum THEN snapshot - lastCum ELSE 0
     IN m1' = m1 + delta
  /\ lastCum' = snapshot
  /\ UNCHANGED <<traded, session, cooling, breaks, snapshot, seeded, overlap, loopRestarts>>

\* The subscriptions change and the loop is cancelled at an await.
RestartThsLoop ==
  /\ loop \in {"poll", "seed"} /\ loopRestarts < MaxLoopRestarts
  /\ loop' = "out" /\ loopRestarts' = loopRestarts + 1
  /\ UNCHANGED <<traded, session, cooling, breaks, snapshot, seeded, m1, lastCum, overlap>>

ThsLoopStep == BeginPoll \/ Snapshot \/ SnapshotFails \/ Seed \/ ApplySnapshot

ThsNext ==
  \/ ThsTrade
  \/ SessionBreaks \/ ThsConnect \/ ReconnectCools \/ OtherCallDrops
  \/ ThsLoopStep \/ RestartThsLoop

\* The loop goes on by itself: its calls have timeouts.
ThsFairness == WF_thsVars(ThsLoopStep)

ThsSpec == ThsInit /\ [][ThsNext]_thsVars /\ ThsFairness

\* The day's bars have no more volume than was traded, but for what was traded
\* between the first snapshot and the seed: a poll that failed or a loop that
\* was cancelled is caught up once, by one difference (_update_symbol).
VolumeCountedOnce == m1 <= traded + overlap

\* What _update_symbol and _seed_today say: the first snapshot is a baseline only,
\* the seed has what was traded before it, and nothing is counted twice.
\* No run checks it, since the code does not keep it (README, section 5).
SeedNotCountedAgain == m1 <= traded

\* A session that died is replaced, as long as the source is polled: it is not
\* used and failed on forever (_call, the branches that drop the connection).
DeadSessionDropped == (session = "dead") ~> (session # "dead")
==============================================================================
