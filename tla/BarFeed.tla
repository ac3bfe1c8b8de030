--------------------------------- MODULE BarFeed ---------------------------------
(***************************************************************************)
(* How a bar gets from the market to a strategy: the two live data feeds   *)
(* (kqsdk/data_feed.py, a thread that polls the mt5 terminal, and          *)
(* kqsdk/binance_feed.py, WebSocket callbacks in an event loop), and the   *)
(* strategy threads that wait in KqApi.wait_update and ask is_changing     *)
(* (kqsdk/api.py).                                                         *)
(*                                                                         *)
(* A feed writes the bar cache and its version numbers under a lock, and   *)
(* sets the symbol's event some time after. A strategy thread clears the   *)
(* event, copies the versions and waits. The mt5 feed reads the two newest *)
(* rows and, when the time stamp jumped, reads deeper outside of the lock; *)
(* the binance feed awaits a REST call for a hole before it takes over the *)
(* bar that showed it.                                                     *)
(*                                                                         *)
(* Abstracted: one symbol and one period, bars are numbered by period and  *)
(* a bar's prices are a count of its changes; ticks, volumes and the       *)
(* heartbeat age are left out. A terminal that does not answer is a poll   *)
(* that does not happen.                                                   *)
(***************************************************************************)
EXTENDS Integers, Sequences, FiniteSets, SequencesExt

CONSTANTS
  Feeds,      \* which feeds to explore: "mt5", "binance"
  Readers,    \* the strategy threads of the symbol
  BarCount,   \* bars the cache keeps
  RunUntil,   \* whether a running time is set (set_run_until)
  Faults,     \* which faults may happen
  MaxBars,    \* bound: the period of the newest bar
  MaxChanges  \* bound: changes of the forming bar, and messages on their way

ASSUME FeedAssumption  == Feeds \subseteq {"mt5", "binance"}
ASSUME CountAssumption == BarCount \in Nat \ {0} /\ RunUntil \in BOOLEAN
ASSUME FaultAssumption == Faults \subseteq {"outage", "fetchFails", "holiday", "stop"}
ASSUME BoundAssumption == MaxBars \in Nat /\ MaxChanges \in Nat

Bar   == [ts : Nat, val : Nat]
NoBar == [ts |-> 0, val |-> 0]
Hole  == [lo : Nat, hi : Nat]
NoHole == [lo |-> 0, hi |-> 0]

VARIABLES
  feed,             \* the feed in use, fixed
  market,           \* the source's bars, oldest first; the last one is forming
  linked, ws,       \* binance: the WebSocket is up; messages on their way
  ready,            \* mt5: warmed up; binance: start() has returned
  running,          \* the feed was not stopped
  bars,             \* the cache: _bars of the key
  ver, closeVer,    \* _versions of the key and of its #bar key
  fpc,              \* what the feed does: "idle", "gap", "append", "signal"
  job,              \* the bar in hand, the final row of the one before, the hole
  tried, pending,   \* _gap_attempted, _gap_pending
  event,            \* the symbol's event
  rpc, snap,        \* per reader: its step, and the versions it copied
  unseen,           \* history: the readers for whom a bar closed since their
                    \*   wait_update last returned (or they started)
  kept,             \* history: no bar of the source ended unseen by the feed
  missed            \* history: a gap read failed or was cut to BarCount rows

marketVars == <<feed, market, linked, kept>>
cacheVars  == <<bars, ver, closeVer, unseen>>
gapVars    == <<tried, pending, missed>>
readerVars == <<rpc, snap>>
vars == <<marketVars, ws, ready, running, cacheVars, fpc, job, gapVars, event, readerVars>>

Steps == {"work", "call", "clear", "snapshot", "wait", "blocked", "woken", "ended"}

TypeOK ==
  /\ feed \in {"mt5", "binance"}
  /\ market \in Seq(Bar) /\ market # <<>>
  /\ linked \in BOOLEAN /\ ws \in Seq(Bar)
  /\ ready \in BOOLEAN /\ running \in BOOLEAN
  /\ bars \in Seq(Bar) /\ Len(bars) <= BarCount
  /\ ver \in Nat /\ closeVer \in Nat
  /\ fpc \in {"idle", "gap", "append", "signal"}
  /\ job \in [new : Bar, closed : Bar, hole : Hole]
  /\ tried \in Hole /\ pending \in Hole
  /\ event \in BOOLEAN
  /\ rpc \in [Readers -> Steps]
  /\ snap \in [Readers -> [ver : Nat, close : Nat]]
  /\ unseen \subseteq Readers
  /\ kept \in BOOLEAN /\ missed \in BOOLEAN

NoJob == [new |-> NoBar, closed |-> NoBar, hole |-> NoHole]

Init ==
  /\ feed \in Feeds
  /\ market = <<[ts |-> 1, val |-> 0]>>
  /\ linked = FALSE /\ ws = <<>> /\ ready = FALSE /\ running = TRUE
  /\ bars = <<>> /\ ver = 0 /\ closeVer = 0
  /\ fpc = "idle" /\ job = NoJob
  /\ tried = NoHole /\ pending = NoHole
  /\ event = FALSE
  /\ rpc = [r \in Readers |-> "work"]
  /\ snap = [r \in Readers |-> [ver |-> 0, close |-> 0]]
  /\ unseen = {}
  /\ kept = TRUE /\ missed = FALSE

Newest    == Last(market)
LastN(s, n) == SubSeq(s, Len(s) - (IF n < Len(s) THEN n ELSE Len(s)) + 1, Len(s))
Times(rows) == {b.ts : b \in rows}
Between(s, h) == {b \in Range(s) : h.lo < b.ts /\ b.ts < h.hi}

\* list.sort by the time stamp, of which each row has its own.
ByTime(rows) ==
  [i \in 1 .. Cardinality(rows) |->
     CHOOSE b \in rows : Cardinality({a \in rows : a.ts < b.ts}) = i - 1]

\* The bars of s and those missing whose time s does not have, by time.
Merge(s, missing) ==
  ByTime(Range(s) \cup {b \in missing : b.ts \notin Times(Range(s))})

-----------------------------------------------------------------------------
(* The market (external), and what it sends to a linked WebSocket.         *)

Push(b) == ws' = IF linked THEN Append(ws, b) ELSE ws

Trade ==
  /\ Newest.val < MaxChanges /\ Len(ws) < MaxChanges
  /\ market' = [market EXCEPT ![Len(market)].val = @ + 1]
  /\ Push(Last(market'))
  /\ kept' = (kept /\ (feed = "mt5" \/ linked \/ bars = <<>>))
  /\ UNCHANGED <<feed, linked, ready, running, cacheVars, fpc, job, gapVars, event,
                 readerVars>>

\* A message that changes nothing but the volume.
Repeat ==
  /\ linked /\ ws = <<>>
  /\ Push(Newest)
  /\ UNCHANGED <<marketVars, ready, running, cacheVars, fpc, job, gapVars, event,
                 readerVars>>

\* Polls need a bar more than pushes: the one that ends in the middle of the
\* deeper read.
LastPeriod == IF feed = "mt5" THEN MaxBars + 1 ELSE MaxBars

\* A bar ends and the next one begins; after a holiday periods are missing in
\* the source itself. Bars are longer than a read of the terminal takes, so at
\* most one ends in the middle of it; the feed keeps up if each bar was in its
\* hands before it ended.
NewBar ==
  /\ Newest.ts < LastPeriod /\ Len(ws) < MaxChanges
  /\ (feed = "mt5" /\ fpc = "gap") => Newest.ts = job.new.ts
  /\ \E gap \in {1, 3} :
       /\ gap > 1 => "holiday" \in Faults
       /\ market' = Append(market, [ts |-> Newest.ts + gap, val |-> 0])
  /\ Push(Last(market'))
  /\ kept' = (kept /\ \/ bars = <<>>
                      \/ feed = "mt5" /\ Newest.ts \in {Last(bars).ts, job.new.ts}
                      \/ feed = "binance" /\ linked)
  /\ UNCHANGED <<feed, linked, ready, running, cacheVars, fpc, job, gapVars, event,
                 readerVars>>

\* The WebSocket is lost and comes back; what was sent meanwhile is not.
Unlink ==
  /\ "outage" \in Faults /\ linked
  /\ linked' = FALSE
  /\ UNCHANGED <<feed, market, kept, ws, ready, running, cacheVars, fpc, job, gapVars,
                 event, readerVars>>

Relink ==
  /\ feed = "binance" /\ ready /\ ~linked
  /\ linked' = TRUE
  /\ UNCHANGED <<feed, market, kept, ws, ready, running, cacheVars, fpc, job, gapVars,
                 event, readerVars>>

-----------------------------------------------------------------------------
(* Mt5DataFeed: the poll thread.                                           *)

\* _warm_symbol; a failed attempt changes nothing and is repeated.
Warm ==
  /\ feed = "mt5" /\ running /\ ~ready /\ fpc = "idle"
  /\ bars' = LastN(market, BarCount)
  /\ ver' = ver + 1
  /\ ready' = TRUE /\ fpc' = "signal"
  /\ UNCHANGED <<marketVars, ws, running, closeVer, unseen, job, gapVars, event, readerVars>>

\* _poll_bars reads the two newest rows: a changed bar is replaced, a new one
\* is taken in hand, together with the final row of the bar before it.
PollBars ==
  /\ feed = "mt5" /\ running /\ ready /\ fpc = "idle"
  /\ LET last == Last(bars) IN
       \/ /\ Newest.ts = last.ts /\ Newest.val # last.val
          /\ bars' = [bars EXCEPT ![Len(bars)] = Newest]
          /\ ver' = ver + 1 /\ fpc' = "signal"
          /\ UNCHANGED job
       \/ /\ Newest.ts # last.ts
          /\ job' = [new    |-> Newest,
                     closed |-> LET rows == LastN(market, 2) IN
                                IF rows[1].ts = last.ts THEN rows[1] ELSE NoBar,
                     hole   |-> [lo |-> last.ts, hi |-> Newest.ts]]
          /\ fpc' = "gap"
          /\ UNCHANGED <<bars, ver>>
  /\ UNCHANGED <<marketVars, ws, ready, running, closeVer, unseen, gapVars, event, readerVars>>

\* Mutant: the bar before keeps what the last poll saw of it.
TakeOverNoBackfill(missing) ==
  LastN(Append(Merge(bars, missing), job.new), BarCount)

\* The cache after _poll_bars has taken over the bar in hand.
TakeOver(missing) ==
  LET base == IF job.closed = NoBar THEN bars
              ELSE [bars EXCEPT ![Len(bars)] = job.closed] IN
    LastN(Append(Merge(base, missing), job.new), BarCount)

Jump(h) == h.hi > h.lo + 1

\* How many rows, from the newest, reach back to the hole.
Depth(h) == h.hi - h.lo + 1

\* _fetch_missing and the second half of _poll_bars: one deeper read outside of
\* the lock, if the periods jump, and the take-over under the lock. The read
\* counts rows from the newest, and a hole is read once, whatever comes of it.
FetchMissing ==
  LET rows   == LastN(market, IF Depth(job.hole) < BarCount THEN Depth(job.hole)
                                                          ELSE BarCount)
      needed == Jump(job.hole) /\ tried # job.hole IN
  /\ feed = "mt5" /\ fpc = "gap"
  /\ \E ok \in BOOLEAN :
       /\ ok \/ (needed /\ "fetchFails" \in Faults)
       /\ LET missing == IF needed /\ ok THEN Between(rows, job.hole) ELSE {} IN
            /\ bars' = TakeOver(missing)
            /\ ver'  = ver + (IF missing = {} THEN 1 ELSE 2)
       /\ missed' = (missed \/ ~ok \/ Depth(job.hole) > BarCount)
  /\ tried' = IF needed THEN job.hole ELSE tried
  /\ closeVer' = closeVer + 1 /\ unseen' = Readers
  /\ fpc' = "signal" /\ job' = NoJob
  /\ UNCHANGED <<marketVars, ws, ready, running, pending, event, readerVars>>

-----------------------------------------------------------------------------
(* BinanceDataFeed: callbacks in the event loop, awaited one at a time.    *)

\* _async_start: the history by REST ...
Load ==
  /\ feed = "binance" /\ running /\ bars = <<>>
  /\ bars' = LastN(market, BarCount)
  /\ ver' = ver + 1
  /\ UNCHANGED <<marketVars, ws, ready, running, closeVer, unseen, fpc, job, gapVars, event,
                 readerVars>>

\* ... then the subscriptions and the WebSocket.
Link ==
  /\ feed = "binance" /\ bars # <<>> /\ ~ready
  /\ ready' = TRUE /\ linked' = TRUE
  /\ UNCHANGED <<feed, market, kept, ws, running, cacheVars, fpc, job, gapVars, event,
                 readerVars>>

\* _on_kline up to the read of _fill_gap: a hole whose read failed is read again
\* when its pause is over, otherwise the hole in front of this bar, if any.
OnKline ==
  /\ feed = "binance" /\ running /\ fpc = "idle" /\ ws # <<>>
  /\ ws' = Tail(ws)
  /\ LET bar  == Head(ws)
         hole == [lo |-> Last(bars).ts, hi |-> bar.ts] IN
       \/ /\ pending # NoHole
          /\ job' = [new |-> bar, closed |-> NoBar, hole |-> pending]
          /\ pending' = NoHole /\ fpc' = "gap"
          /\ UNCHANGED tried
       \/ /\ Jump(hole) /\ tried # hole
          /\ job' = [new |-> bar, closed |-> NoBar, hole |-> hole]
          /\ tried' = hole /\ fpc' = "gap"
          /\ UNCHANGED pending
       \/ /\ ~Jump(hole) \/ tried = hole
          /\ job' = [new |-> bar, closed |-> NoBar, hole |-> NoHole]
          /\ fpc' = "append"
          /\ UNCHANGED <<tried, pending>>
  /\ UNCHANGED <<marketVars, ready, running, cacheVars, missed, event, readerVars>>

\* The rest of _fill_gap: a failed read makes the hole pending, an empty answer
\* marks it as tried, and what was found is merged unless the hole has left the
\* cache. Only the key's version counts up, and no event is set.
FillGap ==
  /\ feed = "binance" /\ fpc = "gap"
  /\ \/ LET missing == Between(market, job.hole)
            add     == {b \in missing : b.ts \notin Times(Range(bars))} IN
          /\ IF add = {} \/ Head(bars).ts > job.hole.lo
             THEN UNCHANGED <<bars, ver>>
             ELSE bars' = LastN(Merge(bars, missing), BarCount) /\ ver' = ver + 1
          /\ tried' = IF missing = {} THEN job.hole ELSE tried
          /\ UNCHANGED <<pending, missed>>
     \/ /\ "fetchFails" \in Faults
        /\ pending' = job.hole /\ missed' = TRUE
        /\ UNCHANGED <<bars, ver, tried>>
  /\ fpc' = "append"
  /\ UNCHANGED <<marketVars, ws, ready, running, closeVer, unseen, job, event, readerVars>>

\* The rest of _on_kline under the lock.
AppendBar ==
  /\ feed = "binance" /\ fpc = "append"
  /\ \/ /\ job.new.ts # Last(bars).ts
        /\ bars' = LastN(Append(bars, job.new), BarCount)
        /\ ver' = ver + 1 /\ closeVer' = closeVer + 1 /\ unseen' = Readers
        /\ fpc' = "signal"
     \/ /\ job.new.ts = Last(bars).ts /\ job.new # Last(bars)
        /\ bars' = [bars EXCEPT ![Len(bars)] = job.new]
        /\ ver' = ver + 1
        /\ fpc' = "signal" /\ UNCHANGED <<closeVer, unseen>>
     \/ /\ job.new = Last(bars)
        /\ fpc' = "idle" /\ UNCHANGED cacheVars
  /\ job' = NoJob
  /\ UNCHANGED <<marketVars, ws, ready, running, gapVars, event, readerVars>>

-----------------------------------------------------------------------------
(* The event, and the strategy threads in KqApi.wait_update.               *)

\* event.set(): every thread blocked in wait() goes on.
SetEvent ==
  /\ event' = TRUE
  /\ rpc' = [r \in Readers |-> IF rpc[r] = "blocked" THEN "woken" ELSE rpc[r]]

\* The end of a poll, or of a callback.
Signal ==
  /\ fpc = "signal"
  /\ SetEvent
  /\ fpc' = "idle"
  /\ UNCHANGED <<marketVars, ws, ready, running, cacheVars, job, gapVars, snap>>

\* stop(): no more polls, and the waiting threads are woken.
Stop ==
  /\ "stop" \in Faults /\ running /\ (feed = "binance" => ready)
  /\ running' = FALSE
  /\ SetEvent
  /\ UNCHANGED <<marketVars, ws, ready, cacheVars, fpc, job, gapVars, snap>>

Goes(r, from, to) ==
  /\ rpc[r] = from
  /\ rpc' = [rpc EXCEPT ![r] = to]

\* What wait_update does when its wait brought nothing: with a running time it
\* goes round again, otherwise the strategy is told to end.
Nothing == IF RunUntil THEN "call" ELSE "ended"

\* wait_and_snapshot looks whether the feed runs. (Strategies start when the
\* feed's start() has returned, which on mt5 does not wait for the warm-up.)
Enter(r) ==
  /\ feed = "binance" => ready
  /\ \E s \in {"work", "call"} : Goes(r, s, IF running THEN "clear" ELSE Nothing)
  /\ UNCHANGED <<marketVars, ws, ready, running, cacheVars, fpc, job, gapVars, event,
                 snap>>

\* The running time is over.
Expire(r) ==
  /\ RunUntil
  /\ \E s \in {"work", "call"} : Goes(r, s, "ended")
  /\ UNCHANGED <<marketVars, ws, ready, running, cacheVars, fpc, job, gapVars, event,
                 snap>>

\* Mutant: the versions are copied first.
ClearAfterSnapshot(r) ==
  \/ /\ Goes(r, "clear", "snapshot")
     /\ snap' = [snap EXCEPT ![r] = [ver |-> ver, close |-> closeVer]]
     /\ UNCHANGED <<marketVars, ws, ready, running, cacheVars, fpc, job, gapVars, event>>
  \/ /\ Goes(r, "snapshot", "wait")
     /\ event' = FALSE
     /\ UNCHANGED <<marketVars, ws, ready, running, cacheVars, fpc, job, gapVars, snap>>

Clear(r) ==
  /\ Goes(r, "clear", "snapshot")
  /\ event' = FALSE
  /\ UNCHANGED <<marketVars, ws, ready, running, cacheVars, fpc, job, gapVars, snap>>

Snapshot(r) ==
  /\ Goes(r, "snapshot", "wait")
  /\ snap' = [snap EXCEPT ![r] = [ver |-> ver, close |-> closeVer]]
  /\ UNCHANGED <<marketVars, ws, ready, running, cacheVars, fpc, job, gapVars, event>>

\* event.wait(): a set event lets the thread through.
Wait(r) ==
  /\ Goes(r, "wait", IF event THEN "woken" ELSE "blocked")
  /\ UNCHANGED <<marketVars, ws, ready, running, cacheVars, fpc, job, gapVars, event,
                 snap>>

\* The timeout of the wait: the time that is left, or the caller's own.
Timeout(r) ==
  /\ RunUntil
  /\ Goes(r, "blocked", "call")
  /\ UNCHANGED <<marketVars, ws, ready, running, cacheVars, fpc, job, gapVars, event,
                 snap>>

\* wait_update returns, and the strategy looks at what changed.
Return(r) ==
  /\ Goes(r, "woken", IF running THEN "work" ELSE Nothing)
  /\ unseen' = IF running THEN unseen \ {r} ELSE unseen
  /\ UNCHANGED <<marketVars, ws, ready, running, bars, ver, closeVer, fpc, job, gapVars, event,
                 snap>>

-----------------------------------------------------------------------------

Market == Trade \/ Repeat \/ NewBar \/ Unlink \/ Relink

FeedStep == \/ Warm \/ PollBars \/ FetchMissing
            \/ Load \/ Link \/ OnKline \/ FillGap \/ AppendBar
            \/ Signal

Reader(r) == \/ Enter(r) \/ Clear(r) \/ Snapshot(r) \/ Wait(r) \/ Return(r)

Next == \/ Market \/ FeedStep \/ Stop
        \/ \E r \in Readers : Reader(r) \/ Expire(r) \/ Timeout(r)

Spec == Init /\ [][Next]_vars

-----------------------------------------------------------------------------
(* Properties.                                                             *)

\* The cache is in order of time, has no bar twice and none the source lacks.
BarsOrdered ==
  /\ \A i, j \in 1 .. Len(bars) : i < j => bars[i].ts < bars[j].ts
  /\ Times(Range(bars)) \subseteq Times(Range(market))

\* Outages leave no hole: between two neighbours in the cache the source has no
\* bar, if every read of missing bars was answered and not cut short.
GapsFilled ==
  ~missed =>
    \A i \in 1 .. Len(bars) - 1 :
      LET h == [lo |-> bars[i].ts, hi |-> bars[i + 1].ts] IN
        Between(market, h) = {}

\* A closed bar in the cache is the bar the source closed, to its last change,
\* as long as the feed had every bar in hand before it ended.
ClosedBarsFinal ==
  kept => \A i \in 1 .. Len(bars) - 1 : bars[i] \in Range(market)

\* The history a strategy computes on is the market's: in order, no hole behind
\* an outage and no closed bar short of its final change.
HistoryComplete == BarsOrdered /\ GapsFilled /\ ClosedBarsFinal

\* A thread that waits with versions older than the cache's is not left alone:
\* its event is set, or the feed is about to set it.
NoLostWakeup ==
  running /\ ~missed =>
    \A r \in Readers : rpc[r] \in {"wait", "blocked"} /\ snap[r].ver # ver =>
      event \/ fpc \in {"append", "signal"}

\* A bar that closed since wait_update last returned is reported by the next
\* is_changing(klines, "timestamp"). No run checks it, since the code does not
\* keep it (README, section 5).
CloseReported ==
  [][\A r \in Readers :
       rpc[r] = "woken" /\ rpc'[r] = "work" /\ r \in unseen
         => closeVer # snap[r].close]_vars

\* A wait_update that finds the feed stopped ends the strategy's loop. No run
\* checks it, since the code does not keep it (README, section 5).
StopEndsWait ==
  [][\A r \in Readers :
       ~running /\ rpc[r] \in {"work", "woken"} /\ rpc'[r] # rpc[r] => rpc'[r] = "ended"
     ]_vars
===============================================================================
