------------------------------- MODULE KlineCache -------------------------------
(***************************************************************************)
(* The process-wide cache of bars (gateway/market_sources/kline_cache.py)  *)
(* over one source: requests for one (source, symbol, timeframe) key take  *)
(* turns under its lock; each refreshes the newest bars, fills in older    *)
(* ones and repairs holes, with an await at every fetch. The MT5 source    *)
(* (mt5_source.py) corrects the server's time zone while requests run.     *)
(*                                                                         *)
(* Abstracted: a timestamp is the number of its bar, the content of a bar  *)
(* is whether it was closed when it was fetched and the time zone it was   *)
(* converted with. A retry after a shift is a request of its own.          *)
(***************************************************************************)
EXTENDS Integers, FiniteSets, FiniteSetsExt

CONSTANTS
  SourceKinds,   \* of "rest" (binance) and "terminal" (MT5)
  OldestBar, NewestBar, \* the source's first bar; bound: bars there ever are
  MarketClosed,  \* timestamps without a bar
  Limits,        \* depths asked for
  TailRefresh, PageMin, PageMax, RepairMax, FillRounds, \* scaled from 3, 1000, 8000, 3, 50
  CacheFaults,   \* of "fetch", "cancel", "evict"
  MaxShifts      \* bound: corrections of the time zone

ASSUME CacheAssumption ==
  /\ SourceKinds \subseteq {"rest", "terminal"}
  /\ OldestBar \in Nat \ {0, 1} /\ NewestBar \in Nat /\ OldestBar <= NewestBar /\ OldestBar \notin MarketClosed
  /\ Limits \subseteq Nat \ {0} /\ {TailRefresh, PageMin, PageMax} \subseteq Nat \ {0}
  /\ RepairMax \in Nat /\ FillRounds \in Nat /\ MaxShifts \in Nat

Latest == 0
Idle   == [step |-> "idle", limit |-> 0, end |-> Latest, gen |-> 0, anchor |-> Latest,
           rounds |-> 0, gaps |-> {}]

VARIABLES
  source,       \* which kind of source it is
  newest,       \* the bar that is open now
  zone, tzGen,  \* the offset in use, and _tz_gen, which follows it
  bars,         \* the entry's bars: timestamp -> [final, zone]
  exhausted,    \* "no", "yes", or "retry": the cooldown of the mark is over
  gapAttempts,  \* holes tried within the cooldown
  tailFresh,    \* refreshed within the TTL
  entryGen,     \* the entry's tz_gen
  request,      \* the request that holds the lock
  evicted,      \* its entry is no longer in the cache
  served        \* the last response

cacheVars == <<source, newest, zone, tzGen, bars, exhausted, gapAttempts,
               tailFresh, entryGen, request, evicted, served>>
entryVars == <<bars, exhausted, gapAttempts, tailFresh, entryGen>>
worldVars == <<source, newest, zone, tzGen>>

Bars == DOMAIN bars
NoBars == [t \in {} |-> [final |-> TRUE, zone |-> 0]]

CacheTypeOK ==
  /\ source \in SourceKinds /\ newest \in OldestBar .. NewestBar
  /\ zone \in 0 .. MaxShifts /\ tzGen \in 0 .. MaxShifts
  /\ Bars \subseteq OldestBar .. NewestBar
  /\ exhausted \in {"no", "yes", "retry"}
  /\ gapAttempts \subseteq (OldestBar .. NewestBar) \X (OldestBar .. NewestBar)
  /\ tailFresh \in BOOLEAN /\ entryGen \in 0 .. MaxShifts
  /\ request.step \in {"idle", "tail", "fill", "repair"}
  /\ served \subseteq OldestBar .. NewestBar

CacheInit ==
  /\ source \in SourceKinds /\ newest = OldestBar
  /\ zone = 0 /\ tzGen = 0
  /\ bars = NoBars /\ exhausted = "no" /\ gapAttempts = {}
  /\ tailFresh = FALSE /\ entryGen = 0
  /\ request = Idle /\ evicted = FALSE /\ served = {}

-----------------------------------------------------------------------------
(* The source.                                                             *)

SourceBars == (OldestBar .. newest) \ MarketClosed

\* The newest n of a set of timestamps.
LastOf(n, s) == {t \in s : Cardinality({u \in s : u > t}) < n}

UpTo(end, s) == IF end = Latest THEN s ELSE {t \in s : t <= end}

\* A page before a time is asked of the terminal as a range of 2n intervals.
TerminalRange(n, end) == {t \in SourceBars : end = Latest \/ t >= end - 2 * n}

\* fetch_klines: binance pages until it has n bars or there are no more.
Page(n, end) ==
  LastOf(n, UpTo(end, IF source = "terminal" THEN TerminalRange(n, end) ELSE SourceBars))

Fetched(page) == [t \in page |-> [final |-> t < newest, zone |-> zone]]

Merge(over, under) ==
  [t \in DOMAIN over \cup DOMAIN under |-> IF t \in DOMAIN over THEN over[t] ELSE under[t]]

-----------------------------------------------------------------------------
(* _served_klines.                                                         *)

ExhaustedActive == exhausted = "yes"

CountLe(s, end) == Cardinality(UpTo(end, s))

NeedMore(s, r) == r.limit > CountLe(s, r.end)

Oldest(s) == Min(s)

\* The holes of the window that will be served, those tried lately left out.
HolesOf(s, r) ==
  LET window == LastOf(r.limit, UpTo(r.end, s)) IN
  {g \in window \X window : g[2] - g[1] > 1 /\ \A t \in window : ~(g[1] < t /\ t < g[2])}

\* Mutant: only holes of more than one bar are looked for.
WideGapsToTry(s, r) ==
  LET gaps == {g \in HolesOf(s, r) : g[2] - g[1] > 2} \ gapAttempts
  IN {g \in gaps : Cardinality({h \in gaps : h[1] < g[1]}) < RepairMax}

\* The first RepairMax of them.
GapsToTry(s, r) ==
  LET gaps == HolesOf(s, r) \ gapAttempts
  IN {g \in gaps : Cardinality({h \in gaps : h[1] < g[1]}) < RepairMax}

EmptyEntry ==
  /\ bars' = NoBars /\ exhausted' = "no" /\ gapAttempts' = {}

\* Mutant: the generation is compared when the entry is made, and never again.
StaleEntryUnseen == FALSE

\* Bars of another time zone.
StaleEntry == entryGen # tzGen /\ Bars # {}

\* Taking the lock: an entry of another time zone is dropped; the newest bars
\* are fetched when the window has them and the last refresh is not too recent.
BeginRequest(limit, end) ==
  LET kept == IF StaleEntry THEN {} ELSE Bars
      touches == end = Latest \/ (kept # {} /\ end >= Max(kept))
  IN /\ request.step = "idle"
     /\ IF StaleEntry THEN EmptyEntry ELSE UNCHANGED <<bars, exhausted, gapAttempts>>
     /\ entryGen' = tzGen
     /\ request' = [Idle EXCEPT
          !.step   = IF touches /\ (kept = {} \/ ~tailFresh) THEN "tail" ELSE "fill",
          !.limit  = limit, !.end = end, !.gen = tzGen,
          !.anchor = IF kept = {} THEN end ELSE Oldest(kept) - 1]
     /\ served' = {}
     /\ UNCHANGED <<worldVars, tailFresh, evicted>>

EndRequest(response) ==
  /\ request' = Idle /\ evicted' = FALSE
  /\ served' = response

TailFetch ==
  /\ request.step = "tail"
  /\ LET page == Page(IF Bars = {} THEN request.limit ELSE TailRefresh, Latest) IN
     /\ bars' = Merge(Fetched(page), bars)
     /\ request' = [request EXCEPT !.step = "fill",
          !.anchor = IF DOMAIN bars' = {} THEN request.end ELSE Oldest(DOMAIN bars') - 1]
  /\ tailFresh' = TRUE
  /\ UNCHANGED <<worldVars, exhausted, gapAttempts, entryGen, evicted, served>>

\* The first fetch has nothing to fall back to and raises.
TailFails ==
  /\ "fetch" \in CacheFaults /\ request.step = "tail"
  /\ IF Bars = {} THEN EndRequest({}) /\ UNCHANGED tailFresh
     ELSE /\ tailFresh' = TRUE
          /\ request' = [request EXCEPT !.step = "fill"] /\ UNCHANGED <<evicted, served>>
  /\ UNCHANGED <<worldVars, bars, exhausted, gapAttempts, entryGen>>

Filling == NeedMore(Bars, request) /\ ~ExhaustedActive /\ request.rounds < FillRounds

\* Older bars never replace those there are. A short page is the end of the
\* history at a REST source, at the terminal only an empty one is.
FillFetch ==
  /\ request.step = "fill" /\ Filling
  /\ LET need == request.limit - CountLe(Bars, request.end)
         take == Min({Max({need, PageMin}), PageMax})
         page == Page(take, request.anchor)
         ends == page = {} \/ (Cardinality(page) < take /\ source = "rest")
     IN /\ bars' = Merge(bars, Fetched(page))
        /\ exhausted' = IF ends THEN "yes" ELSE "no"
        /\ request' = [request EXCEPT !.rounds = @ + 1,
             !.anchor = IF page = {} THEN @ ELSE Oldest(page) - 1]
  /\ UNCHANGED <<worldVars, gapAttempts, tailFresh, entryGen, evicted, served>>

\* The loop ends, or a fetch fails and what there is has to do.
FillEnds ==
  /\ request.step = "fill"
  /\ ~Filling \/ "fetch" \in CacheFaults
  /\ request' = [request EXCEPT !.step = "repair", !.gaps = GapsToTry(Bars, request)]
  /\ UNCHANGED <<worldVars, entryVars, evicted, served>>

\* _repair_interior_gaps: a hole counts as tried before its fetch.
RepairGap ==
  /\ request.step = "repair" /\ request.gaps # {}
  /\ LET g == CHOOSE h \in request.gaps : \A i \in request.gaps : h[1] <= i[1]
         page == Page(g[2] - g[1] + 4, g[2] - 1)
     IN /\ gapAttempts' = gapAttempts \cup {g}
        /\ request' = [request EXCEPT !.gaps = @ \ {g}]
        /\ \/ bars' = Merge(bars, Fetched({t \in page : g[1] < t}))
           \/ "fetch" \in CacheFaults /\ UNCHANGED bars
  /\ UNCHANGED <<worldVars, exhausted, tailFresh, entryGen, evicted, served>>

\* A shift of the zone since the request began drops everything and raises.
FinishRequest ==
  /\ request.step = "repair" /\ request.gaps = {}
  /\ IF tzGen # request.gen \/ evicted THEN EmptyEntry
     ELSE UNCHANGED <<bars, exhausted, gapAttempts>>
  /\ tailFresh' = (tailFresh /\ ~evicted)
  /\ EndRequest(IF tzGen # request.gen THEN {}
                ELSE LastOf(request.limit, UpTo(request.end, Bars)))
  /\ UNCHANGED <<worldVars, entryGen>>

\* The client goes away: the entry stays as the last fetch left it.
CancelRequest ==
  /\ "cancel" \in CacheFaults /\ request.step # "idle"
  /\ EndRequest(served)
  /\ IF evicted THEN EmptyEntry /\ tailFresh' = FALSE
     ELSE UNCHANGED <<bars, exhausted, gapAttempts, tailFresh>>
  /\ UNCHANGED <<worldVars, entryGen>>

\* Other keys push this one out; a request under way keeps its entry.
Evict ==
  /\ "evict" \in CacheFaults
  /\ IF request.step = "idle"
     THEN EmptyEntry /\ tailFresh' = FALSE /\ UNCHANGED evicted
     ELSE evicted' = TRUE /\ UNCHANGED <<bars, exhausted, gapAttempts, tailFresh>>
  /\ UNCHANGED <<worldVars, entryGen, request, served>>

-----------------------------------------------------------------------------
(* The clocks, the market and the time zone.                               *)

NextBar ==
  /\ \E t \in newest + 1 .. NewestBar :
       /\ t \notin MarketClosed /\ newest + 1 .. t - 1 \subseteq MarketClosed
       /\ newest' = t
  /\ UNCHANGED <<source, zone, tzGen, entryVars, request, evicted, served>>

TailTtlPasses ==
  /\ tailFresh /\ tailFresh' = FALSE
  /\ UNCHANGED <<worldVars, bars, exhausted, gapAttempts, entryGen, request, evicted, served>>

\* Two minutes, longer than a request; a REST source's mark has no cooldown.
CooldownsPass ==
  /\ request.step = "idle"
  /\ gapAttempts # {} \/ (exhausted = "yes" /\ source = "terminal")
  /\ gapAttempts' = {}
  /\ exhausted' = IF exhausted = "yes" /\ source = "terminal" THEN "retry" ELSE exhausted
  /\ UNCHANGED <<worldVars, bars, tailFresh, entryGen, request, evicted, served>>

\* _calibrate_offset, in the worker thread of any symbol's fetch: the offset
\* is in use before the generation says so.
ShiftZone ==
  /\ source = "terminal" /\ zone < MaxShifts /\ tzGen = zone
  /\ zone' = zone + 1
  /\ UNCHANGED <<source, newest, tzGen, entryVars, request, evicted, served>>

CountShift ==
  /\ tzGen # zone /\ tzGen' = zone
  /\ UNCHANGED <<source, newest, zone, entryVars, request, evicted, served>>

CacheNext ==
  \/ \E limit \in Limits, end \in {Latest} \cup OldestBar - 1 .. newest : BeginRequest(limit, end)
  \/ TailFetch \/ TailFails \/ FillFetch \/ FillEnds \/ RepairGap \/ FinishRequest
  \/ CancelRequest \/ Evict
  \/ NextBar \/ TailTtlPasses \/ CooldownsPass \/ ShiftZone \/ CountShift

CacheSpec == CacheInit /\ [][CacheNext]_cacheVars

-----------------------------------------------------------------------------
(* Properties.                                                             *)

\* Bars converted with two offsets would put two moments on one timestamp and
\* no check of the spacing could see it: whenever nobody works on the entry and
\* its generation is the source's, every bar of it has the offset in use,
\* wherever in a request the correction came and even if the request was
\* cancelled (_served_klines, _calibrate_offset).
OneZone ==
  (request.step = "idle" /\ entryGen = tzGen /\ tzGen = zone)
    => \A t \in Bars : bars[t].zone = zone

\* A response has a hole where the source has bars only if the hole was tried
\* and nothing came of it, or there were more holes than one request repairs
\* (_merge_tail, _merge_front, _repair_interior_gaps).
HolesAreTried ==
  [][(request.step = "repair" /\ request'.step = "idle" /\ served' # served) =>
       LET left == {g \in HolesOf(Bars, request) : \E t \in SourceBars : g[1] < t /\ t < g[2]}
       IN left \subseteq gapAttempts \/ Cardinality(gapAttempts) >= RepairMax]_cacheVars
==============================================================================
