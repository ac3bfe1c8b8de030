------------------------------ MODULE SignalFollow ------------------------------
(***************************************************************************)
(* Copying a lead's orders to a follower account: the lead's               *)
(* SignalBroadcaster (kqsdk/broadcaster.py), called by the worker threads  *)
(* of KqApi before they submit, the PUB/SUB channel                        *)
(* (protocol/transport/zmq_transport.py), and the follower's OrderAgent    *)
(* (kqsdk/order_agent.py).                                                 *)
(*                                                                         *)
(* The agent's receive loop awaits the handler of one message before it    *)
(* takes the next; the handler executes an intent in a thread while the    *)
(* heartbeat monitor goes on in the loop. Only the dedup table survives a  *)
(* restart of the agent; PUB/SUB keeps nothing for a subscriber that is    *)
(* away.                                                                   *)
(*                                                                         *)
(* Abstracted: one symbol, long positions only, market orders that fill or *)
(* are refused at once; cancels, prices, symbol maps, tokens and the       *)
(* balance scale are left out. Time is a count of heartbeat intervals.     *)
(***************************************************************************)
EXTENDS Integers, Sequences, FiniteSets

CONSTANTS
  Workers,      \* the lead's strategy threads trading the symbol
  ScaleUp,      \* the follower's fixed scale is ScaleUp / ScaleDown, rounded
  ScaleDown,    \*   half up to whole lots
  LeadTimeout,  \* heartbeat intervals without a heartbeat before the lead is lost
  Faults,       \* which faults may happen
  MaxLots,      \* bound: lots of one order
  MaxIntents,   \* bound: intents the lead broadcasts
  MaxReplays,   \* bound: intents broadcast a second time
  MaxTime       \* bound: heartbeat intervals

ASSUME ScaleAssumption == ScaleUp \in Nat /\ ScaleDown \in Nat \ {0}
ASSUME TimeAssumption  == LeadTimeout \in Nat /\ MaxTime \in Nat
ASSUME BoundAssumption == MaxLots \in Nat /\ MaxIntents \in Nat /\ MaxReplays \in Nat
ASSUME FaultsAssumption ==
  Faults \subseteq {"loss", "leadStops", "leadRefuses", "agentStops", "refuse"}

Ids      == 1 .. MaxIntents
Actions  == {"OPEN", "CLOSE", "FLATTEN"}
Statuses == {"FILLED", "REJECT", "SKIPPED", "DUPLICATE"}
IntentRecord == [action : Actions, qty : 0 .. MaxLots]
Beat     == 0     \* a heartbeat in the channel; every other message is an id

VARIABLES
  now, beaten,       \* the clock; whether this interval's heartbeat went out
  leadUp,            \* the lead process
  intents,           \* all intents broadcast so far: <<[action, qty], ...>>
  work,              \* per lead thread: the intent it has broadcast, 0 for none
  leadLedger,        \* per lead thread: the volume its ledger knows
  leadPos,           \* the lead's position at its venue
  replays,           \* intents broadcast a second time
  inbox,             \* the agent's SUB queue
  agentUp,
  job, step,         \* the intent the receive loop handles, and how far it is
  status,            \* its outcome
  lastHb, leadLost,  \* when a heartbeat was last handled; the hold on OPENs
  monitored,         \* whether the monitor ran in this interval
  dedup,             \* durable: ids marked as processed
  done,              \* the ids executed at the venue, in order
  ledger, pos,       \* the follower's ledger volume and its venue position
  reports            \* per id: the statuses reported back to the lead

leadVars  == <<leadUp, intents, work, leadLedger, leadPos, replays>>
clockVars == <<now, beaten, monitored>>
jobVars   == <<job, step, status>>
hbVars    == <<lastHb, leadLost>>
bookVars  == <<dedup, done, ledger, pos, reports>>
vars      == <<leadVars, clockVars, inbox, agentUp, jobVars, hbVars, bookVars>>

TypeOK ==
  /\ now \in 0 .. MaxTime /\ beaten \in BOOLEAN /\ monitored \in BOOLEAN
  /\ leadUp \in BOOLEAN
  /\ intents \in Seq(IntentRecord)
  /\ work \in [Workers -> 0 .. Len(intents)]
  /\ leadLedger \in [Workers -> Nat] /\ leadPos \in Nat
  /\ replays \in 0 .. MaxReplays
  /\ inbox \in Seq(0 .. Len(intents))
  /\ agentUp \in BOOLEAN
  /\ job \in 0 .. Len(intents)
  /\ step \in {"idle", "check", "send", "mark", "report"}
  /\ status \in Statuses \cup {"none"}
  /\ lastHb \in 0 .. now /\ leadLost \in BOOLEAN
  /\ dedup \subseteq Ids /\ done \in Seq(Ids)
  /\ ledger \in Nat /\ pos \in Nat
  /\ reports \in [Ids -> SUBSET Statuses]

Init ==
  /\ now = 0 /\ beaten = FALSE /\ monitored = FALSE
  /\ leadUp = TRUE /\ intents = <<>> /\ work = [w \in Workers |-> 0]
  /\ leadLedger = [w \in Workers |-> 0] /\ leadPos = 0 /\ replays = 0
  /\ inbox = <<>> /\ agentUp = TRUE
  /\ job = 0 /\ step = "idle" /\ status = "none"
  /\ lastHb = 0 /\ leadLost = FALSE
  /\ dedup = {} /\ done = <<>> /\ ledger = 0 /\ pos = 0
  /\ reports = [i \in Ids |-> {}]

-----------------------------------------------------------------------------
(* The lead.                                                               *)

\* What PUB/SUB does with a message: a subscriber that is away gets nothing.
Publish(m) ==
  \/ inbox' = IF agentUp THEN Append(inbox, m) ELSE inbox
  \/ "loss" \in Faults /\ inbox' = inbox

\* send_order and flatten broadcast first; a CLOSE passed the resolver.
Broadcast(w) ==
  /\ leadUp /\ work[w] = 0 /\ Len(intents) < MaxIntents
  /\ \E a \in Actions, q \in 0 .. MaxLots :
       /\ (a = "FLATTEN") = (q = 0)
       /\ a = "CLOSE" => q <= leadLedger[w]
       /\ intents' = Append(intents, [action |-> a, qty |-> q])
  /\ work' = [work EXCEPT ![w] = Len(intents')]
  /\ Publish(Len(intents'))
  /\ UNCHANGED <<leadUp, leadLedger, leadPos, replays, clockVars, agentUp,
                 jobVars, hbVars, bookVars>>

\* The lead's own submit of what it broadcast.
LeadExecutes(w) ==
  /\ work[w] # 0
  /\ LET i == intents[work[w]]
         k == CASE i.action = "OPEN"  -> i.qty
                [] i.action = "CLOSE" -> - (IF i.qty < leadPos THEN i.qty ELSE leadPos)
                [] OTHER              -> - leadPos IN
       \/ /\ leadPos' = leadPos + k
          /\ leadLedger' = [leadLedger EXCEPT ![w] =
                              IF i.action = "FLATTEN" /\ k # 0 THEN 0 ELSE
                              IF i.action = "FLATTEN" THEN @ ELSE @ + k]
       \/ /\ "leadRefuses" \in Faults
          /\ UNCHANGED <<leadPos, leadLedger>>
  /\ work' = [work EXCEPT ![w] = 0]
  /\ UNCHANGED <<leadUp, intents, replays, clockVars, inbox, agentUp, jobVars,
                 hbVars, bookVars>>

\* _heartbeat_loop.
Heartbeat ==
  /\ leadUp /\ ~beaten
  /\ beaten' = TRUE
  /\ Publish(Beat)
  /\ UNCHANGED <<leadVars, now, monitored, agentUp, jobVars, hbVars, bookVars>>

\* The lead's process ends; a restart recovers its ledger.
LeadStops ==
  /\ "leadStops" \in Faults
  /\ leadUp /\ leadUp' = FALSE
  /\ work' = [w \in Workers |-> 0]
  /\ UNCHANGED <<intents, leadLedger, leadPos, replays, clockVars, inbox, agentUp,
                 jobVars, hbVars, bookVars>>

LeadStarts ==
  /\ ~leadUp /\ leadUp' = TRUE
  /\ UNCHANGED <<intents, work, leadLedger, leadPos, replays, clockVars, inbox,
                 agentUp, jobVars, hbVars, bookVars>>

\* An intent is broadcast once more.
Replay ==
  /\ replays < MaxReplays /\ replays' = replays + 1
  /\ \E i \in 1 .. Len(intents) : Publish(i)
  /\ UNCHANGED <<leadUp, intents, work, leadLedger, leadPos, clockVars, agentUp,
                 jobVars, hbVars, bookVars>>

-----------------------------------------------------------------------------
(* The follower's OrderAgent.                                              *)

\* Mutant: a heartbeat lifts the hold without being remembered.
ReceiveForgetsTime ==
  /\ agentUp /\ step = "idle" /\ inbox # <<>>
  /\ inbox' = Tail(inbox)
  /\ IF Head(inbox) = Beat
     THEN /\ leadLost' = FALSE
          /\ UNCHANGED <<jobVars, lastHb>>
     ELSE /\ job' = Head(inbox) /\ step' = "check"
          /\ UNCHANGED <<status, hbVars>>
  /\ UNCHANGED <<leadVars, clockVars, agentUp, bookVars>>

\* _recv_loop with _on_heartbeat_msg and the start of _on_intent_msg.
Receive ==
  /\ agentUp /\ step = "idle" /\ inbox # <<>>
  /\ inbox' = Tail(inbox)
  /\ IF Head(inbox) = Beat
     THEN /\ lastHb' = now /\ leadLost' = FALSE
          /\ UNCHANGED jobVars
     ELSE /\ job' = Head(inbox) /\ step' = "check"
          /\ UNCHANGED <<status, hbVars>>
  /\ UNCHANGED <<leadVars, clockVars, agentUp, bookVars>>

\* _heartbeat_monitor, once an interval.
Monitor ==
  /\ agentUp /\ ~monitored
  /\ monitored' = TRUE
  /\ leadLost' = (now - lastHb > LeadTimeout)
  /\ UNCHANGED <<leadVars, now, beaten, inbox, agentUp, jobVars, lastHb,
                 bookVars>>

\* qty x scale, rounded half up to the lot.
Scaled(qty) == (2 * qty * ScaleUp + ScaleDown) \div (2 * ScaleDown)

\* Mutant: OPENs are not held.
VerdictNeverHolds(i) ==
  LET a == intents[i].action
      q == Scaled(intents[i].qty) IN
  CASE a = "FLATTEN"              -> "send"
    [] q = 0                      -> "SKIPPED"
    [] a = "CLOSE" /\ q > ledger  -> "REJECT"
    [] OTHER                      -> "send"

\* How an intent ends before anything is sent, "send" if it does not.
Verdict(i) ==
  LET a == intents[i].action
      q == Scaled(intents[i].qty) IN
  CASE a = "FLATTEN"              -> "send"
    [] a = "OPEN" /\ leadLost     -> "REJECT"
    [] q = 0                      -> "SKIPPED"
    [] a = "CLOSE" /\ q > ledger  -> "REJECT"
    [] OTHER                      -> "send"

\* Mutant: a held OPEN goes back to the queue.
CheckRequeues ==
  /\ step = "check"
  /\ IF intents[job].action = "OPEN" /\ leadLost /\ job \notin dedup
     THEN /\ inbox' = Append(inbox, job)
          /\ job' = 0 /\ step' = "idle" /\ UNCHANGED status
     ELSE /\ UNCHANGED <<inbox, job>>
          /\ IF job \in dedup
             THEN step' = "report" /\ status' = "DUPLICATE"
             ELSE LET v == Verdict(job) IN
                    IF v = "send" THEN step' = "send" /\ UNCHANGED status
                                  ELSE step' = "mark" /\ status' = v
  /\ UNCHANGED <<leadVars, clockVars, agentUp, hbVars, bookVars>>

\* Mutant: a held OPEN waits for the lead to come back.
CheckWaits ==
  /\ step = "check"
  /\ intents[job].action = "OPEN" => ~leadLost
  /\ IF job \in dedup
     THEN step' = "report" /\ status' = "DUPLICATE"
     ELSE LET v == Verdict(job) IN
            IF v = "send" THEN step' = "send" /\ UNCHANGED status
                          ELSE step' = "mark" /\ status' = v
  /\ UNCHANGED <<leadVars, clockVars, inbox, agentUp, job, hbVars, bookVars>>

\* _execute_intent up to the executor: seen(), the hold, the scale, the resolver.
Check ==
  /\ step = "check"
  /\ IF job \in dedup
     THEN step' = "report" /\ status' = "DUPLICATE"
     ELSE LET v == Verdict(job) IN
            IF v = "send" THEN step' = "send" /\ UNCHANGED status
                          ELSE step' = "mark" /\ status' = v
  /\ UNCHANGED <<leadVars, clockVars, inbox, agentUp, job, hbVars, bookVars>>

\* Mutant: flatten closes what the ledger knows, not what the venue holds.
ExecuteFromLedger ==
  /\ step = "send"
  /\ step' = "mark"
  /\ done' = Append(done, job)
  /\ status' = "FILLED"
  /\ LET i == intents[job]
         k == CASE i.action = "OPEN"  -> Scaled(i.qty)
                [] i.action = "CLOSE" -> - Scaled(i.qty)
                [] OTHER              -> - ledger IN
       /\ pos' = pos + k
       /\ ledger' = ledger + k
  /\ UNCHANGED <<leadVars, clockVars, inbox, agentUp, job, hbVars, dedup, reports>>

\* Mutant: a refused order is reported as filled.
ExecuteHidesRefusal ==
  /\ step = "send"
  /\ step' = "mark"
  /\ done' = Append(done, job)
  /\ status' = "FILLED"
  /\ LET i == intents[job]
         k == CASE i.action = "OPEN"  -> Scaled(i.qty)
                [] i.action = "CLOSE" -> - Scaled(i.qty)
                [] OTHER              -> - pos IN
       \/ /\ pos' = pos + k
          /\ ledger' = IF i.action = "FLATTEN" THEN (IF pos = 0 THEN ledger ELSE 0)
                                               ELSE ledger + k
       \/ "refuse" \in Faults /\ UNCHANGED <<pos, ledger>>
  /\ UNCHANGED <<leadVars, clockVars, inbox, agentUp, job, hbVars, dedup, reports>>

\* KqApi.send_order or KqApi.flatten on the follower's account: flatten starts
\* from the venue's position and aligns the ledger with it before it closes.
Execute ==
  /\ step = "send"
  /\ step' = "mark"
  /\ done' = Append(done, job)
  /\ LET i == intents[job]
         k == CASE i.action = "OPEN"  -> Scaled(i.qty)
                [] i.action = "CLOSE" -> - Scaled(i.qty)
                [] OTHER              -> - pos
         known == IF i.action = "FLATTEN" /\ pos # 0 THEN pos ELSE ledger IN
       \/ /\ pos' = pos + k /\ ledger' = known + k
          /\ status' = "FILLED"
       \/ /\ "refuse" \in Faults /\ k # 0
          /\ ledger' = known /\ UNCHANGED pos
          /\ status' = "REJECT"
  /\ UNCHANGED <<leadVars, clockVars, inbox, agentUp, job, hbVars, dedup, reports>>

\* Mutant: only what was filled is marked.
MarkFilledOnly ==
  /\ step = "mark"
  /\ dedup' = IF status = "FILLED" THEN dedup \cup {job} ELSE dedup
  /\ step' = "report"
  /\ UNCHANGED <<leadVars, clockVars, inbox, agentUp, job, status, hbVars,
                 done, ledger, pos, reports>>

Mark ==
  /\ step = "mark"
  /\ dedup' = dedup \cup {job}
  /\ step' = "report"
  /\ UNCHANGED <<leadVars, clockVars, inbox, agentUp, job, status, hbVars,
                 done, ledger, pos, reports>>

SendReport ==
  /\ step = "report"
  /\ reports' = [reports EXCEPT ![job] = @ \cup {status}]
  /\ job' = 0 /\ step' = "idle" /\ status' = "none"
  /\ UNCHANGED <<leadVars, clockVars, inbox, agentUp, hbVars, dedup, done, ledger, pos>>

\* The agent is killed or restarted: the SUB queue, the call in progress and
\* the ledger are gone, and nothing reconciles the new ledger.
AgentStops ==
  /\ "agentStops" \in Faults
  /\ agentUp /\ agentUp' = FALSE
  /\ inbox' = <<>> /\ job' = 0 /\ step' = "idle" /\ status' = "none"
  /\ ledger' = 0 /\ leadLost' = FALSE
  /\ UNCHANGED <<leadVars, clockVars, lastHb, dedup, done, pos, reports>>

AgentStarts ==
  /\ ~agentUp /\ agentUp' = TRUE
  /\ lastHb' = now
  /\ UNCHANGED <<leadVars, clockVars, inbox, jobVars, leadLost, bookVars>>

-----------------------------------------------------------------------------

\* A heartbeat interval passes: both loops had their turn in it, and the agent
\* has nothing to do but to wait for messages or for the executor.
Tick ==
  /\ now < MaxTime /\ now' = now + 1
  /\ leadUp => beaten
  /\ agentUp => monitored /\ (step = "send" \/ (step = "idle" /\ inbox = <<>>))
  /\ beaten' = FALSE /\ monitored' = FALSE
  /\ UNCHANGED <<leadVars, inbox, agentUp, jobVars, hbVars, bookVars>>

Lead  == \/ \E w \in Workers : Broadcast(w) \/ LeadExecutes(w)
         \/ Heartbeat \/ LeadStops \/ LeadStarts \/ Replay

Handle == Receive \/ Check \/ Execute \/ Mark \/ SendReport

Agent == Handle \/ Monitor \/ AgentStops \/ AgentStarts

Next == Lead \/ Agent \/ Tick

Spec == Init /\ [][Next]_vars

\* The loops of a running process go on: every await in them ends.
Fairness == WF_vars(Heartbeat) /\ WF_vars(Handle) /\ WF_vars(Monitor) /\ WF_vars(Tick)

FairSpec == Spec /\ Fairness

-----------------------------------------------------------------------------
(* Properties.                                                             *)

\* An intent reaches the follower's venue at most once, however often it is
\* broadcast: the order of seen(), execute and mark() in _execute_intent.
ExecutedOnce ==
  \A a, b \in 1 .. Len(done) : done[a] = done[b] => a = b

\* Without replays intents are executed in the order the lead broadcast them,
\* although each is executed in a thread of its own.
InLeadOrder ==
  replays = 0 => \A a, b \in 1 .. Len(done) : a < b => done[a] < done[b]

\* The lead can see that a follower drifted: when everything broadcast once was
\* handled and every report says FILLED, the follower's position is the scaled
\* position of the lead. (One lead thread that is not refused and does not
\* crash, a whole-numbered scale.)
DriftIsReported ==
  (/\ replays = 0 /\ inbox = <<>> /\ step = "idle" /\ \A w \in Workers : work[w] = 0
   /\ \A i \in 1 .. Len(intents) : reports[i] = {"FILLED"})
  => ScaleDown * pos = ScaleUp * leadPos

\* A FLATTEN reported as FILLED left nothing at the follower's venue, even when
\* the agent was restarted and its ledger knows of no position.
FlattenLeavesFlat ==
  step \in {"mark", "report"} /\ status = "FILLED" /\ intents[job].action = "FLATTEN"
  => pos = 0 /\ ledger = 0

\* No OPEN is sent for a lead whose last heartbeat was handled longer ago than
\* the timeout and one turn of the monitor.
SilentLeadHeld ==
  [][step = "check" /\ step' = "send" /\ intents[job].action = "OPEN"
       => now - lastHb <= LeadTimeout + 1]_vars

\* Every intent that reaches the agent is answered by a report.
IntentsAnswered ==
  \A i \in Ids :
    (\E n \in 1 .. Len(inbox) : inbox[n] = i) ~> reports[i] # {} \/ ~agentUp

\* A lead that is back for good is followed again.
HoldIsLifted == <>[](leadUp /\ agentUp) => []<>~leadLost
=============================================================================
