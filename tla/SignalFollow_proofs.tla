-------------------------- MODULE SignalFollow_proofs --------------------------
(***************************************************************************)
(* Proofs about SignalFollow: every reachable state is well typed, an agent *)
(* that is not restarted executes no intent twice, OPENs of a silent lead   *)
(* are held, a FLATTEN leaves the account flat, intents are executed in the *)
(* lead's order, and a drift shows in the reports.                          *)
(***************************************************************************)
EXTENDS SignalFollow, TLAPS

\* Rounding half up a number of lots gives a number of lots.
LEMMA ScaledIsNat == \A q \in Nat : Scaled(q) \in Nat
<1> TAKE q \in Nat
<1>1. q * ScaleUp \in Nat
  BY ScaleAssumption
<1>2. 2 * q * ScaleUp \in Nat
  BY ScaleAssumption
<1> DEFINE n == 2 * q * ScaleUp + ScaleDown
           d == 2 * ScaleDown
<1>3. n \in Nat /\ d \in Nat \ {0}
  BY <1>2, ScaleAssumption
<1>4. \A x \in Nat, y \in Nat \ {0} : x \div y \in Nat
  OBVIOUS
<1>5. n \div d \in Nat
  <2> HIDE DEF n, d
  <2> QED BY <1>3, <1>4
<1> QED BY <1>5 DEF Scaled

-----------------------------------------------------------------------------
(* Type correctness. The types alone are not inductive: the follower's      *)
(* ledger stays a natural number because a CLOSE on its way was checked     *)
(* against it, and likewise the ledger of each lead thread.                 *)

JobOK ==
  /\ (job = 0) <=> (step = "idle")
  /\ step \in {"mark", "report"} => status \in Statuses
  /\ step = "send" /\ intents[job].action = "CLOSE" =>
       Scaled(intents[job].qty) <= ledger
  /\ ledger <= pos
  /\ Len(intents) <= MaxIntents

LeadOK ==
  \A w \in Workers :
    work[w] # 0 /\ intents[work[w]].action = "CLOSE" =>
      intents[work[w]].qty <= leadLedger[w]

FollowInv == TypeOK /\ JobOK /\ LeadOK

USE DEF leadVars, clockVars, jobVars, hbVars, bookVars

LEMMA AppendType ==
  ASSUME NEW S, NEW s \in Seq(S), NEW e \in S
  PROVE  Append(s, e) \in Seq(S)
OBVIOUS

LEMMA ElementType ==
  ASSUME NEW S, NEW s \in Seq(S), NEW i \in 1 .. Len(s)
  PROVE  s[i] \in S
OBVIOUS

LEMMA FollowInit == Init => FollowInv
<1> SUFFICES ASSUME Init PROVE FollowInv
  OBVIOUS
<1>1. Len(intents) = 0 /\ 0 \in 0 .. 0
  BY DEF Init
<1>2. 0 \in 0 .. MaxTime /\ 0 \in 0 .. MaxReplays /\ 0 <= MaxIntents
  BY TimeAssumption, BoundAssumption
<1>3. TypeOK
  <2>1. work \in [Workers -> 0 .. Len(intents)] /\ job \in 0 .. Len(intents)
    BY <1>1 DEF Init
  <2>2. /\ intents \in Seq(IntentRecord) /\ done \in Seq(Ids)
        /\ inbox \in Seq(0 .. Len(intents))
    BY DEF Init
  <2>3. reports \in [Ids -> SUBSET Statuses]
    BY DEF Init
  <2>4. /\ now \in 0 .. MaxTime /\ lastHb \in 0 .. now
        /\ replays \in 0 .. MaxReplays
    BY <1>2 DEF Init
  <2> QED BY <2>1, <2>2, <2>3, <2>4 DEF Init, TypeOK
<1>4. JobOK /\ LeadOK
  BY <1>1, <1>2 DEF Init, JobOK, LeadOK
<1> QED BY <1>3, <1>4 DEF FollowInv

LEMMA FollowStutter == FollowInv /\ UNCHANGED vars => FollowInv'
BY DEF FollowInv, TypeOK, JobOK, LeadOK, vars, Scaled

LEMMA BroadcastType ==
  ASSUME FollowInv, NEW w \in Workers, Broadcast(w)
  PROVE  FollowInv'
<1>1. PICK a \in Actions, q \in 0 .. MaxLots :
        /\ a = "CLOSE" => q <= leadLedger[w]
        /\ intents' = Append(intents, [action |-> a, qty |-> q])
  BY DEF Broadcast
<1> DEFINE n == Len(intents)
<1>2. /\ intents \in Seq(IntentRecord)
      /\ n \in Nat /\ n < MaxIntents
  BY DEF FollowInv, TypeOK, Broadcast
<1>3. /\ intents' \in Seq(IntentRecord)
      /\ Len(intents') = n + 1
      /\ \A i \in 1 .. n : intents'[i] = intents[i]
      /\ intents'[n + 1] = [action |-> a, qty |-> q]
  <2>1. [action |-> a, qty |-> q] \in IntentRecord
    BY DEF IntentRecord
  <2> QED BY <1>1, <1>2, <2>1, AppendType
<1>4. work' = [work EXCEPT ![w] = n + 1]
  BY <1>3 DEF Broadcast
<1>5. inbox' \in Seq(0 .. n + 1)
  <2>1. inbox \in Seq(0 .. n + 1)
    BY <1>2 DEF FollowInv, TypeOK
  <2>2. inbox' = Append(inbox, n + 1) \/ inbox' = inbox
    BY <1>3 DEF Broadcast, Publish
  <2>3. n + 1 \in 0 .. n + 1
    BY <1>2
  <2> QED BY <2>1, <2>2, <2>3, AppendType
<1>6. TypeOK'
  <2>1. work' \in [Workers -> 0 .. n + 1]
    BY <1>2, <1>4 DEF FollowInv, TypeOK
  <2>2. job \in 0 .. n + 1
    BY <1>2 DEF FollowInv, TypeOK
  <2> QED BY <1>3, <1>5, <2>1, <2>2 DEF FollowInv, TypeOK, Broadcast
<1>7. JobOK'
  <2>1. step = "send" => intents'[job] = intents[job]
    BY <1>3 DEF FollowInv, TypeOK, JobOK
  <2>2. UNCHANGED <<job, step, status, ledger, pos>>
    BY DEF Broadcast
  <2>3. n + 1 <= MaxIntents
    BY <1>2, BoundAssumption
  <2> QED BY <1>3, <2>1, <2>2, <2>3 DEF FollowInv, JobOK
<1>8. LeadOK'
  <2> SUFFICES ASSUME NEW v \in Workers, work'[v] # 0,
                      intents'[work'[v]].action = "CLOSE"
               PROVE  intents'[work'[v]].qty <= leadLedger'[v]
    BY DEF LeadOK
  <2>1. CASE v = w
    <3>1. work'[v] = n + 1
      BY <1>4, <2>1 DEF FollowInv, TypeOK
    <3> QED BY <1>1, <1>3, <2>1, <3>1 DEF Broadcast
  <2>2. CASE v # w
    <3>1. work'[v] = work[v] /\ work[v] \in 1 .. n
      BY <1>4, <2>2 DEF FollowInv, TypeOK
    <3> QED BY <1>3, <3>1 DEF FollowInv, LeadOK, Broadcast
  <2> QED BY <2>1, <2>2
<1> QED BY <1>6, <1>7, <1>8 DEF FollowInv

LEMMA LeadExecutesType ==
  ASSUME FollowInv, NEW w \in Workers, LeadExecutes(w)
  PROVE  FollowInv'
<1> DEFINE i == intents[work[w]]
<1>1. work[w] \in 1 .. Len(intents) /\ i.action \in Actions /\ i.qty \in Nat
  <2>1. work[w] \in 1 .. Len(intents)
    BY DEF FollowInv, TypeOK, LeadExecutes
  <2>2. intents[work[w]] \in IntentRecord
    BY <2>1, ElementType DEF FollowInv, TypeOK
  <2> QED BY <2>1, <2>2 DEF IntentRecord
<1>2. leadPos \in Nat /\ leadLedger[w] \in Nat
  BY DEF FollowInv, TypeOK
<1>3. leadPos' \in Nat
  BY <1>1, <1>2 DEF LeadExecutes, Actions
<1>4. leadLedger' \in [Workers -> Nat]
  <2>1. i.action = "CLOSE" => i.qty <= leadLedger[w]
    BY <1>1 DEF FollowInv, LeadOK
  <2>2. CASE i.action = "OPEN"
    <3>1. \/ leadLedger' = [leadLedger EXCEPT ![w] = @ + i.qty]
          \/ leadLedger' = leadLedger
      BY <2>2 DEF LeadExecutes
    <3>2. leadLedger[w] + i.qty \in Nat
      BY <1>1, <1>2
    <3> QED BY <3>1, <3>2 DEF FollowInv, TypeOK
  <2>3. CASE i.action = "CLOSE"
    <3> DEFINE m == IF i.qty < leadPos THEN i.qty ELSE leadPos
    <3>1. m \in Nat /\ m <= leadLedger[w]
      BY <1>1, <1>2, <2>1, <2>3
    <3>2. leadLedger' = [leadLedger EXCEPT ![w] = @ + (-m)] \/ leadLedger' = leadLedger
      BY <2>3 DEF LeadExecutes
    <3> HIDE DEF m
    <3>3. leadLedger[w] + (-m) \in Nat
      BY <1>2, <3>1
    <3> QED BY <3>2, <3>3 DEF FollowInv, TypeOK
  <2>4. CASE i.action = "FLATTEN"
    <3>1. \/ leadLedger' = [leadLedger EXCEPT ![w] = 0]
          \/ leadLedger' = leadLedger
          \/ leadLedger' = [leadLedger EXCEPT ![w] = @]
      BY <2>4 DEF LeadExecutes
    <3>2. leadLedger \in [Workers -> Nat]
      BY DEF FollowInv, TypeOK
    <3> QED BY <3>1, <3>2
  <2> QED BY <1>1, <2>2, <2>3, <2>4 DEF Actions
<1>5. /\ work' = [work EXCEPT ![w] = 0]
      /\ \A v \in Workers : v # w => leadLedger'[v] = leadLedger[v]
  BY <1>1 DEF LeadExecutes, FollowInv, TypeOK
<1>6. UNCHANGED <<intents, now, beaten, monitored, leadUp, replays, inbox,
                  agentUp, jobVars, hbVars, bookVars>>
  BY DEF LeadExecutes
<1>7. TypeOK'
  BY <1>3, <1>4, <1>5, <1>6 DEF FollowInv, TypeOK
<1>8. JobOK'
  BY <1>6 DEF FollowInv, JobOK
<1>9. LeadOK'
  <2> SUFFICES ASSUME NEW v \in Workers, work'[v] # 0,
                      intents'[work'[v]].action = "CLOSE"
               PROVE  intents'[work'[v]].qty <= leadLedger'[v]
    BY DEF LeadOK
  <2>1. v # w /\ work'[v] = work[v]
    BY <1>5 DEF FollowInv, TypeOK
  <2> QED BY <1>5, <1>6, <2>1 DEF FollowInv, LeadOK
<1> QED BY <1>7, <1>8, <1>9 DEF FollowInv

\* The lead's other actions touch neither the job nor the lead's books.
LEMMA HeartbeatType == FollowInv /\ Heartbeat => FollowInv'
<1> SUFFICES ASSUME FollowInv, Heartbeat PROVE FollowInv'
  OBVIOUS
<1>1. inbox' \in Seq(0 .. Len(intents))
  <2>1. inbox' = Append(inbox, Beat) \/ inbox' = inbox
    BY DEF Heartbeat, Publish
  <2>2. inbox \in Seq(0 .. Len(intents)) /\ Beat \in 0 .. Len(intents)
    BY DEF FollowInv, TypeOK, Beat
  <2> QED BY <2>1, <2>2, AppendType
<1>2. TypeOK'
  BY <1>1 DEF FollowInv, TypeOK, Heartbeat
<1> QED BY <1>2 DEF FollowInv, JobOK, LeadOK, Heartbeat

LEMMA LeadStopsType == FollowInv /\ (LeadStops \/ LeadStarts) => FollowInv'
<1> SUFFICES ASSUME FollowInv, LeadStops \/ LeadStarts PROVE FollowInv'
  OBVIOUS
<1>1. TypeOK'
  <2>1. work' \in [Workers -> 0 .. Len(intents)]
    BY DEF FollowInv, TypeOK, LeadStops, LeadStarts
  <2> QED BY <2>1 DEF FollowInv, TypeOK, LeadStops, LeadStarts
<1>2. JobOK'
  BY DEF FollowInv, JobOK, LeadStops, LeadStarts
<1>3. LeadOK'
  BY DEF FollowInv, LeadOK, LeadStops, LeadStarts
<1> QED BY <1>1, <1>2, <1>3 DEF FollowInv

LEMMA ReplayType == FollowInv /\ Replay => FollowInv'
<1> SUFFICES ASSUME FollowInv, Replay PROVE FollowInv'
  OBVIOUS
<1>1. inbox' \in Seq(0 .. Len(intents))
  <2>1. PICK i \in 1 .. Len(intents) : inbox' = Append(inbox, i) \/ inbox' = inbox
    BY DEF Replay, Publish
  <2>2. inbox \in Seq(0 .. Len(intents)) /\ i \in 0 .. Len(intents)
    BY DEF FollowInv, TypeOK
  <2> QED BY <2>1, <2>2, AppendType
<1>2. replays' \in 0 .. MaxReplays
  BY BoundAssumption DEF FollowInv, TypeOK, Replay
<1>3. TypeOK'
  BY <1>1, <1>2 DEF FollowInv, TypeOK, Replay
<1> QED BY <1>3 DEF FollowInv, JobOK, LeadOK, Replay

\* What an agent action has to leave as it is for the lead's part of the
\* invariant.
LEMMA LeadKept == FollowInv /\ UNCHANGED <<intents, work, leadLedger>> => LeadOK'
BY DEF FollowInv, LeadOK

LEMMA ReceiveType == FollowInv /\ Receive => FollowInv'
<1> SUFFICES ASSUME FollowInv, Receive PROVE FollowInv'
  OBVIOUS
<1>1. Head(inbox) \in 0 .. Len(intents) /\ inbox' \in Seq(0 .. Len(intents))
  BY DEF FollowInv, TypeOK, Receive
<1>2. TypeOK'
  <2>1. CASE Head(inbox) = Beat
    <3>1. UNCHANGED <<leadVars, clockVars, agentUp, jobVars, bookVars>>
      BY <2>1 DEF Receive
    <3>2. lastHb' = now /\ leadLost' = FALSE /\ now \in 0 .. now
      BY <2>1 DEF Receive, FollowInv, TypeOK
    <3> QED BY <1>1, <3>1, <3>2 DEF FollowInv, TypeOK
  <2>2. CASE Head(inbox) # Beat
    <3>1. /\ UNCHANGED <<leadVars, clockVars, agentUp, status, hbVars, bookVars>>
          /\ job' = Head(inbox) /\ step' = "check"
      BY <2>2 DEF Receive
    <3> QED BY <1>1, <3>1 DEF FollowInv, TypeOK
  <2> QED BY <2>1, <2>2
<1>3. JobOK'
  BY <1>1 DEF FollowInv, JobOK, Receive, Beat
<1> QED BY <1>2, <1>3, LeadKept DEF FollowInv, Receive

LEMMA MonitorType == FollowInv /\ Monitor => FollowInv'
<1> SUFFICES ASSUME FollowInv, Monitor PROVE FollowInv'
  OBVIOUS
<1>1. TypeOK'
  BY DEF FollowInv, TypeOK, Monitor
<1>2. JobOK'
  BY DEF FollowInv, JobOK, Monitor
<1> QED BY <1>1, <1>2, LeadKept DEF FollowInv, Monitor

\* The resolver lets a CLOSE pass only up to the ledger's volume.
LEMMA VerdictChecked ==
  ASSUME FollowInv, NEW i \in 1 .. Len(intents)
  PROVE  /\ Verdict(i) \in {"send", "REJECT", "SKIPPED"}
         /\ Verdict(i) = "send" /\ intents[i].action = "CLOSE" =>
              Scaled(intents[i].qty) <= ledger
<1> DEFINE q == Scaled(intents[i].qty)
<1>1. intents[i].qty \in Nat /\ intents[i].action \in Actions
  <2>1. intents[i] \in IntentRecord
    BY ElementType DEF FollowInv, TypeOK
  <2> QED BY <2>1 DEF IntentRecord
<1>2. q \in Nat /\ ledger \in Nat
  BY <1>1, ScaledIsNat DEF FollowInv, TypeOK
<1>3. Verdict(i) = (CASE intents[i].action = "FLATTEN"              -> "send"
                      [] intents[i].action = "OPEN" /\ leadLost     -> "REJECT"
                      [] q = 0                                      -> "SKIPPED"
                      [] intents[i].action = "CLOSE" /\ q > ledger  -> "REJECT"
                      [] OTHER                                      -> "send")
  BY DEF Verdict
<1> HIDE DEF q
<1>4. /\ Verdict(i) \in {"send", "REJECT", "SKIPPED"}
      /\ Verdict(i) = "send" /\ intents[i].action = "CLOSE" => q <= ledger
  <2>1. CASE intents[i].action = "CLOSE"
    BY <1>2, <1>3, <2>1
  <2>2. CASE intents[i].action # "CLOSE"
    BY <1>3, <2>2
  <2> QED BY <2>1, <2>2
<1> QED BY <1>4 DEF q

LEMMA CheckType == FollowInv /\ Check => FollowInv'
<1> SUFFICES ASSUME FollowInv, Check PROVE FollowInv'
  OBVIOUS
<1>1. job \in 1 .. Len(intents)
  BY DEF FollowInv, TypeOK, JobOK, Check
<1>2. /\ step' \in {"send", "mark", "report"}
      /\ step' # "send" => status' \in Statuses
      /\ status' \in Statuses \cup {"none"}
      /\ step' = "send" => Verdict(job) = "send"
  BY <1>1, VerdictChecked DEF FollowInv, TypeOK, Check, Statuses
<1>3. UNCHANGED <<leadVars, clockVars, inbox, agentUp, job, hbVars, bookVars>>
  BY DEF Check
<1>4. TypeOK'
  BY <1>2, <1>3 DEF FollowInv, TypeOK
<1>5. JobOK'
  BY <1>1, <1>2, <1>3, VerdictChecked DEF FollowInv, TypeOK, JobOK, Scaled
<1> QED BY <1>3, <1>4, <1>5, LeadKept DEF FollowInv

LEMMA ExecuteType == FollowInv /\ Execute => FollowInv'
<1> SUFFICES ASSUME FollowInv, Execute PROVE FollowInv'
  OBVIOUS
<1> DEFINE i == intents[job]
<1>1. job \in 1 .. Len(intents) /\ job \in Ids
  BY BoundAssumption DEF FollowInv, TypeOK, JobOK, Execute, Ids
<1>2. i.action \in Actions /\ i.qty \in Nat
  <2>1. i \in IntentRecord
    BY <1>1, ElementType DEF FollowInv, TypeOK
  <2> QED BY <2>1 DEF IntentRecord
<1>3. /\ Scaled(i.qty) \in Nat /\ ledger \in Nat /\ pos \in Nat /\ ledger <= pos
      /\ i.action = "CLOSE" => Scaled(i.qty) <= ledger
  BY <1>2, ScaledIsNat DEF FollowInv, TypeOK, JobOK, Execute
<1>4. ledger' \in Nat /\ pos' \in Nat /\ ledger' <= pos'
  <2>1. CASE i.action = "OPEN"
    <3>1. \/ pos' = pos + Scaled(i.qty) /\ ledger' = ledger + Scaled(i.qty)
          \/ pos' = pos /\ ledger' = ledger
      BY <2>1 DEF Execute
    <3> QED BY <1>3, <3>1
  <2>2. CASE i.action = "CLOSE"
    <3>1. \/ pos' = pos + (- Scaled(i.qty)) /\ ledger' = ledger + (- Scaled(i.qty))
          \/ pos' = pos /\ ledger' = ledger
      BY <2>2 DEF Execute
    <3> QED BY <1>3, <2>2, <3>1
  <2>3. CASE i.action = "FLATTEN"
    <3> DEFINE known == IF pos # 0 THEN pos ELSE ledger
    <3>1. \/ pos' = pos + (- pos) /\ ledger' = known + (- pos)
          \/ pos' = pos /\ ledger' = known
      BY <2>3 DEF Execute
    <3> QED BY <1>3, <3>1
  <2> QED BY <1>2, <2>1, <2>2, <2>3 DEF Actions
<1>5. /\ UNCHANGED <<leadVars, clockVars, inbox, agentUp, job, hbVars, dedup, reports>>
      /\ step' = "mark" /\ status' \in Statuses
  BY DEF Execute, Statuses
<1>6. done' \in Seq(Ids)
  BY <1>1, AppendType DEF FollowInv, TypeOK, Execute
<1>7. TypeOK'
  BY <1>4, <1>5, <1>6 DEF FollowInv, TypeOK
<1>8. JobOK'
  BY <1>1, <1>4, <1>5 DEF FollowInv, JobOK
<1> QED BY <1>5, <1>7, <1>8, LeadKept DEF FollowInv

LEMMA MarkType == FollowInv /\ Mark => FollowInv'
<1> SUFFICES ASSUME FollowInv, Mark PROVE FollowInv'
  OBVIOUS
<1>1. job \in Ids
  BY BoundAssumption DEF FollowInv, TypeOK, JobOK, Mark, Ids
<1>2. dedup' \subseteq Ids
  BY <1>1 DEF FollowInv, TypeOK, Mark
<1>3. TypeOK'
  BY <1>2 DEF FollowInv, TypeOK, Mark
<1>4. JobOK'
  BY DEF FollowInv, JobOK, Mark
<1> QED BY <1>3, <1>4, LeadKept DEF FollowInv, Mark

LEMMA SendReportType == FollowInv /\ SendReport => FollowInv'
<1> SUFFICES ASSUME FollowInv, SendReport PROVE FollowInv'
  OBVIOUS
<1>1. job \in Ids /\ status \in Statuses
  BY BoundAssumption DEF FollowInv, TypeOK, JobOK, SendReport, Ids
<1>2. reports' \in [Ids -> SUBSET Statuses]
  BY <1>1 DEF FollowInv, TypeOK, SendReport
<1>3. 0 \in 0 .. Len(intents)
  BY DEF FollowInv, TypeOK
<1>4. TypeOK'
  BY <1>2, <1>3 DEF FollowInv, TypeOK, SendReport
<1>5. JobOK'
  BY DEF FollowInv, JobOK, SendReport
<1> QED BY <1>4, <1>5, LeadKept DEF FollowInv, SendReport

LEMMA AgentStopsType == FollowInv /\ AgentStops => FollowInv'
<1> SUFFICES ASSUME FollowInv, AgentStops PROVE FollowInv'
  OBVIOUS
<1>1. 0 \in 0 .. Len(intents) /\ inbox' \in Seq(0 .. Len(intents))
  BY DEF FollowInv, TypeOK, AgentStops
<1>2. TypeOK'
  BY <1>1 DEF FollowInv, TypeOK, AgentStops
<1>3. JobOK'
  BY DEF FollowInv, TypeOK, JobOK, AgentStops
<1> QED BY <1>2, <1>3, LeadKept DEF FollowInv, AgentStops

LEMMA AgentStartsType == FollowInv /\ AgentStarts => FollowInv'
<1> SUFFICES ASSUME FollowInv, AgentStarts PROVE FollowInv'
  OBVIOUS
<1>1. lastHb' \in 0 .. now
  BY DEF FollowInv, TypeOK, AgentStarts
<1>2. TypeOK'
  BY <1>1 DEF FollowInv, TypeOK, AgentStarts
<1>3. JobOK'
  BY DEF FollowInv, JobOK, AgentStarts
<1> QED BY <1>2, <1>3, LeadKept DEF FollowInv, AgentStarts

LEMMA TickType == FollowInv /\ Tick => FollowInv'
<1> SUFFICES ASSUME FollowInv, Tick PROVE FollowInv'
  OBVIOUS
<1>1. now' \in 0 .. MaxTime /\ lastHb \in 0 .. now'
  BY TimeAssumption DEF FollowInv, TypeOK, Tick
<1>2. TypeOK'
  BY <1>1 DEF FollowInv, TypeOK, Tick
<1>3. JobOK'
  BY DEF FollowInv, JobOK, Tick
<1> QED BY <1>2, <1>3, LeadKept DEF FollowInv, Tick

LEMMA FollowNext == FollowInv /\ Next => FollowInv'
<1> SUFFICES ASSUME FollowInv, Next PROVE FollowInv'
  OBVIOUS
<1>1. ASSUME NEW w \in Workers, Broadcast(w) \/ LeadExecutes(w) PROVE FollowInv'
  BY <1>1, BroadcastType, LeadExecutesType
<1>2. CASE Heartbeat \/ LeadStops \/ LeadStarts \/ Replay
  BY <1>2, HeartbeatType, LeadStopsType, ReplayType
<1>3. CASE Agent
  BY <1>3, ReceiveType, CheckType, ExecuteType, MarkType, SendReportType,
     MonitorType, AgentStopsType, AgentStartsType DEF Agent, Handle
<1>4. CASE Tick
  BY <1>4, TickType
<1> QED BY <1>1, <1>2, <1>3, <1>4 DEF Next, Lead

LEMMA FollowInvariant == Spec => []FollowInv
<1>1. FollowInv /\ [Next]_vars => FollowInv'
  BY FollowNext, FollowStutter
<1> QED BY FollowInit, <1>1, PTL DEF Spec

\* Every reachable state is well typed; in particular no CLOSE that reaches the
\* executor takes the follower's ledger or its position below zero.
THEOREM FollowTypeCorrect == Spec => []TypeOK
<1>1. FollowInv => TypeOK
  BY DEF FollowInv
<1> QED BY <1>1, FollowInvariant, PTL

-----------------------------------------------------------------------------
(* Executed once. Between the execution and the mark the only record of     *)
(* what was executed is the job itself, so that ExecutedOnce is inductive   *)
(* with it alone; a restart in that window is what breaks it, and is        *)
(* assumed away.                                                            *)

Known == dedup \cup (IF step = "mark" THEN {job} ELSE {})

OnceInv ==
  /\ FollowInv
  /\ ExecutedOnce
  /\ \A a \in 1 .. Len(done) : done[a] \in Known
  /\ step = "send" => job \notin dedup

LEMMA OnceInit == Init => OnceInv
BY FollowInit DEF Init, OnceInv, ExecutedOnce

\* A step that executes nothing and forgets nothing.
LEMMA OnceKept ==
  ASSUME OnceInv, FollowInv', done' = done, Known \subseteq Known',
         step' = "send" => job' \notin dedup'
  PROVE  OnceInv'
BY DEF OnceInv, ExecutedOnce

LEMMA OnceExecute == OnceInv /\ Execute => OnceInv'
<1> SUFFICES ASSUME OnceInv, Execute PROVE OnceInv'
  OBVIOUS
<1>1. FollowInv'
  BY ExecuteType DEF OnceInv
<1>2. /\ done \in Seq(Ids) /\ job \in Ids
      /\ job \notin dedup /\ step = "send"
  BY BoundAssumption DEF OnceInv, FollowInv, TypeOK, JobOK, Execute, Ids
<1>3. done' = Append(done, job) /\ step' = "mark" /\ job' = job /\ dedup' = dedup
  BY DEF Execute
<1>4. /\ Len(done') = Len(done) + 1
      /\ done'[Len(done) + 1] = job
      /\ \A a \in 1 .. Len(done) : done'[a] = done[a] /\ done[a] \in dedup
  BY <1>2, <1>3 DEF OnceInv, Known
<1>5. \A a \in 1 .. Len(done') : done'[a] \in Known'
  BY <1>2, <1>3, <1>4 DEF Known
<1>6. ExecutedOnce'
  BY <1>2, <1>4 DEF OnceInv, ExecutedOnce
<1> QED BY <1>1, <1>3, <1>5, <1>6 DEF OnceInv

LEMMA OnceNext ==
  ASSUME "agentStops" \notin Faults
  PROVE  OnceInv /\ [Next]_vars => OnceInv'
<1> SUFFICES ASSUME OnceInv, [Next]_vars PROVE OnceInv'
  OBVIOUS
<1>1. FollowInv'
  BY FollowNext, FollowStutter DEF OnceInv
<1>2. CASE UNCHANGED vars
  BY <1>1, <1>2, OnceKept DEF vars, Known, OnceInv
<1>3. CASE Lead \/ Tick \/ Monitor \/ AgentStarts
  <2>1. UNCHANGED <<done, dedup, job, step>>
    BY <1>3 DEF Lead, Broadcast, LeadExecutes, Heartbeat, LeadStops, LeadStarts,
       Replay, Tick, Monitor, AgentStarts
  <2> QED BY <1>1, <2>1, OnceKept DEF Known, OnceInv
<1>4. CASE Receive
  <2>1. /\ UNCHANGED <<done, dedup>> /\ step = "idle" /\ step' # "send"
    BY <1>4 DEF Receive
  <2> QED BY <1>1, <2>1, OnceKept DEF Known
<1>5. CASE Check
  <2>1. /\ UNCHANGED <<done, dedup, job>> /\ step = "check"
        /\ step' = "send" => job \notin dedup
    BY <1>5 DEF Check
  <2> QED BY <1>1, <2>1, OnceKept DEF Known
<1>6. CASE Execute
  BY <1>6, OnceExecute
<1>7. CASE Mark
  <2>1. /\ UNCHANGED <<done, job>> /\ dedup' = dedup \cup {job} /\ step' = "report"
    BY <1>7 DEF Mark
  <2> QED BY <1>1, <2>1, OnceKept DEF Known
<1>8. CASE SendReport
  <2>1. /\ UNCHANGED <<done, dedup>> /\ step = "report" /\ step' = "idle"
    BY <1>8 DEF SendReport
  <2> QED BY <1>1, <2>1, OnceKept DEF Known
<1>9. CASE AgentStops
  BY <1>9 DEF AgentStops
<1> QED BY <1>2, <1>3, <1>4, <1>5, <1>6, <1>7, <1>8, <1>9 DEF Next, Agent, Handle

\* However often an intent is broadcast, however many messages are lost, and
\* whichever orders are refused: an agent that is not restarted executes it at
\* most once.
THEOREM ExecutedOnceHolds ==
  ASSUME "agentStops" \notin Faults
  PROVE  Spec => []ExecutedOnce
<1>1. OnceInv /\ [Next]_vars => OnceInv'
  BY OnceNext
<1>2. OnceInv => ExecutedOnce
  BY DEF OnceInv
<1> QED BY OnceInit, <1>1, <1>2, PTL DEF Spec

-----------------------------------------------------------------------------
(* The hold on OPENs. An agent without a hold has heard from its lead       *)
(* within the timeout, or within one interval more if the monitor has not   *)
(* had its turn since.                                                      *)

HeldInv ==
  /\ FollowInv
  /\ step # "idle" => agentUp
  /\ agentUp /\ ~leadLost =>
       now - lastHb <= (IF monitored THEN LeadTimeout ELSE LeadTimeout + 1)

LEMMA HeldInit == Init => HeldInv
BY FollowInit, TimeAssumption DEF Init, HeldInv

LEMMA HeldNext == HeldInv /\ [Next]_vars => HeldInv'
<1> SUFFICES ASSUME HeldInv, [Next]_vars PROVE HeldInv'
  OBVIOUS
<1>1. FollowInv'
  BY FollowNext, FollowStutter DEF HeldInv
<1>2. now \in Int /\ lastHb \in Int /\ LeadTimeout \in Nat /\ leadLost \in BOOLEAN
  BY TimeAssumption DEF HeldInv, FollowInv, TypeOK
<1>3. CASE Lead \/ UNCHANGED vars
  <2>1. UNCHANGED <<now, lastHb, leadLost, monitored, agentUp, step>>
    BY <1>3 DEF vars, Lead, Broadcast, LeadExecutes, Heartbeat, LeadStops, LeadStarts,
       Replay
  <2> QED BY <1>1, <2>1 DEF HeldInv
<1>4. CASE Receive
  BY <1>1, <1>2, <1>4 DEF HeldInv, Receive
<1>5. CASE Check \/ Execute \/ Mark \/ SendReport
  <2>1. UNCHANGED <<now, lastHb, leadLost, monitored, agentUp>> /\ step # "idle"
    BY <1>5 DEF Check, Execute, Mark, SendReport
  <2> QED BY <1>1, <2>1 DEF HeldInv
<1>6. CASE Monitor
  <2>1. ~leadLost' => now - lastHb <= LeadTimeout
    <3>1. leadLost' = (now - lastHb > LeadTimeout)
      BY <1>6 DEF Monitor
    <3>2. CASE now - lastHb > LeadTimeout
      BY <3>1, <3>2
    <3>3. CASE now - lastHb <= LeadTimeout
      BY <3>3
    <3> QED BY <1>2, <3>2, <3>3
  <2>2. UNCHANGED <<now, lastHb, step, agentUp>> /\ monitored' = TRUE
    BY <1>6 DEF Monitor
  <2> QED BY <1>1, <1>2, <2>1, <2>2 DEF HeldInv
<1>7. CASE AgentStops \/ AgentStarts
  <2>1. CASE AgentStops
    BY <1>1, <2>1 DEF HeldInv, AgentStops
  <2>2. CASE AgentStarts
    <3>1. step' = "idle" /\ agentUp' /\ now' - lastHb' = 0
      BY <1>2, <2>2 DEF HeldInv, AgentStarts
    <3> QED BY <1>1, <1>2, <3>1 DEF HeldInv
  <2> QED BY <1>7, <2>1, <2>2
<1>8. CASE Tick
  BY <1>1, <1>2, <1>8 DEF HeldInv, Tick
<1> QED BY <1>3, <1>4, <1>5, <1>6, <1>7, <1>8 DEF Next, Agent, Handle

\* An OPEN goes to the executor only if a heartbeat of the lead was handled
\* within the timeout and one turn of the monitor, whatever is lost or restarted.
THEOREM SilentLeadHeldHolds == Spec => SilentLeadHeld
<1> DEFINE Sent == step = "check" /\ step' = "send" /\ intents[job].action = "OPEN"
                     => now - lastHb <= LeadTimeout + 1
<1>1. HeldInv /\ [Next]_vars => [Sent]_vars
  <2> SUFFICES ASSUME HeldInv, Next, step = "check", step' = "send",
                      intents[job].action = "OPEN"
               PROVE  now - lastHb <= LeadTimeout + 1
    OBVIOUS
  <2>1. Check
    BY DEF Next, Lead, Agent, Handle, Broadcast, LeadExecutes, Heartbeat, LeadStops,
       LeadStarts, Replay, Receive, Execute, Mark, SendReport, Monitor, AgentStops,
       AgentStarts, Tick
  <2>2. ~leadLost
    <3>1. Verdict(job) = "send"
      BY <2>1 DEF Check
    <3> QED BY <3>1 DEF Verdict
  <2> QED BY <2>2, TimeAssumption DEF HeldInv, FollowInv, TypeOK
<1>2. HeldInv /\ [Next]_vars => HeldInv'
  BY HeldNext
<1> QED BY HeldInit, <1>1, <1>2, PTL DEF Spec, SilentLeadHeld

-----------------------------------------------------------------------------
(* A FLATTEN that filled. Execute takes the venue's whole position and      *)
(* aligns the ledger with it first; nothing trades on the follower's        *)
(* account before the report, and the ledger never knows more than the      *)
(* venue holds.                                                             *)

FlatInv == FollowInv /\ FlattenLeavesFlat

LEMMA FlatInit == Init => FlatInv
BY FollowInit DEF Init, FlatInv, FlattenLeavesFlat

\* Nothing is reported, or what is reported is what it was.
LEMMA FlatKept ==
  ASSUME FlatInv, FollowInv',
         \/ step' \notin {"mark", "report"} \/ status' # "FILLED"
         \/ /\ UNCHANGED <<job, status, pos, ledger>>
            /\ step \in {"mark", "report"}
            /\ intents'[job] = intents[job]
  PROVE  FlatInv'
BY DEF FlatInv, FlattenLeavesFlat

LEMMA FlatExecute == FlatInv /\ Execute => FlatInv'
<1> SUFFICES ASSUME FlatInv, Execute PROVE FlatInv'
  OBVIOUS
<1>1. FollowInv'
  BY ExecuteType DEF FlatInv
<1>2. ledger \in Nat /\ pos \in Nat /\ ledger <= pos
  BY DEF FlatInv, FollowInv, TypeOK, JobOK
<1>3. job' = job /\ intents' = intents
  BY DEF Execute
<1>4. intents[job].action = "FLATTEN" /\ status' = "FILLED" => pos' = 0 /\ ledger' = 0
  <2> SUFFICES ASSUME intents[job].action = "FLATTEN", status' = "FILLED"
               PROVE  pos' = 0 /\ ledger' = 0
    OBVIOUS
  <2>1. /\ pos' = pos + (- pos)
        /\ ledger' = (IF pos # 0 THEN pos ELSE ledger) + (- pos)
    BY DEF Execute
  <2> QED BY <1>2, <2>1
<1> QED BY <1>1, <1>3, <1>4 DEF FlatInv, FlattenLeavesFlat

LEMMA FlatNext == FlatInv /\ [Next]_vars => FlatInv'
<1> SUFFICES ASSUME FlatInv, [Next]_vars PROVE FlatInv'
  OBVIOUS
<1>1. FollowInv'
  BY FollowNext, FollowStutter DEF FlatInv
<1>2. ASSUME NEW w \in Workers, Broadcast(w) PROVE FlatInv'
  <2>1. UNCHANGED <<job, step, status, pos, ledger>>
    BY <1>2 DEF Broadcast
  <2>2. step \in {"mark", "report"} => intents'[job] = intents[job]
    <3>1. PICK e : intents' = Append(intents, e)
      BY <1>2 DEF Broadcast
    <3>2. intents \in Seq(IntentRecord)
      BY DEF FlatInv, FollowInv, TypeOK
    <3>3. step \in {"mark", "report"} => job \in 1 .. Len(intents)
      BY DEF FlatInv, FollowInv, TypeOK, JobOK
    <3> QED BY <3>1, <3>2, <3>3
  <2> QED BY <1>1, <2>1, <2>2, FlatKept
<1>3. CASE \/ UNCHANGED vars \/ \E w \in Workers : LeadExecutes(w)
           \/ Heartbeat \/ LeadStops \/ LeadStarts \/ Replay
           \/ Monitor \/ AgentStarts \/ Tick
  <2>1. UNCHANGED <<intents, job, step, status, pos, ledger>>
    BY <1>3 DEF vars, LeadExecutes, Heartbeat, LeadStops, LeadStarts, Replay, Monitor,
       AgentStarts, Tick
  <2> QED BY <1>1, <2>1, FlatKept
<1>4. CASE Receive
  <2>1. step' \in {"idle", "check"}
    BY <1>4 DEF Receive
  <2> QED BY <1>1, <2>1, FlatKept
<1>5. CASE Check
  <2>1. step' = "mark" => status' # "FILLED"
    <3>1. job \in 1 .. Len(intents)
      BY <1>5 DEF FlatInv, FollowInv, TypeOK, JobOK, Check
    <3>2. Verdict(job) \in {"send", "REJECT", "SKIPPED"}
      BY <3>1, VerdictChecked DEF FlatInv
    <3> QED BY <1>5, <3>2 DEF Check
  <2>2. step' = "report" => status' # "FILLED"
    BY <1>5 DEF Check
  <2> QED BY <1>1, <2>1, <2>2, FlatKept
<1>6. CASE Execute
  BY <1>6, FlatExecute
<1>7. CASE Mark
  <2>1. UNCHANGED <<intents, job, status, pos, ledger>> /\ step = "mark"
    BY <1>7 DEF Mark
  <2> QED BY <1>1, <2>1, FlatKept
<1>8. CASE SendReport \/ AgentStops
  <2>1. step' = "idle"
    BY <1>8 DEF SendReport, AgentStops
  <2> QED BY <1>1, <2>1, FlatKept
<1> QED BY <1>2, <1>3, <1>4, <1>5, <1>6, <1>7, <1>8 DEF Next, Lead, Agent, Handle

\* A FLATTEN reported as FILLED left nothing at the follower's venue and
\* nothing in its ledger, whatever the ledger knew before: also after a restart
\* that lost it.
THEOREM FlattenLeavesFlatHolds == Spec => []FlattenLeavesFlat
<1>1. FlatInv => FlattenLeavesFlat
  BY DEF FlatInv
<1> QED BY FlatInit, FlatNext, <1>1, PTL DEF Spec

-----------------------------------------------------------------------------
(* The lead's order. What was executed, the job and the queue lie in this   *)
(* order on one line of ids that grows at its end: a restart of the agent   *)
(* drops the job and the queue, and what is broadcast later is larger.      *)

LineInv ==
  /\ FollowInv
  /\ \A a \in 1 .. Len(done) : done[a] <= Len(intents)
  /\ replays = 0 =>
       /\ \A a, b \in 1 .. Len(done) : a < b => done[a] < done[b]
       /\ \A a \in 1 .. Len(done) : step \in {"check", "send"} => done[a] < job
       /\ \A n \in 1 .. Len(inbox) : inbox[n] # Beat =>
            /\ job < inbox[n]
            /\ \A a \in 1 .. Len(done) : done[a] < inbox[n]
       /\ \A m, n \in 1 .. Len(inbox) :
            m < n /\ inbox[m] # Beat /\ inbox[n] # Beat => inbox[m] < inbox[n]

LEMMA LineInit == Init => LineInv
BY FollowInit DEF Init, LineInv

\* What a publication leaves of the line: the queue, or the queue and one
\* message at its end that is a heartbeat or a new id.
LEMMA LinePublished ==
  ASSUME LineInv, FollowInv', UNCHANGED <<replays, done, job, step>>,
         Len(intents) <= Len(intents'),
         NEW m \in Nat, m = Beat \/ m > Len(intents),
         inbox' = Append(inbox, m) \/ inbox' = inbox
  PROVE  LineInv'
<1>1. /\ inbox \in Seq(0 .. Len(intents)) /\ job \in 0 .. Len(intents)
      /\ done \in Seq(Ids) /\ Len(intents) \in Nat /\ Len(intents') \in Nat
  BY DEF LineInv, FollowInv, TypeOK
<1>2. \A a \in 1 .. Len(done) : done[a] \in Nat
  <2>1. \A a \in 1 .. Len(done) : done[a] \in Ids
    BY <1>1, ElementType
  <2> QED BY <2>1 DEF Ids
<1>3. \A n \in 1 .. Len(inbox) : inbox[n] \in 0 .. Len(intents)
  BY <1>1
<1>4. \A a \in 1 .. Len(done') : done'[a] <= Len(intents')
  BY <1>1, <1>2 DEF LineInv
<1>5. CASE inbox' = inbox
  BY <1>4, <1>5 DEF LineInv
<1>6. CASE inbox' = Append(inbox, m)
  <2>1. /\ Len(inbox') = Len(inbox) + 1
        /\ inbox'[Len(inbox) + 1] = m
        /\ \A n \in 1 .. Len(inbox) : inbox'[n] = inbox[n]
    BY <1>1, <1>6
  <2>2. ASSUME replays' = 0, NEW n \in 1 .. Len(inbox'), inbox'[n] # Beat
        PROVE  /\ job' < inbox'[n]
               /\ \A a \in 1 .. Len(done') : done'[a] < inbox'[n]
    <3>1. CASE n \in 1 .. Len(inbox)
      BY <2>1, <2>2, <3>1 DEF LineInv
    <3>2. CASE n = Len(inbox) + 1
      <4>1. inbox'[n] = m /\ m > Len(intents)
        BY <2>1, <2>2, <3>2
      <4>2. \A a \in 1 .. Len(done) : done[a] <= Len(intents)
        BY DEF LineInv
      <4> QED BY <1>1, <1>2, <4>1, <4>2
    <3> QED BY <1>1, <2>1, <3>1, <3>2
  <2>3. ASSUME replays' = 0, NEW k \in 1 .. Len(inbox'), NEW n \in 1 .. Len(inbox'),
               k < n, inbox'[k] # Beat, inbox'[n] # Beat
        PROVE  inbox'[k] < inbox'[n]
    <3>1. k \in 1 .. Len(inbox)
      BY <1>1, <2>1, <2>3
    <3>2. CASE n \in 1 .. Len(inbox)
      BY <2>1, <2>3, <3>1, <3>2 DEF LineInv
    <3>3. CASE n = Len(inbox) + 1
      <4>1. inbox'[n] = m /\ m > Len(intents) /\ inbox'[k] = inbox[k]
        BY <2>1, <2>3, <3>1, <3>3
      <4> QED BY <1>1, <1>3, <3>1, <4>1
    <3> QED BY <1>1, <2>1, <3>2, <3>3
  <2> QED BY <1>4, <2>2, <2>3 DEF LineInv
<1> QED BY <1>5, <1>6

\* A step of the agent that takes nothing from the queue and executes nothing.
LEMMA LineKept ==
  ASSUME LineInv, FollowInv', UNCHANGED <<intents, replays, done, inbox>>,
         job' = job \/ job' = 0,
         step' \in {"check", "send"} => step \in {"check", "send"} /\ job' = job
  PROVE  LineInv'
<1>1. \A n \in 1 .. Len(inbox) : inbox[n] \in Nat
  <2>1. inbox \in Seq(0 .. Len(intents)) /\ Len(intents) \in Nat
    BY DEF LineInv, FollowInv, TypeOK
  <2>2. \A n \in 1 .. Len(inbox) : inbox[n] \in 0 .. Len(intents)
    BY <2>1, ElementType
  <2> QED BY <2>1, <2>2
<1>2. replays = 0 => \A n \in 1 .. Len(inbox) : inbox[n] # Beat => job' < inbox[n]
  BY <1>1 DEF LineInv, Beat
<1> QED BY <1>2 DEF LineInv

LEMMA LineReceive == LineInv /\ Receive => LineInv'
<1> SUFFICES ASSUME LineInv, Receive PROVE LineInv'
  OBVIOUS
<1>1. FollowInv'
  BY ReceiveType DEF LineInv
<1>2. /\ inbox \in Seq(0 .. Len(intents)) /\ inbox # <<>> /\ job = 0
      /\ done \in Seq(Ids) /\ Len(intents) \in Nat
  BY DEF LineInv, FollowInv, TypeOK, JobOK, Receive
<1>3. /\ inbox' = Tail(inbox)
      /\ UNCHANGED <<intents, replays, done>>
      /\ \/ Head(inbox) = Beat /\ job' = job /\ step' = "idle"
         \/ Head(inbox) # Beat /\ job' = Head(inbox) /\ step' = "check"
  BY DEF Receive
<1>4. /\ Len(inbox) \in Nat /\ Len(inbox) > 0 /\ Len(inbox') = Len(inbox) - 1
      /\ \A n \in 1 .. Len(inbox') : inbox'[n] = inbox[n + 1]
      /\ inbox[1] = Head(inbox)
  BY <1>2, <1>3
<1>5. \A n \in 1 .. Len(inbox') : n + 1 \in 1 .. Len(inbox) /\ 1 < n + 1
  BY <1>4
<1>6. 1 \in 1 .. Len(inbox)
  BY <1>4
<1>7. ASSUME replays' = 0, NEW n \in 1 .. Len(inbox'), inbox'[n] # Beat
      PROVE  /\ job' < inbox'[n]
             /\ \A a \in 1 .. Len(done') : done'[a] < inbox'[n]
  BY <1>3, <1>4, <1>5, <1>6, <1>7 DEF LineInv
<1>8. ASSUME replays' = 0, NEW k \in 1 .. Len(inbox'), NEW n \in 1 .. Len(inbox'),
             k < n, inbox'[k] # Beat, inbox'[n] # Beat
      PROVE  inbox'[k] < inbox'[n]
  <2>1. k + 1 < n + 1
    BY <1>8
  <2> QED BY <1>3, <1>4, <1>5, <1>8, <2>1 DEF LineInv
<1>9. ASSUME replays' = 0, NEW a \in 1 .. Len(done'), step' \in {"check", "send"}
      PROVE  done'[a] < job'
  BY <1>3, <1>4, <1>6, <1>9 DEF LineInv
<1> QED BY <1>1, <1>3, <1>7, <1>8, <1>9 DEF LineInv

LEMMA LineExecute == LineInv /\ Execute => LineInv'
<1> SUFFICES ASSUME LineInv, Execute PROVE LineInv'
  OBVIOUS
<1>1. FollowInv'
  BY ExecuteType DEF LineInv
<1>2. /\ done \in Seq(Ids) /\ job \in 1 .. Len(intents) /\ step = "send"
      /\ Len(intents) \in Nat
  BY DEF LineInv, FollowInv, TypeOK, JobOK, Execute
<1>3. /\ done' = Append(done, job) /\ step' = "mark"
      /\ UNCHANGED <<intents, replays, job, inbox>>
  BY DEF Execute
<1>4. /\ Len(done) \in Nat /\ Len(done') = Len(done) + 1
      /\ done'[Len(done) + 1] = job
      /\ \A a \in 1 .. Len(done) : done'[a] = done[a]
  BY <1>2, <1>3
<1>5. \A a \in 1 .. Len(done') : a \in 1 .. Len(done) \/ a = Len(done) + 1
  BY <1>4
<1>6. \A a \in 1 .. Len(done') : done'[a] <= Len(intents')
  BY <1>2, <1>3, <1>4, <1>5 DEF LineInv
<1>7. ASSUME replays' = 0, NEW a \in 1 .. Len(done'), NEW b \in 1 .. Len(done'), a < b
      PROVE  done'[a] < done'[b]
  <2>1. a \in 1 .. Len(done)
    BY <1>4, <1>7
  <2> QED BY <1>2, <1>3, <1>4, <1>5, <1>7, <2>1 DEF LineInv
<1>8. ASSUME replays' = 0, NEW n \in 1 .. Len(inbox'), inbox'[n] # Beat
      PROVE  /\ job' < inbox'[n]
             /\ \A a \in 1 .. Len(done') : done'[a] < inbox'[n]
  BY <1>3, <1>4, <1>5, <1>8 DEF LineInv
<1>9. ASSUME replays' = 0, NEW k \in 1 .. Len(inbox'), NEW n \in 1 .. Len(inbox'),
             k < n, inbox'[k] # Beat, inbox'[n] # Beat
      PROVE  inbox'[k] < inbox'[n]
  BY <1>3, <1>9 DEF LineInv
<1> QED BY <1>1, <1>3, <1>6, <1>7, <1>8, <1>9 DEF LineInv

LEMMA LineNext == LineInv /\ [Next]_vars => LineInv'
<1> SUFFICES ASSUME LineInv, [Next]_vars PROVE LineInv'
  OBVIOUS
<1>1. FollowInv'
  BY FollowNext, FollowStutter DEF LineInv
<1>2. intents \in Seq(IntentRecord) /\ Len(intents) \in Nat
  BY DEF LineInv, FollowInv, TypeOK
<1>3. ASSUME NEW w \in Workers, Broadcast(w) PROVE LineInv'
  <2>1. Len(intents') = Len(intents) + 1
    BY <1>2, <1>3 DEF Broadcast
  <2>2. inbox' = Append(inbox, Len(intents')) \/ inbox' = inbox
    BY <1>3 DEF Broadcast, Publish
  <2>3. UNCHANGED <<replays, done, job, step>>
    BY <1>3 DEF Broadcast
  <2>4. Len(intents') \in Nat /\ Len(intents') > Len(intents)
    BY <1>2, <2>1
  <2>5. Len(intents) <= Len(intents')
    BY <1>2, <2>1
  <2> QED BY <1>1, <2>2, <2>3, <2>4, <2>5, LinePublished
<1>4. CASE Heartbeat
  <2>1. inbox' = Append(inbox, Beat) \/ inbox' = inbox
    BY <1>4 DEF Heartbeat, Publish
  <2>2. UNCHANGED <<intents, replays, done, job, step>>
    BY <1>4 DEF Heartbeat
  <2>3. Beat \in Nat /\ Len(intents) <= Len(intents')
    BY <1>2, <2>2 DEF Beat
  <2> QED BY <1>1, <2>1, <2>2, <2>3, LinePublished
<1>5. CASE Replay
  <2>1. replays' # 0 /\ UNCHANGED <<intents, done>>
    BY <1>5 DEF Replay, LineInv, FollowInv, TypeOK
  <2> QED BY <1>1, <2>1 DEF LineInv
<1>6. CASE \/ UNCHANGED vars \/ \E w \in Workers : LeadExecutes(w)
           \/ LeadStops \/ LeadStarts \/ Monitor \/ AgentStarts \/ Tick
  <2>1. UNCHANGED <<intents, replays, done, inbox, job, step>>
    BY <1>6 DEF vars, LeadExecutes, LeadStops, LeadStarts, Monitor, AgentStarts, Tick
  <2> QED BY <1>1, <2>1, LineKept
<1>7. CASE Receive
  BY <1>7, LineReceive
<1>8. CASE Execute
  BY <1>8, LineExecute
<1>9. CASE Check \/ Mark \/ SendReport
  <2>1. UNCHANGED <<intents, replays, done, inbox>> /\ (job' = job \/ job' = 0)
    BY <1>9 DEF Check, Mark, SendReport
  <2>2. step' \in {"check", "send"} => step = "check" /\ job' = job
    BY <1>9 DEF Check, Mark, SendReport
  <2> QED BY <1>1, <2>1, <2>2, LineKept
<1>10. CASE AgentStops
  <2>1. /\ UNCHANGED <<intents, replays, done>>
        /\ inbox' = <<>> /\ step' = "idle"
    BY <1>10 DEF AgentStops
  <2> QED BY <1>1, <2>1 DEF LineInv
<1> QED BY <1>3, <1>4, <1>5, <1>6, <1>7, <1>8, <1>9, <1>10 DEF Next, Lead, Agent, Handle

\* Without replays the follower executes what it executes in the order the lead
\* broadcast it, whatever is lost on the way and whichever side restarts.
THEOREM InLeadOrderHolds == Spec => []InLeadOrder
<1>1. LineInv => InLeadOrder
  BY DEF LineInv, InLeadOrder
<1> QED BY LineInit, LineNext, <1>1, PTL DEF Spec

-----------------------------------------------------------------------------
(* A drift shows. The lead's position after each of its intents is a        *)
(* trail P that grows with them; the lead stands at its end or, with an     *)
(* intent broadcast and not yet executed, one before it. A follower that    *)
(* reported nothing but FILLED stands at k times the point of the trail     *)
(* that belongs to what it executed last. P is a value the invariant        *)
(* quantifies over, so that no recursive definition is needed.              *)

\* What has been reported lies before the job and the queue, and what is about
\* to be reported as filled was executed.
ReportInv ==
  /\ LineInv
  /\ step \in {"mark", "report"} /\ status = "FILLED" =>
       \E a \in 1 .. Len(done) : done[a] = job
  /\ \A i \in Ids : reports[i] # {} => i <= Len(intents)
  /\ replays = 0 =>
       \A i \in Ids : reports[i] # {} =>
         /\ job # 0 => i < job
         /\ \A n \in 1 .. Len(inbox) : inbox[n] # Beat => i < inbox[n]

Moved(p, i) ==
  CASE i.action = "OPEN"  -> p + i.qty
    [] i.action = "CLOSE" -> p - i.qty
    [] OTHER              -> 0

Trail(P) ==
  /\ P \in [0 .. Len(intents) -> Nat] /\ P[0] = 0
  /\ \A m \in 1 .. Len(intents) : P[m] = Moved(P[m - 1], intents[m])

LeadOn(P) ==
  \A w \in Workers :
    /\ work[w] \in {0, Len(intents)}
    /\ leadLedger[w] = leadPos
    /\ leadPos = IF work[w] = 0 THEN P[Len(intents)] ELSE P[Len(intents) - 1]

AllFilled(m) == \A i \in 1 .. m : reports[i] = {"FILLED"}

Followed(P, k) ==
  /\ \A m \in 0 .. Len(intents) :
       AllFilled(m) /\ (\A a \in 1 .. Len(done) : done[a] <= m) => pos = k * P[m]
  /\ step \in {"mark", "report"} /\ status = "FILLED" /\ AllFilled(job - 1) =>
       pos = k * P[job]

OnTrail(P, k) == Trail(P) /\ LeadOn(P) /\ (replays = 0 => Followed(P, k))

DriftInv(k) == ReportInv /\ \E P : OnTrail(P, k)

\* Rounding changes nothing when the scale is a whole number.
LEMMA ScaledWhole ==
  ASSUME NEW k \in Nat, ScaleUp = k * ScaleDown, NEW q \in Nat
  PROVE  Scaled(q) = k * q
<1> DEFINE d == 2 * ScaleDown
           x == k * q
           n == 2 * q * ScaleUp + ScaleDown
<1>1. d \in Nat \ {0} /\ x \in Nat /\ ScaleDown \in Nat \ {0} /\ ScaleDown < d
  BY ScaleAssumption
<1>2. n = d * x + ScaleDown
  BY ScaleAssumption
<1>3. \A y \in Nat, e \in Nat \ {0}, r \in Nat : r < e => (e * y + r) \div e = y
  <2> TAKE y \in Nat, e \in Nat \ {0}, r \in Nat
  <2> HAVE r < e
  <2> DEFINE z == (e * y + r) \div e
  <2>1. e * y \in Nat /\ e * y + r \in Nat
    OBVIOUS
  <2>2. z \in Int /\ e * z <= e * y + r /\ e * y + r < e * (z + 1)
    BY <2>1
  <2> HIDE DEF z
  <2>3. ~ (z < y)
    <3> SUFFICES ASSUME z + 1 <= y PROVE FALSE
      BY <2>2
    <3>1. e * (z + 1) <= e * y
      BY <2>2
    <3> QED BY <2>1, <2>2, <3>1
  <2>4. ~ (y < z)
    <3> SUFFICES ASSUME y + 1 <= z PROVE FALSE
      BY <2>2
    <3>1. e * (y + 1) <= e * z
      BY <2>2
    <3>2. e * (y + 1) = e * y + e
      OBVIOUS
    <3> QED BY <2>1, <2>2, <3>1, <3>2
  <2>5. z = y
    BY <2>2, <2>3, <2>4
  <2> QED BY <2>5 DEF z
<1>4. n \div d = x
  <2> HIDE DEF n, d, x
  <2> QED BY <1>1, <1>2, <1>3
<1> QED BY <1>4 DEF Scaled

LEMMA ReportInit == Init => ReportInv
BY LineInit DEF Init, ReportInv

\* A step that reports nothing and leaves the job and the queue, or takes the
\* job from the queue's head, or gives both up.
LEMMA ReportKept ==
  ASSUME ReportInv, LineInv', UNCHANGED reports,
         Len(intents) <= Len(intents'),
         replays' = 0 => replays = 0,
         job' = 0 \/ job' = job \/ (\E n \in 1 .. Len(inbox) : job' = inbox[n]),
         \A n \in 1 .. Len(inbox') : inbox'[n] # Beat =>
           \/ \E l \in 1 .. Len(inbox) : inbox'[n] = inbox[l]
           \/ inbox'[n] > Len(intents),
         step' \in {"mark", "report"} /\ status' = "FILLED" =>
           \E a \in 1 .. Len(done') : done'[a] = job'
  PROVE  ReportInv'
<1>1. /\ Len(intents) \in Nat /\ Len(intents') \in Nat
      /\ inbox' \in Seq(0 .. Len(intents'))
  <2>1. intents \in Seq(IntentRecord)
    BY DEF ReportInv, LineInv, FollowInv, TypeOK
  <2>2. intents' \in Seq(IntentRecord) /\ inbox' \in Seq(0 .. Len(intents'))
    BY DEF LineInv, FollowInv, TypeOK
  <2> QED BY <2>1, <2>2
<1>2. \A n \in 1 .. Len(inbox') : inbox'[n] \in Nat
  <2>1. \A n \in 1 .. Len(inbox') : inbox'[n] \in 0 .. Len(intents')
    BY <1>1, ElementType
  <2> QED BY <1>1, <2>1
<1>3. \A i \in Ids : i \in Int
  BY BoundAssumption DEF Ids
<1>4. \A i \in Ids : reports'[i] # {} => i <= Len(intents) /\ i <= Len(intents')
  BY <1>1, <1>3 DEF ReportInv
<1>5. ASSUME replays' = 0, NEW i \in Ids, reports'[i] # {}, job' # 0 PROVE i < job'
  BY <1>5 DEF ReportInv, Beat
<1>6. ASSUME replays' = 0, NEW i \in Ids, reports'[i] # {},
             NEW n \in 1 .. Len(inbox'), inbox'[n] # Beat
      PROVE  i < inbox'[n]
  <2>1. CASE \E l \in 1 .. Len(inbox) : inbox'[n] = inbox[l]
    BY <1>6, <2>1 DEF ReportInv
  <2>2. CASE inbox'[n] > Len(intents)
    <3>1. i \in Int /\ i <= Len(intents) /\ Len(intents) \in Nat
      BY <1>1, <1>3, <1>4, <1>6
    <3>2. inbox'[n] \in Nat
      BY <1>2
    <3> QED BY <2>2, <3>1, <3>2
  <2> QED BY <1>6, <2>1, <2>2
<1> QED BY <1>4, <1>5, <1>6 DEF ReportInv

LEMMA ReportSent == ReportInv /\ SendReport => ReportInv'
<1> SUFFICES ASSUME ReportInv, SendReport PROVE ReportInv'
  OBVIOUS
<1>1. LineInv'
  BY LineNext DEF ReportInv, Next, Agent, Handle
<1>2. /\ job \in 1 .. Len(intents) /\ job \in Ids
      /\ reports \in [Ids -> SUBSET Statuses]
  BY BoundAssumption DEF ReportInv, LineInv, FollowInv, TypeOK, JobOK, SendReport, Ids
<1>3. /\ reports' = [reports EXCEPT ![job] = @ \cup {status}]
      /\ job' = 0 /\ step' = "idle" /\ UNCHANGED <<intents, replays, inbox>>
  BY DEF SendReport
<1>4. \A i \in Ids : reports'[i] # {} => i = job \/ reports[i] # {}
  BY <1>2, <1>3
<1>5. replays = 0 => \A n \in 1 .. Len(inbox) : inbox[n] # Beat => job < inbox[n]
  BY DEF ReportInv, LineInv
<1>6. job <= Len(intents)
  BY <1>2
<1> QED BY <1>1, <1>3, <1>4, <1>5, <1>6 DEF ReportInv

LEMMA ReportNext == ReportInv /\ [Next]_vars => ReportInv'
<1> SUFFICES ASSUME ReportInv, [Next]_vars PROVE ReportInv'
  OBVIOUS
<1>1. LineInv'
  BY LineNext DEF ReportInv
<1>2. /\ intents \in Seq(IntentRecord) /\ Len(intents) \in Nat
      /\ inbox \in Seq(0 .. Len(intents)) /\ replays \in Nat
  BY DEF ReportInv, LineInv, FollowInv, TypeOK
<1>3. ASSUME NEW m, m = Beat \/ m > Len(intents), Len(intents) <= Len(intents'),
             inbox' = Append(inbox, m) \/ inbox' = inbox,
             UNCHANGED <<replays, done, reports, job, step, status>>
      PROVE  ReportInv'
  <2>1. \A n \in 1 .. Len(inbox') : inbox'[n] # Beat =>
           \/ \E l \in 1 .. Len(inbox) : inbox'[n] = inbox[l]
           \/ inbox'[n] > Len(intents)
    <3>1. CASE inbox' = inbox
      BY <3>1
    <3>2. CASE inbox' = Append(inbox, m)
      <4>1. /\ Len(inbox') = Len(inbox) + 1 /\ Len(inbox) \in Nat
            /\ inbox'[Len(inbox) + 1] = m
            /\ \A n \in 1 .. Len(inbox) : inbox'[n] = inbox[n]
        BY <1>2, <3>2
      <4>2. \A n \in 1 .. Len(inbox') : n \in 1 .. Len(inbox) \/ n = Len(inbox) + 1
        BY <4>1
      <4> QED BY <1>3, <4>1, <4>2
    <3> QED BY <1>3, <3>1, <3>2
  <2>2. step' \in {"mark", "report"} /\ status' = "FILLED" =>
           \E a \in 1 .. Len(done') : done'[a] = job'
    BY <1>3 DEF ReportInv
  <2> QED BY <1>1, <1>3, <2>1, <2>2, ReportKept
<1>4. ASSUME NEW w \in Workers, Broadcast(w) PROVE ReportInv'
  <2>1. Len(intents') = Len(intents) + 1
    BY <1>2, <1>4 DEF Broadcast
  <2>2. inbox' = Append(inbox, Len(intents')) \/ inbox' = inbox
    BY <1>4 DEF Broadcast, Publish
  <2>3. UNCHANGED <<replays, done, reports, job, step, status>>
    BY <1>4 DEF Broadcast
  <2>4. Len(intents') > Len(intents) /\ Len(intents) <= Len(intents')
    BY <1>2, <2>1
  <2> QED BY <1>3, <2>2, <2>3, <2>4
<1>5. CASE Heartbeat
  <2>1. inbox' = Append(inbox, Beat) \/ inbox' = inbox
    BY <1>5 DEF Heartbeat, Publish
  <2>2. UNCHANGED <<intents, replays, done, reports, job, step, status>>
    BY <1>5 DEF Heartbeat
  <2>3. Len(intents) <= Len(intents')
    BY <1>2, <2>2
  <2> QED BY <1>3, <2>1, <2>2, <2>3
<1>6. CASE Replay
  <2>1. replays' # 0 /\ UNCHANGED <<intents, done, reports, job, step, status>>
    BY <1>2, <1>6 DEF Replay
  <2> QED BY <1>1, <2>1 DEF ReportInv
<1>7. CASE \/ UNCHANGED vars \/ \E w \in Workers : LeadExecutes(w)
           \/ LeadStops \/ LeadStarts \/ Monitor \/ AgentStarts \/ Tick
  <2>1. UNCHANGED <<intents, replays, done, reports, inbox, job, step, status>>
    BY <1>7 DEF vars, LeadExecutes, LeadStops, LeadStarts, Monitor, AgentStarts, Tick
  <2> QED BY <1>1, <2>1 DEF ReportInv
<1>8. CASE Receive
  <2>1. inbox # <<>> /\ inbox' = Tail(inbox) /\ step' \in {"idle", "check"}
    BY <1>8 DEF Receive
  <2>2. /\ \A n \in 1 .. Len(inbox') :
             n + 1 \in 1 .. Len(inbox) /\ inbox'[n] = inbox[n + 1]
        /\ 1 \in 1 .. Len(inbox) /\ inbox[1] = Head(inbox)
    BY <1>2, <2>1
  <2>3. UNCHANGED <<intents, replays, done, reports>> /\ (job' = job \/ job' = Head(inbox))
    BY <1>8 DEF Receive
  <2>4. job' = job \/ (\E n \in 1 .. Len(inbox) : job' = inbox[n])
    BY <2>2, <2>3
  <2>5. \A n \in 1 .. Len(inbox') : \E l \in 1 .. Len(inbox) : inbox'[n] = inbox[l]
    BY <2>2
  <2> QED BY <1>1, <1>2, <2>1, <2>3, <2>4, <2>5, ReportKept
<1>9. CASE Check
  <2>1. UNCHANGED <<intents, replays, done, reports, inbox, job>>
    BY <1>9 DEF Check
  <2>2. job \in 1 .. Len(intents)
    BY <1>9 DEF ReportInv, LineInv, FollowInv, TypeOK, JobOK, Check
  <2>3. Verdict(job) \in {"send", "REJECT", "SKIPPED"}
    BY <2>2, VerdictChecked DEF ReportInv, LineInv
  <2>4. step' \in {"mark", "report"} => status' # "FILLED"
    BY <1>9, <2>3 DEF Check
  <2> QED BY <1>1, <1>2, <2>1, <2>4, ReportKept
<1>10. CASE Execute
  <2>1. UNCHANGED <<intents, replays, reports, inbox, job>> /\ done' = Append(done, job)
    BY <1>10 DEF Execute
  <2>2. \E a \in 1 .. Len(done') : done'[a] = job'
    <3>1. done \in Seq(Ids)
      BY DEF ReportInv, LineInv, FollowInv, TypeOK
    <3>2. Len(done) + 1 \in 1 .. Len(done') /\ done'[Len(done) + 1] = job
      BY <2>1, <3>1
    <3> QED BY <2>1, <3>2
  <2> QED BY <1>1, <1>2, <2>1, <2>2, ReportKept
<1>11. CASE Mark
  <2>1. UNCHANGED <<intents, replays, done, reports, inbox, job, status>> /\ step = "mark"
    BY <1>11 DEF Mark
  <2> QED BY <1>1, <2>1 DEF ReportInv
<1>12. CASE SendReport
  BY <1>12, ReportSent
<1>13. CASE AgentStops
  <2>1. UNCHANGED <<intents, replays, done, reports>> /\ job' = 0
    BY <1>13 DEF AgentStops
  <2>2. step' = "idle" /\ inbox' = <<>>
    BY <1>13 DEF AgentStops
  <2> QED BY <1>1, <1>2, <2>1, <2>2, ReportKept
<1>14. CASE Lead
  BY <1>4, <1>5, <1>6, <1>7, <1>14 DEF Lead
<1>15. CASE Agent
  BY <1>7, <1>8, <1>9, <1>10, <1>11, <1>12, <1>13, <1>15 DEF Agent, Handle
<1> QED BY <1>7, <1>14, <1>15 DEF Next

LEMMA TrailInit ==
  ASSUME Init, NEW k \in Nat
  PROVE  \E P : OnTrail(P, k)
<1> DEFINE P == [m \in 0 .. 0 |-> 0]
<1>1. intents = <<>> /\ Len(intents) = 0 /\ step = "idle" /\ pos = 0
  BY DEF Init
<1>2. P \in [0 .. 0 -> Nat] /\ P[0] = 0
  OBVIOUS
<1> HIDE DEF P
<1>3. Trail(P)
  BY <1>1, <1>2 DEF Trail
<1>4. LeadOn(P)
  BY <1>1, <1>2 DEF Init, LeadOn
<1>5. Followed(P, k)
  <2>1. \A m \in 0 .. Len(intents) : m = 0
    BY <1>1
  <2>2. k * P[0] = 0
    BY <1>2
  <2> QED BY <1>1, <2>1, <2>2 DEF Followed
<1> QED BY <1>3, <1>4, <1>5 DEF OnTrail

\* A step that trades on neither side and reports nothing.
LEMMA TrailKept ==
  ASSUME NEW P, NEW k, OnTrail(P, k),
         UNCHANGED <<intents, work, leadLedger, leadPos, done, reports, pos>>,
         replays' = 0 => replays = 0,
         step' \in {"mark", "report"} /\ status' = "FILLED" =>
           step \in {"mark", "report"} /\ status = "FILLED" /\ job' = job
  PROVE  OnTrail(P, k)'
<1>1. Trail(P)'
  BY DEF OnTrail, Trail
<1>2. LeadOn(P)'
  BY DEF OnTrail, LeadOn
<1>3. ASSUME replays = 0 PROVE Followed(P, k)'
  BY <1>3 DEF OnTrail, Followed, AllFilled
<1> QED BY <1>1, <1>2, <1>3 DEF OnTrail

\* The lead broadcasts: the trail grows by where the intent will take it.
LEMMA TrailGrows ==
  ASSUME ReportInv, NEW w \in Workers, Workers = {w}, NEW P, NEW k \in Nat,
         OnTrail(P, k), Broadcast(w)
  PROVE  \E Q : OnTrail(Q, k)'
<1>1. PICK a \in Actions, q \in 0 .. MaxLots :
        /\ a = "CLOSE" => q <= leadLedger[w]
        /\ intents' = Append(intents, [action |-> a, qty |-> q])
  BY DEF Broadcast
<1>2. PICK n : n = Len(intents)
  OBVIOUS
<1>3. /\ intents \in Seq(IntentRecord) /\ n \in Nat /\ n < MaxIntents
      /\ MaxIntents \in Nat /\ q \in Nat /\ leadPos \in Nat
      /\ reports \in [Ids -> SUBSET Statuses]
  BY <1>2, BoundAssumption DEF ReportInv, LineInv, FollowInv, TypeOK, Broadcast
<1>4. /\ Len(intents') = n + 1
      /\ \A m \in 1 .. n : intents'[m] = intents[m]
      /\ intents'[n + 1] = [action |-> a, qty |-> q]
  BY <1>1, <1>2, <1>3
<1>5. /\ P \in [0 .. n -> Nat] /\ P[0] = 0
      /\ \A m \in 1 .. n : P[m] = Moved(P[m - 1], intents[m])
  BY <1>2 DEF OnTrail, Trail
<1>6. work[w] = 0 /\ leadLedger[w] = leadPos /\ leadPos = P[n]
  BY <1>2 DEF OnTrail, LeadOn, Broadcast
<1>7. PICK e : e = Moved(P[n], intents'[n + 1])
  OBVIOUS
<1>8. e \in Nat
  <2>1. e = (CASE a = "OPEN"  -> P[n] + q
               [] a = "CLOSE" -> P[n] - q
               [] OTHER       -> 0)
    BY <1>4, <1>7 DEF Moved
  <2>2. CASE a = "OPEN"
    BY <1>3, <1>6, <2>1, <2>2
  <2>3. CASE a = "CLOSE"
    <3>1. q <= P[n]
      BY <1>1, <1>6, <2>3
    <3> QED BY <1>3, <1>6, <2>1, <2>3, <3>1
  <2>4. CASE a = "FLATTEN"
    BY <2>1, <2>4
  <2> QED BY <2>2, <2>3, <2>4 DEF Actions
<1> DEFINE Q == [m \in 0 .. n + 1 |-> IF m = n + 1 THEN e ELSE P[m]]
<1>9. /\ Q \in [0 .. n + 1 -> Nat] /\ Q[n + 1] = e
      /\ \A m \in 0 .. n : Q[m] = P[m]
  <2>1. \A m \in 0 .. n + 1 : m = n + 1 \/ m \in 0 .. n
    BY <1>3
  <2>2. n + 1 \in 0 .. n + 1 /\ \A m \in 0 .. n : m \in 0 .. n + 1 /\ m # n + 1
    BY <1>3
  <2> QED BY <1>5, <1>8, <2>1, <2>2
<1> HIDE DEF Q
<1>10. Trail(Q)'
  <2>1. 0 \in 0 .. n /\ Q[0] = 0
    BY <1>3, <1>5, <1>9
  <2>2. ASSUME NEW m \in 1 .. n + 1 PROVE Q[m] = Moved(Q[m - 1], intents'[m])
    <3>1. CASE m \in 1 .. n
      <4>1. m \in 0 .. n /\ m - 1 \in 0 .. n
        BY <1>3, <3>1
      <4> QED BY <1>4, <1>5, <1>9, <3>1, <4>1
    <3>2. CASE m = n + 1
      <4>1. m - 1 = n /\ n \in 0 .. n
        BY <1>3, <3>2
      <4> QED BY <1>7, <1>9, <3>2, <4>1
    <3> QED BY <1>3, <3>1, <3>2
  <2> QED BY <1>4, <1>9, <2>1, <2>2 DEF Trail
<1>11. LeadOn(Q)'
  <2>1. work' = [work EXCEPT ![w] = n + 1] /\ UNCHANGED <<leadLedger, leadPos>>
    BY <1>4 DEF Broadcast
  <2>2. work'[w] = n + 1 /\ n + 1 # 0
    BY <1>3, <2>1 DEF ReportInv, LineInv, FollowInv, TypeOK
  <2>3. (n + 1) - 1 = n /\ n \in 0 .. n
    BY <1>3
  <2>4. Q[n] = leadPos
    BY <1>6, <1>9, <2>3
  <2> QED BY <1>4, <1>6, <2>1, <2>2, <2>3, <2>4 DEF LeadOn
<1>12. ASSUME replays' = 0 PROVE Followed(Q, k)'
  <2>1. UNCHANGED <<replays, done, reports, pos, job, step, status>>
    BY DEF Broadcast
  <2>2. Followed(P, k)
    BY <1>12, <2>1 DEF OnTrail
  <2>3. ~AllFilled(n + 1)
    <3>1. n + 1 \in Ids /\ n + 1 \in 1 .. n + 1
      BY <1>3 DEF Ids
    <3>2. reports[n + 1] = {}
      BY <1>2, <1>3, <3>1 DEF ReportInv
    <3> QED BY <3>1, <3>2 DEF AllFilled
  <2>4. ASSUME NEW m \in 0 .. n + 1, AllFilled(m)',
               \A b \in 1 .. Len(done') : done'[b] <= m
        PROVE  pos' = k * Q[m]
    <3>1. AllFilled(m)
      BY <2>1, <2>4 DEF AllFilled
    <3>2. m \in 0 .. n
      <4>1. m # n + 1
        BY <2>3, <3>1
      <4> QED BY <1>3, <4>1
    <3> QED BY <1>2, <1>9, <2>1, <2>2, <2>4, <3>1, <3>2 DEF Followed
  <2>5. ASSUME step' \in {"mark", "report"}, status' = "FILLED", AllFilled(job - 1)'
        PROVE  pos' = k * Q[job']
    <3>1. AllFilled(job - 1)
      BY <2>1, <2>5 DEF AllFilled
    <3>2. job \in 0 .. n
      BY <1>2 DEF ReportInv, LineInv, FollowInv, TypeOK
    <3> QED BY <1>9, <2>1, <2>2, <2>5, <3>1, <3>2 DEF Followed
  <2>6. \A m \in 0 .. Len(intents') : m \in 0 .. n + 1
    BY <1>4
  <2> QED BY <2>4, <2>5, <2>6 DEF Followed
<1> QED BY <1>10, <1>11, <1>12 DEF OnTrail

\* The lead executes what it broadcast: it goes one point on along the trail.
LEMMA TrailWalked ==
  ASSUME ReportInv, NEW w \in Workers, Workers = {w}, NEW P, NEW k \in Nat,
         OnTrail(P, k), LeadExecutes(w), "leadRefuses" \notin Faults
  PROVE  OnTrail(P, k)'
<1>1. UNCHANGED <<intents, replays, done, reports, pos, job, step, status>>
  BY DEF LeadExecutes
<1>2. PICK n : n = Len(intents)
  OBVIOUS
<1>3. n \in Nat \ {0} /\ work[w] = n /\ leadLedger[w] = leadPos /\ leadPos = P[n - 1]
  BY <1>2 DEF OnTrail, LeadOn, LeadExecutes, ReportInv, LineInv, FollowInv, TypeOK
<1>4. PICK i : i = intents[n]
  OBVIOUS
<1>5. i.action \in Actions /\ i.qty \in Nat /\ leadPos \in Nat
  <2>1. i \in IntentRecord
    BY <1>2, <1>3, <1>4, ElementType DEF ReportInv, LineInv, FollowInv, TypeOK
  <2> QED BY <2>1 DEF IntentRecord, ReportInv, LineInv, FollowInv, TypeOK
<1>6. P[n] = Moved(leadPos, i)
  <2>1. n \in 1 .. n
    BY <1>3
  <2> QED BY <1>2, <1>3, <1>4, <2>1 DEF OnTrail, Trail
<1>7. i.action = "CLOSE" => i.qty <= leadPos
  BY <1>2, <1>3, <1>4 DEF ReportInv, LineInv, FollowInv, LeadOK
<1>8. work' = [work EXCEPT ![w] = 0] /\ work'[w] = 0
  BY DEF LeadExecutes, ReportInv, LineInv, FollowInv, TypeOK
<1>9. leadPos' = P[n] /\ leadLedger'[w] = leadPos'
  <2> DEFINE g == CASE i.action = "OPEN"  -> i.qty
                    [] i.action = "CLOSE" -> - (IF i.qty < leadPos THEN i.qty ELSE leadPos)
                    [] OTHER              -> - leadPos
  <2>1. /\ leadPos' = leadPos + g
        /\ leadLedger' = [leadLedger EXCEPT ![w] =
                            IF i.action = "FLATTEN" /\ g # 0 THEN 0 ELSE
                            IF i.action = "FLATTEN" THEN @ ELSE @ + g]
    BY <1>3, <1>4 DEF LeadExecutes
  <2>2. leadLedger'[w] = IF i.action = "FLATTEN" /\ g # 0 THEN 0 ELSE
                         IF i.action = "FLATTEN" THEN leadPos ELSE leadPos + g
    <3>1. leadLedger \in [Workers -> Nat]
      BY DEF ReportInv, LineInv, FollowInv, TypeOK
    <3> HIDE DEF g
    <3> QED BY <1>3, <2>1, <3>1
  <2>3. CASE i.action = "OPEN"
    <3>1. g = i.qty /\ P[n] = leadPos + i.qty
      BY <1>6, <2>3 DEF Moved
    <3> HIDE DEF g
    <3> QED BY <1>5, <2>1, <2>2, <2>3, <3>1
  <2>4. CASE i.action = "CLOSE"
    <3>1. g = - (IF i.qty < leadPos THEN i.qty ELSE leadPos) /\ P[n] = leadPos - i.qty
      BY <1>6, <2>4 DEF Moved
    <3>2. g = - i.qty
      BY <1>5, <1>7, <2>4, <3>1
    <3> HIDE DEF g
    <3> QED BY <1>5, <2>1, <2>2, <2>4, <3>1, <3>2
  <2>5. CASE i.action = "FLATTEN"
    <3>1. g = - leadPos /\ P[n] = 0
      BY <1>6, <2>5 DEF Moved
    <3> HIDE DEF g
    <3> QED BY <1>5, <2>1, <2>2, <2>5, <3>1
  <2> QED BY <1>5, <2>3, <2>4, <2>5 DEF Actions
<1>10. Trail(P)'
  BY <1>1 DEF OnTrail, Trail
<1>11. LeadOn(P)'
  BY <1>1, <1>2, <1>8, <1>9 DEF LeadOn
<1>12. ASSUME replays' = 0 PROVE Followed(P, k)'
  BY <1>1, <1>12 DEF OnTrail, Followed, AllFilled
<1> QED BY <1>10, <1>11, <1>12 DEF OnTrail

\* The follower executes the job: when everything before it was filled, it goes
\* from k times the point before the job to k times the point of the job.
LEMMA TrailExecuted ==
  ASSUME ReportInv, NEW P, NEW k \in Nat, ScaleUp = k * ScaleDown,
         OnTrail(P, k), Execute
  PROVE  OnTrail(P, k)'
<1>1. /\ UNCHANGED <<intents, work, leadLedger, leadPos, replays, reports, job>>
      /\ step = "send" /\ done' = Append(done, job)
  BY DEF Execute
<1>2. /\ job \in 1 .. Len(intents) /\ Len(intents) \in Nat /\ job \in Ids
      /\ done \in Seq(Ids) /\ pos \in Nat
  BY BoundAssumption DEF ReportInv, LineInv, FollowInv, TypeOK, JobOK, Execute, Ids
<1>3. Trail(P)' /\ LeadOn(P)'
  BY <1>1 DEF OnTrail, Trail, LeadOn
<1>4. ASSUME replays' = 0 PROVE Followed(P, k)'
  <2>1. replays = 0 /\ Followed(P, k)
    BY <1>1, <1>4 DEF OnTrail
  <2>2. reports[job] = {}
    <3>1. job \in Int /\ job # 0 /\ ~ (job < job)
      BY <1>2
    <3> QED BY <1>2, <2>1, <3>1 DEF ReportInv
  <2>3. ASSUME NEW m \in 0 .. Len(intents), AllFilled(m),
               \A a \in 1 .. Len(done') : done'[a] <= m
        PROVE  FALSE
    <3>1. Len(done) + 1 \in 1 .. Len(done') /\ done'[Len(done) + 1] = job
      BY <1>1, <1>2
    <3>2. job \in 1 .. m
      BY <1>2, <2>3, <3>1
    <3> QED BY <2>2, <2>3, <3>2 DEF AllFilled
  <2>4. ASSUME status' = "FILLED", AllFilled(job - 1) PROVE pos' = k * P[job]
    <3> DEFINE i == intents[job]
               p == P[job - 1]
    <3>1. /\ job - 1 \in 0 .. Len(intents)
          /\ p \in Nat /\ P[job] = Moved(p, i)
      BY <1>2 DEF OnTrail, Trail
    <3>2. \A a \in 1 .. Len(done) : done[a] <= job - 1
      <4>1. \A a \in 1 .. Len(done) : done[a] \in Ids /\ done[a] < job
        <5>1. \A a \in 1 .. Len(done) : done[a] < job
          BY <1>1, <2>1 DEF ReportInv, LineInv
        <5>2. \A a \in 1 .. Len(done) : done[a] \in Ids
          BY <1>2, ElementType
        <5> QED BY <5>1, <5>2
      <4>2. \A x \in Ids : x \in Int
        BY BoundAssumption DEF Ids
      <4>3. job \in Int /\ \A x \in Int : x < job => x <= job - 1
        BY <1>2
      <4> QED BY <4>1, <4>2, <4>3
    <3>3. pos = k * p
      BY <2>1, <2>4, <3>1, <3>2 DEF Followed
    <3>4. i.action \in Actions /\ i.qty \in Nat
      <4>1. i \in IntentRecord
        BY <1>2, ElementType DEF ReportInv, LineInv, FollowInv, TypeOK
      <4> QED BY <4>1 DEF IntentRecord
    <3>5. Scaled(i.qty) = k * i.qty
      BY <3>4, ScaledWhole
    <3>6. CASE i.action = "OPEN"
      <4>1. pos' = pos + Scaled(i.qty)
        BY <2>4, <3>6 DEF Execute
      <4>2. P[job] = p + i.qty
        BY <3>1, <3>6 DEF Moved
      <4>3. k * (p + i.qty) = k * p + k * i.qty
        BY <3>1, <3>4
      <4> QED BY <3>3, <3>5, <4>1, <4>2, <4>3
    <3>7. CASE i.action = "CLOSE"
      <4>1. pos' = pos + (- Scaled(i.qty))
        BY <2>4, <3>7 DEF Execute
      <4>2. P[job] = p - i.qty
        BY <3>1, <3>7 DEF Moved
      <4>3. k * (p - i.qty) = k * p + (- (k * i.qty))
        BY <3>1, <3>4
      <4> QED BY <3>3, <3>5, <4>1, <4>2, <4>3
    <3>8. CASE i.action = "FLATTEN"
      <4>1. pos' = pos + (- pos)
        BY <2>4, <3>8 DEF Execute
      <4>2. P[job] = 0
        BY <3>1, <3>8 DEF Moved
      <4>3. k * 0 = 0
        OBVIOUS
      <4> QED BY <1>2, <4>1, <4>2, <4>3
    <3> QED BY <3>4, <3>6, <3>7, <3>8 DEF Actions
  <2> QED BY <1>1, <2>3, <2>4 DEF Followed, AllFilled
<1> QED BY <1>3, <1>4 DEF OnTrail

\* The follower reports the job.
LEMMA TrailReported ==
  ASSUME ReportInv, NEW P, NEW k \in Nat, OnTrail(P, k), SendReport
  PROVE  OnTrail(P, k)'
<1>1. /\ UNCHANGED <<intents, work, leadLedger, leadPos, replays, done, pos>>
      /\ step = "report" /\ step' = "idle"
      /\ reports' = [reports EXCEPT ![job] = @ \cup {status}]
  BY DEF SendReport
<1>2. /\ job \in 1 .. Len(intents) /\ Len(intents) \in Nat /\ job \in Ids
      /\ Len(intents) <= MaxIntents /\ MaxIntents \in Nat
      /\ reports \in [Ids -> SUBSET Statuses]
  BY BoundAssumption DEF ReportInv, LineInv, FollowInv, TypeOK, JobOK, SendReport, Ids
<1>3. Trail(P)' /\ LeadOn(P)'
  BY <1>1 DEF OnTrail, Trail, LeadOn
<1>4. ASSUME replays' = 0 PROVE Followed(P, k)'
  <2>1. replays = 0 /\ Followed(P, k)
    BY <1>1, <1>4 DEF OnTrail
  <2>2. \A i \in Ids : i >= job => reports[i] = {}
    <3>1. job # 0 /\ job \in Int /\ \A i \in Ids : i \in Int
      BY <1>2 DEF Ids
    <3> QED BY <2>1, <3>1 DEF ReportInv
  <2>3. /\ reports'[job] = {status}
        /\ \A i \in Ids : i # job => reports'[i] = reports[i]
    <3>1. reports[job] = {}
      BY <1>2, <2>2
    <3> QED BY <1>1, <1>2, <3>1
  <2>4. ASSUME NEW m \in 0 .. Len(intents), AllFilled(m)',
               \A a \in 1 .. Len(done) : done[a] <= m
        PROVE  pos = k * P[m]
    <3>1. \A i \in 1 .. m : i \in Ids /\ reports'[i] = {"FILLED"}
      BY <1>2, <2>4 DEF AllFilled, Ids
    <3>2. CASE m < job
      <4>1. AllFilled(m)
        <5>1. \A i \in 1 .. m : i # job
          BY <1>2, <3>2
        <5> QED BY <2>3, <3>1, <5>1 DEF AllFilled
      <4> QED BY <2>1, <2>4, <4>1 DEF Followed
    <3>3. CASE m = job
      <4>1. status = "FILLED"
        BY <1>2, <2>3, <3>1, <3>3
      <4>2. AllFilled(job - 1)
        <5>1. \A i \in 1 .. job - 1 : i # job /\ i \in 1 .. m
          BY <1>2, <3>3
        <5> QED BY <2>3, <3>1, <5>1 DEF AllFilled
      <4> QED BY <1>1, <2>1, <3>3, <4>1, <4>2 DEF Followed
    <3>4. CASE m > job
      <4>1. m \in 1 .. m /\ m # job /\ m >= job
        BY <1>2, <3>4
      <4>2. m \in Ids /\ reports'[m] = {"FILLED"} /\ reports'[m] = {}
        BY <2>2, <2>3, <3>1, <4>1
      <4> QED BY <4>2
    <3> QED BY <1>2, <3>2, <3>3, <3>4
  <2> QED BY <1>1, <2>4 DEF Followed
<1> QED BY <1>3, <1>4 DEF OnTrail

LEMMA DriftNext ==
  ASSUME NEW w \in Workers, Workers = {w}, NEW k \in Nat, ScaleUp = k * ScaleDown,
         "leadRefuses" \notin Faults, "leadStops" \notin Faults,
         DriftInv(k), [Next]_vars
  PROVE  DriftInv(k)'
<1>1. ReportInv /\ ReportInv'
  BY ReportNext DEF DriftInv
<1>2. PICK P : OnTrail(P, k)
  BY DEF DriftInv
<1>3. replays \in Nat
  BY <1>1 DEF ReportInv, LineInv, FollowInv, TypeOK
<1>4. CASE Broadcast(w)
  <2>1. \E Q : OnTrail(Q, k)'
    BY <1>1, <1>2, <1>4, TrailGrows
  <2> QED BY <1>1, <2>1 DEF DriftInv
<1>5. CASE LeadExecutes(w)
  <2>1. OnTrail(P, k)'
    BY <1>1, <1>2, <1>5, TrailWalked
  <2> QED BY <1>1, <2>1 DEF DriftInv
<1>6. CASE Execute
  <2>1. OnTrail(P, k)'
    BY <1>1, <1>2, <1>6, TrailExecuted
  <2> QED BY <1>1, <2>1 DEF DriftInv
<1>7. CASE SendReport
  <2>1. OnTrail(P, k)'
    BY <1>1, <1>2, <1>7, TrailReported
  <2> QED BY <1>1, <2>1 DEF DriftInv
<1>8. CASE \/ UNCHANGED vars \/ Heartbeat \/ LeadStarts \/ Replay \/ Receive
           \/ Check \/ Mark \/ Monitor \/ AgentStops \/ AgentStarts \/ Tick
  <2>1. UNCHANGED <<intents, work, leadLedger, leadPos, done, reports, pos>>
    BY <1>8 DEF vars, Heartbeat, LeadStarts, Replay, Receive, Check, Mark, Monitor,
       AgentStops, AgentStarts, Tick
  <2>2. replays' = 0 => replays = 0
    <3>1. replays' = replays \/ replays' = replays + 1
      BY <1>8 DEF vars, Heartbeat, LeadStarts, Replay, Receive, Check, Mark, Monitor,
         AgentStops, AgentStarts, Tick
    <3> QED BY <1>3, <3>1
  <2>3. step' \in {"mark", "report"} /\ status' = "FILLED" =>
          step \in {"mark", "report"} /\ status = "FILLED" /\ job' = job
    <3>1. CASE Check
      <4>1. job \in 1 .. Len(intents)
        BY <1>1, <3>1 DEF ReportInv, LineInv, FollowInv, TypeOK, JobOK, Check
      <4>2. Verdict(job) \in {"send", "REJECT", "SKIPPED"}
        BY <1>1, <4>1, VerdictChecked DEF ReportInv, LineInv
      <4> QED BY <3>1, <4>2 DEF Check
    <3>2. CASE Receive \/ AgentStops
      BY <3>2 DEF Receive, AgentStops
    <3>3. CASE Mark
      BY <3>3 DEF Mark
    <3>4. CASE \/ UNCHANGED vars \/ Heartbeat \/ LeadStarts \/ Replay
               \/ Monitor \/ AgentStarts \/ Tick
      BY <3>4 DEF vars, Heartbeat, LeadStarts, Replay, Monitor, AgentStarts, Tick
    <3> QED BY <1>8, <3>1, <3>2, <3>3, <3>4
  <2>4. OnTrail(P, k)'
    BY <1>2, <2>1, <2>2, <2>3, TrailKept
  <2> QED BY <1>1, <2>4 DEF DriftInv
<1>9. CASE LeadStops
  BY <1>9 DEF LeadStops
<1>10. CASE Lead
  BY <1>4, <1>5, <1>8, <1>9, <1>10 DEF Lead
<1>11. CASE Agent
  BY <1>6, <1>7, <1>8, <1>11 DEF Agent, Handle
<1> QED BY <1>8, <1>10, <1>11 DEF Next

\* The lead sees in the reports that a follower drifted: when everything was
\* handled and every report says FILLED, the follower stands at its scale's
\* multiple of the lead's position, for every number of intents, losses,
\* refusals and restarts of the agent. One lead thread, which is not refused and
\* does not crash with an intent on its way, and a scale k that is a whole number.
THEOREM DriftIsReportedHolds ==
  ASSUME NEW w \in Workers, Workers = {w}, NEW k \in Nat, ScaleUp = k * ScaleDown,
         "leadRefuses" \notin Faults, "leadStops" \notin Faults
  PROVE  Spec => []DriftIsReported
<1>1. Init => DriftInv(k)
  BY ReportInit, TrailInit DEF DriftInv
<1>2. DriftInv(k) /\ [Next]_vars => DriftInv(k)'
  BY DriftNext
<1>3. DriftInv(k) => DriftIsReported
  <2> SUFFICES ASSUME DriftInv(k), replays = 0, step = "idle", work[w] = 0,
                      \A i \in 1 .. Len(intents) : reports[i] = {"FILLED"}
               PROVE  ScaleDown * pos = ScaleUp * leadPos
    BY DEF DriftIsReported
  <2>1. PICK P : OnTrail(P, k)
    BY DEF DriftInv
  <2>2. Len(intents) \in 0 .. Len(intents) /\ leadPos \in Nat
    BY DEF DriftInv, ReportInv, LineInv, FollowInv, TypeOK
  <2>3. leadPos = P[Len(intents)]
    BY <2>1 DEF OnTrail, LeadOn
  <2>4. pos = k * P[Len(intents)]
    BY <2>1, <2>2 DEF OnTrail, Followed, AllFilled, DriftInv, ReportInv, LineInv
  <2>5. ScaleDown * (k * leadPos) = (k * ScaleDown) * leadPos
    BY <2>2, ScaleAssumption
  <2> QED BY <2>3, <2>4, <2>5
<1> QED BY <1>1, <1>2, <1>3, PTL DEF Spec
=============================================================================
