----------------------------- MODULE BacktestTasks ----------------------------
(***************************************************************************)
(* The backtest tasks of the gateway (gateway/routers/backtest.py and      *)
(* backtest_fx.py) and the HTTP client its requests share                  *)
(* (gateway/state.py): the handler reads the bars and records the task, a  *)
(* thread of the pool runs it and writes what came of it, and handlers     *)
(* that poll read the record meanwhile.  A request that fails on the       *)
(* transport discards the shared client, which others may be using.        *)
(*                                                                         *)
(* Abstracted: the record is its status and the parts a result has; the    *)
(* backtest itself is Backtest and BacktestEngine.                         *)
(***************************************************************************)
EXTENDS Integers, FiniteSets

CONSTANTS
  TaskRequests,  \* POST /run requests, each of a router
  MaxClients,    \* bound on HTTP clients made
  MaxOutages     \* bound on failures of the proxy

ASSUME TasksAssumption == {MaxClients, MaxOutages} \subseteq Nat

VARIABLES
  router,         \* per request: "crypto", "fx"
  stage,          \* of the handler: "new", "fetch", "raised", "heal", "close", "answered", "refused"
  sharedClient,   \* _http_client, 0 for none
  clientsMade,
  clientOf,       \* the client of a request, or the one it has to close
  deadPools,      \* clients whose tunnels broke with the proxy
  closedClients,
  proxyUp, outages,
  task,           \* _tasks: [status, parts]
  poll,           \* what a poll of the task has read: "none" or a status
  pollFails       \* a poll found a finished task without its result

taskVars == <<router, stage, sharedClient, clientsMade, clientOf, deadPools, closedClients,
              proxyUp, outages, task, poll, pollFails>>

clientVars == <<sharedClient, clientsMade, clientOf, deadPools, closedClients>>

NoTask == [status |-> "none", parts |-> {}]

TasksTypeOK ==
  /\ stage \in [TaskRequests -> {"new", "fetch", "raised", "heal", "close", "answered", "refused"}]
  /\ sharedClient \in 0 .. clientsMade /\ clientsMade \in 0 .. MaxClients
  /\ deadPools \cup closedClients \subseteq 1 .. clientsMade
  /\ \A r \in TaskRequests :
       task[r].status \in {"none", "PENDING", "RUNNING", "COMPLETED", "FAILED"}

TasksInit ==
  /\ router \in [TaskRequests -> {"crypto", "fx"}]
  /\ stage = [r \in TaskRequests |-> "new"]
  /\ sharedClient = 0 /\ clientsMade = 0 /\ clientOf = [r \in TaskRequests |-> 0]
  /\ deadPools = {} /\ closedClients = {} /\ proxyUp = TRUE /\ outages = 0
  /\ task = [r \in TaskRequests |-> NoTask]
  /\ poll = [r \in TaskRequests |-> "none"] /\ pollFails = FALSE

-----------------------------------------------------------------------------
(* The handler and the shared client.                                      *)

\* The record is made and its thread started.
RecordTask(r) == task' = [task EXCEPT ![r].status = "PENDING"]

\* get_http_client, and the request leaves; the terminal's history is read by
\* the task itself.
BeginRun(r) ==
  /\ stage[r] = "new"
  /\ IF router[r] = "fx"
     THEN /\ stage' = [stage EXCEPT ![r] = "answered"] /\ RecordTask(r)
          /\ UNCHANGED clientVars
     ELSE /\ stage' = [stage EXCEPT ![r] = "fetch"] /\ UNCHANGED task
          /\ IF sharedClient = 0 \/ sharedClient \in closedClients
             THEN /\ clientsMade < MaxClients /\ clientsMade' = clientsMade + 1
                  /\ sharedClient' = clientsMade'
             ELSE UNCHANGED <<sharedClient, clientsMade>>
          /\ clientOf' = [clientOf EXCEPT ![r] = sharedClient']
          /\ UNCHANGED <<deadPools, closedClients>>
  /\ UNCHANGED <<router, proxyUp, outages, poll, pollFails>>

Usable(c) == proxyUp /\ c \notin deadPools \cup closedClients

\* Binance answers, with bars or not.
BarsFetched(r, withBars) ==
  /\ stage[r] = "fetch" /\ Usable(clientOf[r])
  /\ IF withBars THEN stage' = [stage EXCEPT ![r] = "answered"] /\ RecordTask(r)
     ELSE stage' = [stage EXCEPT ![r] = "refused"] /\ UNCHANGED task
  /\ UNCHANGED <<router, clientVars, proxyUp, outages, poll, pollFails>>

\* The request raises; on the client that another has closed, it need not be
\* an error of the transport.
FetchRaises(r, onTransport) ==
  /\ stage[r] = "fetch" /\ ~Usable(clientOf[r])
  /\ onTransport \/ clientOf[r] \in closedClients
  /\ stage' = [stage EXCEPT ![r] = IF onTransport THEN "raised" ELSE "refused"]
  /\ UNCHANGED <<router, clientVars, proxyUp, outages, task, poll, pollFails>>

\* heal_http_client: whatever client is shared by now is dropped, the one that
\* failed or a newer one.
Heal(r) ==
  /\ stage[r] = "raised"
  /\ sharedClient' = 0 /\ clientOf' = [clientOf EXCEPT ![r] = sharedClient]
  /\ stage' = [stage EXCEPT ![r] = "close"]
  /\ UNCHANGED <<router, clientsMade, deadPools, closedClients, proxyUp, outages, task, poll, pollFails>>

\* aclose, and the request is refused with 502.
CloseClient(r) ==
  /\ stage[r] = "close" /\ stage' = [stage EXCEPT ![r] = "refused"]
  /\ closedClients' = closedClients \cup ({clientOf[r]} \ {0})
  /\ UNCHANGED <<router, sharedClient, clientsMade, clientOf, deadPools, proxyUp, outages,
                 task, poll, pollFails>>

ProxyBreaks ==
  /\ proxyUp /\ outages < MaxOutages /\ outages' = outages + 1
  /\ proxyUp' = FALSE /\ deadPools' = 1 .. clientsMade
  /\ UNCHANGED <<router, stage, sharedClient, clientsMade, clientOf, closedClients, task, poll, pollFails>>

ProxyRecovers ==
  /\ ~proxyUp /\ proxyUp' = TRUE
  /\ UNCHANGED <<router, stage, clientVars, outages, task, poll, pollFails>>

-----------------------------------------------------------------------------
(* The thread of a task.                                                   *)

taskFrame == <<router, stage, clientVars, proxyUp, outages, poll, pollFails>>

RunTask(r) ==
  /\ task[r].status = "PENDING" /\ task' = [task EXCEPT ![r].status = "RUNNING"]
  /\ UNCHANGED taskFrame

\* One update writes status and result.
Complete(r) ==
  /\ task[r].status = "RUNNING"
  /\ task' = [task EXCEPT ![r] = [status |-> "COMPLETED", parts |-> {"report", "trades"}]]
  /\ UNCHANGED taskFrame

\* The strategy, the data or the choice of a model the factory does not know raises.
FailTask(r) ==
  /\ task[r].status = "RUNNING"
  /\ task' = [task EXCEPT ![r] = [status |-> "FAILED", parts |-> {"error"}]]
  /\ UNCHANGED taskFrame

\* get_result and get_trades: the thread may write between the test of the
\* status and the read of what goes with it.
PollStatus(r) ==
  /\ task[r].status # "none" /\ poll[r] = "none"
  /\ poll' = [poll EXCEPT ![r] = task[r].status]
  /\ UNCHANGED <<router, stage, clientVars, proxyUp, outages, task, pollFails>>

PollResult(r) ==
  /\ poll[r] # "none" /\ poll' = [poll EXCEPT ![r] = "none"]
  /\ pollFails' = (pollFails \/ (poll[r] = "COMPLETED" /\ "report" \notin task[r].parts))
  /\ UNCHANGED <<router, stage, clientVars, proxyUp, outages, task>>

-----------------------------------------------------------------------------
TasksNext ==
  \/ ProxyBreaks \/ ProxyRecovers
  \/ \E r \in TaskRequests :
       \/ BeginRun(r) \/ Heal(r) \/ CloseClient(r)
       \/ \E b \in BOOLEAN : BarsFetched(r, b) \/ FetchRaises(r, b)
       \/ RunTask(r) \/ Complete(r) \/ FailTask(r) \/ PollStatus(r) \/ PollResult(r)

TasksSpec == TasksInit /\ [][TasksNext]_taskVars

-----------------------------------------------------------------------------
(* Properties.                                                             *)

\* A poll never finds a task finished and its result missing, whenever the
\* thread writes, and the shared client is never one that a handler has closed,
\* however many requests fail at once (get_result, heal_http_client).
PollFindsResult == ~pollFails /\ sharedClient \notin closedClients
===============================================================================
