------------------------------- MODULE MCGateway -------------------------------
(* The services whose properties need fairness side by side for TLC. They  *)
(* share no state: a behaviour is one of them, and the others stand still. *)
EXTENDS Mt5Driver, ThsStream, StrategyHost, WsHub, Backtest

VARIABLE part

vars == <<part, driverVars, thsVars, hostVars, hubVars, backtestVars>>

Init ==
  /\ part \in {"driver", "ths", "host", "hub", "backtest"}
  /\ DriverInit /\ ThsInit /\ HostInit /\ HubInit
  /\ BacktestInit

Next ==
  /\ UNCHANGED part
  /\ IF part = "driver" THEN DriverNext ELSE UNCHANGED driverVars
  /\ IF part = "ths"    THEN ThsNext    ELSE UNCHANGED thsVars
  /\ IF part = "host"   THEN HostNext   ELSE UNCHANGED hostVars
  /\ IF part = "hub"    THEN HubNext    ELSE UNCHANGED hubVars
  /\ IF part = "backtest" THEN BacktestNext ELSE UNCHANGED backtestVars

\* The fairness of each component, in the behaviours that are its own.
Fairness ==
  /\ \A c \in Callers :
       WF_vars(part = "driver" /\ CallStep(c) /\ UNCHANGED <<part, backtestVars, thsVars, hostVars, hubVars>>)
  /\ WF_vars(part = "ths" /\ ThsLoopStep /\ UNCHANGED <<part, backtestVars, driverVars, hostVars, hubVars>>)
  /\ WF_vars(part = "host" /\ WatcherStep /\ UNCHANGED <<part, backtestVars, driverVars, thsVars, hubVars>>)
  /\ WF_vars(part = "hub" /\ Dispatch /\ UNCHANGED <<part, backtestVars, driverVars, thsVars, hostVars>>)
  /\ WF_vars(part = "backtest" /\ PumpStep /\ UNCHANGED <<part, driverVars, thsVars, hostVars, hubVars>>)
  /\ \A w \in Workers : WF_vars(part = "backtest" /\ WorkerStep(w) /\ UNCHANGED <<part, driverVars, thsVars, hostVars, hubVars>>)

Spec == Init /\ [][Next]_vars /\ Fairness

-------------------------------------------------------------------------------
\* Every component stays well typed; a file's history has only what was loaded.
GatewayTyped ==
  /\ part = "driver"   => DriverTypeOK
  /\ part = "ths"      => ThsTypeOK
  /\ part = "host"     => HostTypeOK
  /\ part = "hub"      => HubTypeOK
  /\ part = "backtest" => BacktestTypeOK
===============================================================================
