------------------------------ MODULE StrategyHost ------------------------------
(***************************************************************************)
(* One strategy file and one instance of it: the watcher thread of         *)
(* core/strategy_engine/hot_loader.py loads and reloads the file, the API  *)
(* (gateway/routers/strategy.py) creates, starts, pauses, stops and        *)
(* deletes the instance and rolls the file back, both through              *)
(* core/strategy_engine/manager.py, which has no lock.                     *)
(*                                                                         *)
(* Abstracted: the content of a file is the number of the edit that wrote  *)
(* it, a class is the content it was imported from, the state of a         *)
(* strategy is how often it was changed. No content is written twice; one  *)
(* instance is created, so whatever is restored has its id.                *)
(***************************************************************************)
EXTENDS Integers, Sequences, SequencesExt

CONSTANTS
  MaxEdits,     \* bound: edits of the file
  BrokenEdits,  \* edits that do not import, or have no valid class
  MaxTicks,     \* bound: changes of the strategy's state
  MaxRollbacks  \* bound

ASSUME HostAssumption ==
  /\ {MaxEdits, MaxTicks, MaxRollbacks} \subseteq Nat
  /\ BrokenEdits \subseteq 1 .. MaxEdits

VARIABLES
  file, edits,   \* the content on disk, 0: removed
  watcher,       \* the watcher's step and what it has in hand
  module,        \* _modules: [cls, version], cls 0 when there is none
  history,       \* _history
  fileHash,      \* _file_hashes, 0 when there is none
  registry,      \* the manager's class of that name, 0 when there is none
  instance,      \* the ManagedStrategy
  rolling,       \* a rollback between its two parts: the class, or 0
  rollbacks, created

hostVars == <<file, edits, watcher, module, history, fileHash, registry,
              instance, rolling, rollbacks, created>>

Contents == 0 .. MaxEdits
NoModule == [cls |-> 0, version |-> 0]
Gone     == [status |-> "none", cls |-> 0, ticks |-> 0, sameName |-> FALSE]
Watching == [step |-> "idle", hash |-> 0, cls |-> 0, prev |-> NoModule, held |-> -1]

HostTypeOK ==
  /\ file \in Contents /\ edits \in Contents /\ fileHash \in Contents
  /\ watcher.step \in {"idle", "load", "import", "commit", "register", "unload", "restore", "restart"}
  /\ module.cls \in Contents /\ registry \in Contents /\ rolling \in Contents
  /\ instance.status \in {"none", "INITIALIZED", "RUNNING", "PAUSED", "STOPPED", "LOADED", "ERROR"}
  /\ \A i \in DOMAIN history : history[i].cls \in 1 .. MaxEdits

HostInit ==
  /\ file = 0 /\ edits = 0
  /\ watcher = Watching /\ module = NoModule /\ history = <<>> /\ fileHash = 0
  /\ registry = 0 /\ instance = Gone /\ rolling = 0
  /\ rollbacks = 0 /\ created = FALSE

apiVars  == <<rolling, rollbacks, created>>
diskVars == <<file, edits>>

-----------------------------------------------------------------------------
(* The file.                                                               *)

Edit ==
  /\ edits < MaxEdits
  /\ edits' = edits + 1 /\ file' = edits'
  /\ UNCHANGED <<watcher, module, history, fileHash, registry, instance, apiVars>>

RemoveFile ==
  /\ file # 0 /\ file' = 0
  /\ UNCHANGED <<edits, watcher, module, history, fileHash, registry, instance, apiVars>>

-----------------------------------------------------------------------------
(* The watcher.                                                            *)

Go(step) == watcher' = [watcher EXCEPT !.step = step]

\* _capture_running_state finds instances by the name the user gave them.
Captured ==
  IF instance.sameName /\ instance.status = "RUNNING" THEN instance.ticks ELSE -1

\* _check_changes: new, changed, or removed; a reload looks at the instance first.
CheckChanges ==
  /\ watcher.step = "idle"
  /\ \/ /\ file # 0 /\ fileHash = 0
        /\ watcher' = [Watching EXCEPT !.step = "load"]
     \/ /\ file # 0 /\ fileHash \notin {0, file} /\ module # NoModule
        /\ watcher' = [Watching EXCEPT !.step = "load", !.held = Captured]
     \/ /\ file = 0 /\ module # NoModule
        /\ Go("unload")
  /\ UNCHANGED <<diskVars, module, history, fileHash, registry, instance, apiVars>>

\* load_file hashes what the import reads a moment later.
ComputeHash ==
  /\ watcher.step = "load"
  /\ IF file = 0 THEN watcher' = Watching
     ELSE watcher' = [watcher EXCEPT !.step = "import", !.hash = file]
  /\ UNCHANGED <<diskVars, module, history, fileHash, registry, instance, apiVars>>

\* A file that does not import leaves everything as it was: it is tried again
\* at every turn.
Import ==
  /\ watcher.step = "import"
  /\ IF file \in BrokenEdits \cup {0} THEN watcher' = Watching
     ELSE watcher' = [watcher EXCEPT !.step = "commit", !.cls = file, !.prev = module]
  /\ UNCHANGED <<diskVars, module, history, fileHash, registry, instance, apiVars>>

\* Mutant: the hash is taken when the import is recorded.
CommitHashesFile ==
  /\ watcher.step = "commit"
  /\ module' = [cls |-> watcher.cls, version |-> watcher.prev.version + 1]
  /\ history' = IF watcher.prev = NoModule THEN history ELSE Append(history, watcher.prev)
  /\ fileHash' = file
  /\ Go("register")
  /\ UNCHANGED <<diskVars, registry, instance, apiVars>>

\* Mutant: a file loaded for the first time has a predecessor too.
CommitNoFirst ==
  /\ watcher.step = "commit"
  /\ module' = [cls |-> watcher.cls, version |-> watcher.prev.version + 1]
  /\ history' = Append(history, watcher.prev)
  /\ fileHash' = watcher.hash
  /\ Go("register")
  /\ UNCHANGED <<diskVars, registry, instance, apiVars>>

Commit ==
  /\ watcher.step = "commit"
  /\ module' = [cls |-> watcher.cls, version |-> watcher.prev.version + 1]
  /\ history' = IF watcher.prev = NoModule THEN history ELSE Append(history, watcher.prev)
  /\ fileHash' = watcher.hash
  /\ Go("register")
  /\ UNCHANGED <<diskVars, registry, instance, apiVars>>

Register ==
  /\ watcher.step = "register"
  /\ registry' = watcher.cls
  /\ IF watcher.held = -1 THEN watcher' = Watching ELSE Go("restore")
  /\ UNCHANGED <<diskVars, module, history, fileHash, instance, apiVars>>

\* unload_file: the class stays registered.
UnloadFile ==
  /\ watcher.step = "unload" /\ watcher' = Watching
  /\ module' = NoModule /\ fileHash' = 0
  /\ instance' = IF instance.sameName THEN Gone ELSE instance
  /\ UNCHANGED <<diskVars, history, registry, apiVars>>

\* _restore_running_state: whatever instance there is goes, one of the class
\* that is current takes its place with the state that was captured.
Restore ==
  /\ watcher.step = "restore"
  /\ IF module = NoModule THEN watcher' = Watching /\ UNCHANGED instance
     ELSE /\ instance' = [status |-> "LOADED", cls |-> module.cls,
                          ticks |-> watcher.held, sameName |-> TRUE]
          /\ Go("restart")
  /\ UNCHANGED <<diskVars, module, history, fileHash, registry, apiVars>>

\* init_strategy, start_strategy; the instance may have been deleted meanwhile,
\* or on_init raise.
Restart ==
  /\ watcher.step = "restart" /\ watcher' = Watching
  /\ \E status \in {"RUNNING", "ERROR"} :
       instance' = IF instance = Gone THEN Gone ELSE [instance EXCEPT !.status = status]
  /\ UNCHANGED <<diskVars, module, history, fileHash, registry, apiVars>>

WatcherStep ==
  \/ CheckChanges \/ ComputeHash \/ Import \/ Commit \/ Register
  \/ UnloadFile \/ Restore \/ Restart

-----------------------------------------------------------------------------
(* The API, a caller of rollback, and the strategy.                        *)

OnlyInstance ==
  UNCHANGED <<diskVars, watcher, module, history, fileHash, registry, rolling, rollbacks>>

\* create_strategy: any name; the class is the one registered for the type; on_init
\* may raise.
CreateStrategy(sameName) ==
  /\ registry # 0 /\ instance = Gone /\ ~created /\ created' = TRUE
  /\ \E status \in {"INITIALIZED", "ERROR"} :
       instance' = [status |-> status, cls |-> registry, ticks |-> 0, sameName |-> sameName]
  /\ OnlyInstance

StartStrategy ==
  /\ instance.status \in {"INITIALIZED", "PAUSED"}
  /\ instance' = [instance EXCEPT !.status = "RUNNING"]
  /\ OnlyInstance /\ UNCHANGED created

StopStrategy ==
  /\ instance # Gone
  /\ instance' = [instance EXCEPT !.status = "STOPPED"]
  /\ OnlyInstance /\ UNCHANGED created

PauseStrategy ==
  /\ instance.status = "RUNNING"
  /\ instance' = [instance EXCEPT !.status = "PAUSED"]
  /\ OnlyInstance /\ UNCHANGED created

UnloadStrategy ==
  /\ instance # Gone /\ instance' = Gone
  /\ OnlyInstance /\ UNCHANGED created

\* set_state by a running strategy.
Tick ==
  /\ instance.status = "RUNNING" /\ instance.ticks < MaxTicks
  /\ instance' = [instance EXCEPT !.ticks = @ + 1]
  /\ OnlyInstance /\ UNCHANGED created

\* rollback to any version of the history; it stays in the history.
Rollback ==
  /\ rolling = 0 /\ rollbacks < MaxRollbacks /\ history # <<>>
  /\ \E target \in ToSet(history) :
       module' = target /\ rolling' = target.cls
  /\ history' = IF module = NoModule THEN history ELSE Append(history, module)
  /\ rollbacks' = rollbacks + 1
  /\ UNCHANGED <<diskVars, watcher, fileHash, registry, instance, created>>

RegisterRollback ==
  /\ rolling # 0
  /\ registry' = rolling /\ rolling' = 0
  /\ UNCHANGED <<diskVars, watcher, module, history, fileHash, instance, rollbacks, created>>

HostNext ==
  \/ Edit \/ RemoveFile
  \/ CheckChanges \/ ComputeHash \/ Import \/ Commit \/ Register
  \/ UnloadFile \/ Restore \/ Restart
  \/ \E sameName \in BOOLEAN : CreateStrategy(sameName)
  \/ StartStrategy \/ StopStrategy \/ PauseStrategy \/ UnloadStrategy \/ Tick
  \/ Rollback \/ RegisterRollback

HostSpec == HostInit /\ [][HostNext]_hostVars /\ WF_hostVars(WatcherStep)

-----------------------------------------------------------------------------
(* Properties.                                                             *)

\* What stands in the file is what new instances are made of, some time: an
\* edit between the hash and the import is not overlooked (_check_changes,
\* load_file). Only a rollback may keep an older class registered.
FileTakesEffect ==
  \A v \in (1 .. MaxEdits) \ BrokenEdits :
    (file = v /\ rollbacks = 0) ~> (registry = v \/ file # v \/ rollbacks > 0)
==============================================================================
