------------------------------- MODULE Launcher -------------------------------
(***************************************************************************)
(* How a live process comes up and how long its strategies last: the       *)
(* account it is bound to (config/accounts.py), the strategies of its      *)
(* configuration (config/strategy_config.py), the functions they name      *)
(* (kqsdk/registry.py), and one thread for every strategy and symbol, each *)
(* wrapped so that errors are counted and survived (resilient;             *)
(* kqsdk/live_runner.py).                                                  *)
(*                                                                         *)
(* What happens to orders at the start and at the end is in OrderPath.     *)
(***************************************************************************)
EXTENDS Integers, FiniteSets, FiniteSetsExt, Sequences, SequencesExt, TLC

CONSTANTS
  Setups,    \* [accounts, named, market, strategies, only]: what a process finds at its start
  SetVars,   \* the environment variables that are set
  CodeOf,    \* module -> [names, plain]: its registered strategies, a plain function
  MaxErrors  \* max_consecutive_errors

ASSUME LauncherAssumption ==
  /\ MaxErrors \in Nat \ {0}
  /\ \A m \in DOMAIN CodeOf : CodeOf[m].plain \in BOOLEAN

VARIABLES
  setup,
  launchStage, \* "new", "refused", "running", "stopped"
  functions,   \* strategy -> the function it runs
  thread,      \* worker <<strategy, symbol>> -> "waiting", "body", "gave_up", "ended"
  consecutive, \* worker -> failures since a successful wait
  feedUp,      \* the feed runs
  ownStreak    \* ghost: worker -> its own failures since its last successful wait

launchVars == <<setup, launchStage, functions, thread, consecutive, feedUp, ownStreak>>

-----------------------------------------------------------------------------
(* The account.                                                            *)

\* _load_raw: names differ, one main account at most.
GoodAccounts(as) ==
  /\ \A i, j \in DOMAIN as : i # j => as[i].name # as[j].name
  /\ Cardinality({i \in DOMAIN as : as[i].main}) <= 1

\* resolve_account: the one that is named, in the right market, or the main
\* one of the market.
Chosen(s) ==
  {i \in DOMAIN s.accounts :
     /\ s.accounts[i].market = s.market
     /\ IF s.named = "" THEN s.accounts[i].main ELSE s.accounts[i].name = s.named}

\* The placeholders of an account are filled in only when it was chosen.
Interpolated(account) == account.needs \subseteq SetVars

AccountResolved(s) ==
  /\ GoodAccounts(s.accounts)
  /\ s.named # "" => Chosen(s) # {}
  /\ \A i \in Chosen(s) : Interpolated(s.accounts[i])

\* _build_backend: crypto needs the keys of the account, or of the environment
\* when there is none; the terminal of fx may be logged in already.
BackendBuilt(s) ==
  s.market = "crypto" =>
    IF Chosen(s) = {} THEN "BINANCE" \in SetVars
    ELSE \A i \in Chosen(s) : s.accounts[i].keys

-----------------------------------------------------------------------------
(* The strategies and their functions.                                     *)

\* StrategiesConfig: names differ, symbols there are, the main period is one
\* of the periods, when any are given.
GoodStrategies(ss) ==
  /\ \A i, j \in DOMAIN ss : i # j => ss[i].name # ss[j].name
  /\ \A i \in DOMAIN ss :
       /\ ss[i].symbols # {}
       /\ ss[i].periods = {} \/ ss[i].period \in ss[i].periods

\* enabled_strategies, and of those the ones --only names.
Enabled(s) ==
  SelectSeq(s.strategies, LAMBDA x : x.enabled /\ (s.only = {} \/ x.name \in s.only))

\* Importing a module registers its strategies; a name that another module has
\* registered is an error.
Imported(reg, m) ==
  IF m \notin DOMAIN CodeOf THEN [ok |-> FALSE, reg |-> reg]
  ELSE [ok  |-> \A n \in CodeOf[m].names : n \in DOMAIN reg => reg[n] = m,
        reg |-> [n \in DOMAIN reg \cup CodeOf[m].names |-> IF n \in DOMAIN reg THEN reg[n] ELSE m]]

\* resolve_strategy_fn: the name in the registry, whatever module it is of;
\* then the module: its name, its only strategy, its plain function.
Resolve(st, x) ==
  LET imp == Imported(st.reg, x.module)
      own == CodeOf[x.module].names
      take(reg, f) == [st EXCEPT !.reg = reg, !.fns = @ @@ (x.name :> f)]
  IN CASE ~st.ok -> st
       [] st.ok /\ x.name \in DOMAIN st.reg -> take(st.reg, <<st.reg[x.name], x.name>>)
       [] st.ok /\ x.name \notin DOMAIN st.reg /\ ~imp.ok -> [st EXCEPT !.ok = FALSE]
       [] OTHER ->
            CASE x.name \in own           -> take(imp.reg, <<x.module, x.name>>)
              [] x.name \notin own /\ Cardinality(own) = 1 -> take(imp.reg, <<x.module, CHOOSE n \in own : TRUE>>)
              [] x.name \notin own /\ Cardinality(own) # 1 /\ CodeOf[x.module].plain ->
                   take(imp.reg, <<x.module, "strategy">>)
              [] OTHER -> [st EXCEPT !.ok = FALSE]

Resolved(s) == FoldLeft(Resolve, [ok |-> TRUE, reg |-> <<>>, fns |-> <<>>], Enabled(s))

WorkersOf(s) ==
  UNION {{<<x.name, sym>> : sym \in x.symbols} : x \in ToSet(Enabled(s))}

-----------------------------------------------------------------------------
LauncherInit ==
  /\ setup \in Setups /\ launchStage = "new"
  /\ functions = <<>> /\ thread = <<>> /\ consecutive = <<>> /\ ownStreak = <<>>
  /\ feedUp = FALSE

\* _run_live, from_config, run: the process comes up, or ends with an error.
Launch ==
  LET ws == WorkersOf(setup)
      ok == /\ GoodStrategies(setup.strategies) /\ Enabled(setup) # <<>>
            /\ AccountResolved(setup) /\ BackendBuilt(setup) /\ Resolved(setup).ok
  IN /\ launchStage = "new"
     /\ launchStage' = IF ok THEN "running" ELSE "refused"
     /\ feedUp' = ok
     /\ functions' = IF ok THEN Resolved(setup).fns ELSE functions
     /\ thread' = IF ok THEN [w \in ws |-> "waiting"] ELSE thread
     /\ consecutive' = IF ok THEN [w \in ws |-> 0] ELSE consecutive
     /\ ownStreak' = IF ok THEN [w \in ws |-> 0] ELSE ownStreak
     /\ UNCHANGED setup

Alive(w) == launchStage = "running" /\ thread[w] \in {"waiting", "body"}

\* A wait that gives bars, or the end of the run.
WaitReturns(w) ==
  /\ Alive(w) /\ thread[w] = "waiting"
  /\ consecutive' = [consecutive EXCEPT ![w] = 0]
  /\ ownStreak' = [ownStreak EXCEPT ![w] = 0]
  /\ thread' = [thread EXCEPT ![w] = IF feedUp THEN "body" ELSE "ended"]
  /\ UNCHANGED <<setup, launchStage, functions, feedUp>>

\* Whose count a failure of w raises: the wrapper has one for each call.
Failing(w) == {w}

Failed(w) ==
  /\ consecutive' = [v \in DOMAIN thread |-> IF v \in Failing(w) THEN Min({consecutive[v] + 1, MaxErrors}) ELSE consecutive[v]]
  /\ ownStreak' = [ownStreak EXCEPT ![w] = Min({@ + 1, MaxErrors})]
  /\ UNCHANGED <<setup, launchStage, functions, feedUp>>

\* A wait that raises is answered TRUE, and the body runs with what there is.
WaitRaises(w) ==
  /\ Alive(w) /\ thread[w] = "waiting"
  /\ Failed(w)
  /\ thread' = [thread EXCEPT ![w] = IF consecutive'[w] >= MaxErrors THEN "gave_up" ELSE "body"]

BodyReturns(w) ==
  /\ Alive(w) /\ thread[w] = "body"
  /\ \E next \in {"waiting", "ended"} : thread' = [thread EXCEPT ![w] = next]
  /\ UNCHANGED <<setup, launchStage, functions, consecutive, feedUp, ownStreak>>

\* A body that raises is entered again from its beginning.
BodyRaises(w) ==
  /\ Alive(w) /\ thread[w] = "body"
  /\ Failed(w)
  /\ thread' = [thread EXCEPT ![w] = IF consecutive'[w] >= MaxErrors THEN "gave_up" ELSE "waiting"]

\* stop: the feed ends, and with it every wait.
StopRunner ==
  /\ launchStage = "running" /\ feedUp /\ feedUp' = FALSE
  /\ UNCHANGED <<setup, launchStage, functions, thread, consecutive, ownStreak>>

\* _run_strategy joins all threads before anything is shut down.
JoinAll ==
  /\ launchStage = "running" /\ \A w \in DOMAIN thread : ~Alive(w)
  /\ launchStage' = "stopped" /\ feedUp' = FALSE
  /\ UNCHANGED <<setup, functions, thread, consecutive, ownStreak>>

LauncherNext ==
  \/ Launch \/ StopRunner \/ JoinAll
  \/ \E w \in DOMAIN thread : WaitReturns(w) \/ WaitRaises(w) \/ BodyReturns(w) \/ BodyRaises(w)

LauncherSpec == LauncherInit /\ [][LauncherNext]_launchVars

-----------------------------------------------------------------------------
(* Properties.                                                             *)

\* A thread gives up on its own account: after as many failures of its own in a
\* row as are allowed, whatever the threads beside it did (registry.py:
\* "affects itself only"), and while it lives nothing is shut down.
GivesUpAlone ==
  /\ \A w \in DOMAIN thread : thread[w] = "gave_up" => ownStreak[w] >= MaxErrors
  /\ \A w \in DOMAIN thread : ownStreak[w] >= MaxErrors => ~Alive(w)
  /\ launchStage = "stopped" => \A w \in DOMAIN thread : thread[w] \in {"gave_up", "ended"}
===============================================================================
