----------------------------- MODULE SignalEngine -----------------------------
(***************************************************************************)
(* The signal engine (core/signal_engine/engine.py) and its rules          *)
(* (rules/base.py, rules/composite.py): every value of an indicator is     *)
(* compared with the value before it by the rules of that indicator, and   *)
(* the first rule that fires outside its cooldown gives a signal.          *)
(*                                                                         *)
(* Abstracted: one symbol; a value has two fields; strengths are tenths;   *)
(* the texts. A rule is a sequence of nodes, the last one its root.        *)
(***************************************************************************)
EXTENDS Integers, Sequences, FiniteSets, SequencesExt

CONSTANTS
  RuleTrees,    \* rule name -> nodes [op, in, level]: fields or earlier nodes in "in"
  RuleConfigs,  \* the configurations that can be added: [rule, feed, route]
  FieldValues,  \* the values a field can have; 0 is none
  CooldownTicks,
  LastStamp, MaxUpdates \* bounds

ASSUME SignalAssumption ==
  /\ FieldValues \subseteq Nat /\ {CooldownTicks, LastStamp, MaxUpdates} \subseteq Nat
  /\ \A c \in RuleConfigs : c.rule \in DOMAIN RuleTrees /\ c.route \in {"AUTO", "SEMI", "ALERT"}

Feeds  == {c.feed : c \in RuleConfigs}
Fields == {"fast", "slow"}
Values == [Fields -> FieldValues]
Absent == [f \in Fields |-> 0]  \* no value before

VARIABLES
  configs,      \* _rule_configs: the configurations in the order they were added
  valueNow,     \* _indicator_history: feed -> the last value
  cooldowns,    \* _cooldown_map: <<rule, direction>> -> time of the last signal
  given,        \* history: the signals, [rule, dir, at, expires, status]
  updates

signalVars == <<configs, valueNow, cooldowns, given, updates>>

Directions == {"LONG", "SHORT"}
Untriggered == [dir |-> "none", strength |-> 0]

SignalTypeOK ==
  /\ ToSet(configs) \subseteq RuleConfigs
  /\ valueNow \in [Feeds -> Values]
  /\ DOMAIN cooldowns \subseteq (DOMAIN RuleTrees) \X Directions
  /\ \A k \in DOMAIN cooldowns : cooldowns[k] \in 0 .. LastStamp
  /\ updates \in 0 .. MaxUpdates

SignalInit ==
  /\ configs = <<>>
  /\ valueNow = [f \in Feeds |-> Absent]
  /\ cooldowns = <<>>
  /\ given = {} /\ updates = 0

-----------------------------------------------------------------------------
(* The rules.                                                              *)

Fires(dir, strength) == [dir |-> dir, strength |-> strength]

\* From one side to the other or to the line itself.
CrossFires(a, b, c, d) ==
  CASE 0 \in {a, b, c, d} -> Untriggered
    [] 0 \notin {a, b, c, d} /\ c < d /\ a >= b -> Fires("LONG", 7)
    [] 0 \notin {a, b, c, d} /\ c > d /\ a <= b -> Fires("SHORT", 7)
    [] OTHER -> Untriggered

ThresholdFires(level, now, before) ==
  CASE 0 \in {now, before} -> Untriggered
    [] 0 \notin {now, before} /\ before < level /\ now >= level -> Fires("SHORT", 6)
    [] 0 \notin {now, before} /\ before > level /\ now <= level -> Fires("LONG", 6)
    [] OTHER -> Untriggered

\* A comparison looks at the present value alone.
CompareFires(a, b) == IF a > 0 /\ b > 0 /\ a > b THEN Fires("LONG", 5) ELSE Untriggered

\* All fire, in one direction: the mean of the strengths.
AllFire(results) ==
  IF Untriggered \notin results /\ Cardinality({r.dir : r \in results}) = 1
  THEN LET a == CHOOSE r \in results : TRUE
           b == CHOOSE r \in results : r # a \/ results = {a}
       IN Fires(a.dir, (a.strength + b.strength) \div 2)
  ELSE Untriggered

\* The strongest, the first of equals.
StrongestFires(first, second) == IF second.strength > first.strength THEN second ELSE first

Turned(r) ==
  CASE r.dir = "LONG"  -> [r EXCEPT !.dir = "SHORT"]
    [] r.dir = "SHORT" -> [r EXCEPT !.dir = "LONG"]
    [] OTHER           -> r

Evaluated(nodes, now, before) ==
  LET result[k \in DOMAIN nodes] ==
        LET n == nodes[k]  arg(i) == n.in[i] IN
        CASE n.op = "cross"     -> CrossFires(now[arg(1)], now[arg(2)], before[arg(1)], before[arg(2)])
          [] n.op = "threshold" -> ThresholdFires(n.level, now[arg(1)], before[arg(1)])
          [] n.op = "compare"   -> CompareFires(now[arg(1)], now[arg(2)])
          [] n.op = "and"       -> AllFire({result[arg(1)], result[arg(2)]})
          [] n.op = "or"        -> StrongestFires(result[arg(1)], result[arg(2)])
          [] n.op = "not"       -> Turned(result[arg(1)])
  IN result[Len(nodes)]

-----------------------------------------------------------------------------
(* The engine.                                                             *)

\* Mutant: how far apart two values are, whichever is the later.
CoolingEitherWay(key, at) ==
  key \in DOMAIN cooldowns /\ (at - cooldowns[key] < CooldownTicks /\ cooldowns[key] - at < CooldownTicks)

\* _is_in_cooldown: a value older than the last signal is within it.
Cooling(key, at) == key \in DOMAIN cooldowns /\ at - cooldowns[key] < CooldownTicks

AddSignalRule(c) ==
  /\ c \notin ToSet(configs)
  /\ configs' = Append(configs, c)
  /\ UNCHANGED <<valueNow, cooldowns, given, updates>>

\* on_indicator_update: the value before is the last one seen, of the same bar
\* or not. A feed without a rule keeps no history.
OnIndicator(feed, value, at) ==
  LET mine   == {i \in DOMAIN configs : configs[i].feed = feed}
      before == valueNow[feed]
      result(c) == Evaluated(RuleTrees[c.rule], value, before)
      key(c) == <<c.rule, result(c).dir>>
      fire   == {i \in mine : result(configs[i]) # Untriggered /\ ~Cooling(key(configs[i]), at)}
  IN /\ updates < MaxUpdates /\ updates' = updates + 1
     /\ mine # {}
     /\ valueNow' = [valueNow EXCEPT ![feed] = value]
     /\ IF fire = {} THEN UNCHANGED <<cooldowns, given>>
        ELSE LET c == configs[Min(fire)] IN
             /\ cooldowns' = [k \in DOMAIN cooldowns \cup {key(c)} |-> IF k = key(c) THEN at ELSE cooldowns[k]]
             /\ given' = given \cup
                  {[rule |-> c.rule, dir |-> result(c).dir, at |-> at, expires |-> at + CooldownTicks,
                    status |-> IF c.route = "SEMI" THEN "PENDING" ELSE "CONFIRMED"]}
     /\ UNCHANGED configs

SignalNext ==
  \/ \E c \in RuleConfigs : AddSignalRule(c)
  \/ \E feed \in Feeds, value \in Values, at \in 0 .. LastStamp : OnIndicator(feed, value, at)

SignalSpec == SignalInit /\ [][SignalNext]_signalVars

-----------------------------------------------------------------------------
(* Properties.                                                             *)

\* Of one rule and direction no signal is given while another one is still
\* good (on_indicator_update, _create_signal: expires_at), though the rule may
\* hang on two indicators whose values come with times out of order.
OneGoodSignal ==
  \A s, t \in given :
    s # t /\ s.rule = t.rule /\ s.dir = t.dir => s.expires <= t.at \/ t.expires <= s.at
===============================================================================
