-------------------------------- MODULE Alerts --------------------------------
(***************************************************************************)
(* The alert manager (core/notification/alert_manager.py) and its channels *)
(* (channels.py): coroutines fire alerts of a rule and of none; a cooldown *)
(* lets some through, every n-th is escalated, and each is sent to every   *)
(* enabled channel in turn, with an await at each send.                    *)
(*                                                                         *)
(* Abstracted: an alert is its number; time is counted in ticks, a minute  *)
(* is Minute ticks; the texts are left out.                                *)
(***************************************************************************)
EXTENDS Integers, Sequences, FiniteSets, SequencesExt

CONSTANTS
  Firing,       \* the coroutines that fire alerts
  AlertRules,   \* the rules there are; the name "none" is no rule
  Channels,     \* the channels
  Cooldown,     \* cooldown_seconds of the rules
  EscalateAfter,\* escalate_after, 0: never
  RateLimit,    \* messages a minute and channel
  Minute,       \* ticks of the rate limit's window
  LastTick, MaxAlerts \* bounds

ASSUME AlertAssumption ==
  /\ {Cooldown, EscalateAfter, LastTick, MaxAlerts} \subseteq Nat
  /\ {RateLimit, Minute} \subseteq Nat \ {0} /\ IsFiniteSet(Firing)
  /\ "none" \notin AlertRules /\ "none" \notin Channels

VARIABLES
  tick,
  ruleOn,       \* the rules that are enabled
  channelOn,    \* the channels that are there
  lastFired,    \* _cooldowns: rule -> tick, -1 when there is none
  triggerCount, \* _trigger_counts
  alerts,       \* _events: [rule, escalated, notified, at]
  sending,      \* per coroutine: [alert, to, at], to the channels left, at the one that sends
  sendTimes     \* per channel: _send_times, each [alert, at] with the alert that was sent

alertVars == <<tick, ruleOn, channelOn, lastFired, triggerCount, alerts, sending, sendTimes>>

NotSending == [alert |-> 0, to |-> {}, at |-> "none"]

AlertTypeOK ==
  /\ tick \in 0 .. LastTick /\ ruleOn \subseteq AlertRules /\ channelOn \subseteq Channels
  /\ triggerCount \in [AlertRules -> 0 .. MaxAlerts]
  /\ Len(alerts) <= MaxAlerts
  /\ \A f \in Firing : sending[f].to \subseteq Channels

AlertInit ==
  /\ tick = 0 /\ ruleOn = AlertRules /\ channelOn = Channels
  /\ lastFired = [r \in AlertRules |-> -1] /\ triggerCount = [r \in AlertRules |-> 0]
  /\ alerts = <<>> /\ sending = [f \in Firing |-> NotSending]
  /\ sendTimes = [c \in Channels |-> {}]

-----------------------------------------------------------------------------
\* _check_cooldown: the time is taken when the alert is let through.
CooledDown(r) == Cooldown = 0 \/ lastFired[r] = -1 \/ tick - lastFired[r] >= Cooldown

Escalates(r) == EscalateAfter > 0 /\ triggerCount[r] + 1 >= EscalateAfter

\* fire, up to the first await of _notify.
RecordAlert(f, r, escalated) ==
  /\ alerts' = Append(alerts, [rule |-> r, escalated |-> escalated, notified |-> FALSE, at |-> tick])
  /\ sending' = [sending EXCEPT ![f] = [alert |-> Len(alerts'), to |-> channelOn, at |-> "none"]]

Fire(f, r) ==
  /\ sending[f] = NotSending /\ Len(alerts) < MaxAlerts
  /\ r \in ruleOn /\ CooledDown(r)
  /\ lastFired' = IF Cooldown = 0 THEN lastFired ELSE [lastFired EXCEPT ![r] = tick]
  /\ triggerCount' = [triggerCount EXCEPT ![r] = IF Escalates(r) THEN 0 ELSE @ + 1]
  /\ RecordAlert(f, r, Escalates(r))
  /\ UNCHANGED <<tick, ruleOn, channelOn, sendTimes>>

\* Without a rule there is neither cooldown nor escalation.
FireUnruled(f) ==
  /\ sending[f] = NotSending /\ Len(alerts) < MaxAlerts
  /\ RecordAlert(f, "none", FALSE)
  /\ UNCHANGED <<tick, ruleOn, channelOn, lastFired, triggerCount, sendTimes>>

Recent(c) == {s \in sendTimes[c] : tick - s.at < Minute}

WithinRate(c) == Cardinality(Recent(c)) < RateLimit

\* send, up to the await: a channel over its limit is passed over, one that was
\* removed meanwhile is not.
BeginSend(f, c) ==
  /\ sending[f].at = "none" /\ c \in sending[f].to
  /\ sendTimes' = [sendTimes EXCEPT ![c] = Recent(c)]
  /\ sending' = IF WithinRate(c) THEN [sending EXCEPT ![f].at = c]
                ELSE [sending EXCEPT ![f].to = @ \ {c}]
  /\ UNCHANGED <<tick, ruleOn, channelOn, lastFired, triggerCount, alerts>>

\* The channel's answer: only a send that worked is counted.
EndSend(f, works) ==
  /\ sending[f].at # "none"
  /\ LET c == sending[f].at IN
     /\ sendTimes' = IF ~works THEN sendTimes
          ELSE [sendTimes EXCEPT ![c] = @ \cup {[alert |-> sending[f].alert, at |-> tick]}]
     /\ alerts' = IF works THEN [alerts EXCEPT ![sending[f].alert].notified = TRUE] ELSE alerts
     /\ sending' = [sending EXCEPT ![f].to = @ \ {c}, ![f].at = "none"]
  /\ UNCHANGED <<tick, ruleOn, channelOn, lastFired, triggerCount>>

Done(f) ==
  /\ sending[f].alert # 0 /\ sending[f].to = {}
  /\ sending' = [sending EXCEPT ![f] = NotSending]
  /\ UNCHANGED <<tick, ruleOn, channelOn, lastFired, triggerCount, alerts, sendTimes>>

-----------------------------------------------------------------------------
\* The API: rules are switched, channels removed.
SwitchRule(r) ==
  /\ ruleOn' = IF r \in ruleOn THEN ruleOn \ {r} ELSE ruleOn \cup {r}
  /\ UNCHANGED <<tick, channelOn, lastFired, triggerCount, alerts, sending, sendTimes>>

\* A channel that is added again is a new one, with a count of its own.
RemoveChannel(c) ==
  /\ c \in channelOn /\ channelOn' = channelOn \ {c}
  /\ UNCHANGED <<tick, ruleOn, lastFired, triggerCount, alerts, sending, sendTimes>>

Tock ==
  /\ tick < LastTick /\ tick' = tick + 1
  /\ UNCHANGED <<ruleOn, channelOn, lastFired, triggerCount, alerts, sending, sendTimes>>

AlertNext ==
  \/ \E f \in Firing :
       \/ \E r \in AlertRules : Fire(f, r)
       \/ FireUnruled(f)
       \/ \E c \in Channels : BeginSend(f, c)
       \/ \E works \in BOOLEAN : EndSend(f, works)
       \/ Done(f)
  \/ \E r \in AlertRules : SwitchRule(r)
  \/ \E c \in Channels : RemoveChannel(c)
  \/ Tock

AlertSpec == AlertInit /\ [][AlertNext]_alertVars

-----------------------------------------------------------------------------
(* Properties.                                                             *)

\* The limit is checked before the send and counted after it, so coroutines
\* that send at once can pass it together: a channel gets at most the limit
\* and one more for each other coroutine in any minute (NotificationChannel.send).
PaceBounded ==
  \A c \in Channels : \A t \in 0 .. tick :
    Cardinality({s \in sendTimes[c] : s.at \in t .. t + Minute - 1})
      <= RateLimit + Cardinality(Firing) - 1
==============================================================================
