------------------------------- MODULE Alerts -------------------------------
(***************************************************************************)
(* Alerts over metrics: monitoring/alert-manager.js.  Whether a rule may   *)
(* notify again is decided by its last entry in a history of limited       *)
(* length that all rules share.  And the digests of security events:       *)
(* logging/security-events.js, of which the severity of an event is kept;  *)
(* the methods that choose a severity differ in nothing else.              *)
(*                                                                         *)
(* `notified` and `entries` record what the properties speak of: when and  *)
(* at which entry a rule last notified, and how many entries there were.   *)
(***************************************************************************)
EXTENDS Integers, FiniteSets, Sequences

CONSTANTS
  RuleIds,
  AlertMetrics,
  Thresholds,
  Readings,            \* values of a metric
  cooldown,
  maxHistorySize,
  maxRecentEvents,
  digestDelay,         \* 5 minutes
  MaxAlertNow,         \* bound on the clock
  MaxEntries,          \* bound on the history entries ever made
  MaxMedium            \* bound on the events that wait for a digest

ASSUME AlertsAssumption ==
  /\ IsFiniteSet(RuleIds)
  /\ \A limit \in {cooldown, maxHistorySize, maxRecentEvents, digestDelay} : limit \in Nat \ {0}
  /\ \A bound \in {MaxAlertNow, MaxEntries, MaxMedium} : bound \in Nat

VARIABLES rules, activeAlerts, alertHistory, alertNow, notified, entries

alertVars == <<rules, activeAlerts, alertHistory, alertNow, notified, entries>>

NotYet == [time |-> -1, entry |-> 0]

AlertRule == [id : RuleIds, metric : AlertMetrics, threshold : Thresholds, enabled : BOOLEAN]
AlertEntry == [ruleId : RuleIds, type : {"triggered", "resolved"}, at : Nat]

AlertsTypeOK ==
  /\ rules \in Seq(AlertRule) /\ activeAlerts \subseteq RuleIds /\ alertHistory \in Seq(AlertEntry)
  /\ alertNow \in Nat /\ entries \in Nat /\ notified \in [RuleIds -> [time : Int, entry : Nat]]

Ids == {rules[i].id : i \in DOMAIN rules}

\* The places of a rule's entries, and the last of them (if there is one).
OfRule(history, id) == {i \in DOMAIN history : history[i].ruleId = id}
LastOf(history, id) == {i \in OfRule(history, id) : \A j \in OfRule(history, id) : j <= i}

-----------------------------------------------------------------------------
AlertsInit ==
  /\ rules = <<>> /\ activeAlerts = {} /\ alertHistory = <<>> /\ alertNow = 0
  /\ notified = [id \in RuleIds |-> NotYet] /\ entries = 0

\* addRule(): a rule that is added again keeps its place, and its alert
\* stays as it is.
addRule(id, metric, threshold, enabled) ==
  LET rule == [id |-> id, metric |-> metric, threshold |-> threshold, enabled |-> enabled]
  IN  /\ rules' = IF id \in Ids
                  THEN [i \in DOMAIN rules |-> IF rules[i].id = id THEN rule ELSE rules[i]]
                  ELSE Append(rules, rule)
      /\ rules' # rules
      /\ UNCHANGED <<activeAlerts, alertHistory, alertNow, notified, entries>>

Entry(id, type) == [ruleId |-> id, type |-> type, at |-> alertNow]

Trimmed(history) ==
  IF Len(history) > maxHistorySize
  THEN SubSeq(history, Len(history) - maxHistorySize + 1, Len(history)) ELSE history

\* Mutant: the cooldown counts from the first entry of the rule.
CoolingDown_First(history, id) ==
  \E i \in OfRule(history, id) : (\A j \in OfRule(history, id) : i <= j)
                               /\ alertNow - history[i].at < cooldown

CoolingDown(history, id) == \E i \in LastOf(history, id) : alertNow - history[i].at < cooldown

\* What one rule makes of a reading: _triggerAlert() or _resolveAlert().
\* Only a new alert trims the history.
Judge(acc, rule) ==
  IF acc.value >= rule.threshold
  THEN IF rule.id \in acc.active \/ CoolingDown(acc.history, rule.id) THEN acc
       ELSE [acc EXCEPT !.active = @ \cup {rule.id},
                        !.history = Trimmed(Append(@, Entry(rule.id, "triggered"))),
                        !.entry = @ + 1,
                        !.notified[rule.id] = [time |-> alertNow, entry |-> acc.entry + 1]]
  ELSE IF rule.id \notin acc.active THEN acc
       ELSE [acc EXCEPT !.active = @ \ {rule.id},
                        !.history = Append(@, Entry(rule.id, "resolved")),
                        !.entry = @ + 1]

\* evaluate(): every enabled rule of the metric, in the order of the Map.
Evaluated(metric, value) ==
  LET judged[n \in 0 .. Len(rules)] ==
        IF n = 0 THEN [value |-> value, active |-> activeAlerts, history |-> alertHistory,
                       entry |-> entries, notified |-> notified]
        ELSE IF rules[n].enabled /\ rules[n].metric = metric THEN Judge(judged[n - 1], rules[n])
        ELSE judged[n - 1]
  IN  judged[Len(rules)]

evaluate(metric, value) ==
  LET after == Evaluated(metric, value)
  IN  /\ after.entry <= MaxEntries
      /\ activeAlerts' = after.active /\ alertHistory' = after.history
      /\ entries' = after.entry /\ notified' = after.notified
      /\ UNCHANGED <<rules, alertNow>>

AlertTick ==
  /\ alertNow < MaxAlertNow
  /\ alertNow' = alertNow + 1
  /\ UNCHANGED <<rules, activeAlerts, alertHistory, notified, entries>>

AlertsNext ==
  \/ \E id \in RuleIds, m \in AlertMetrics, t \in Thresholds, on \in BOOLEAN : addRule(id, m, t, on)
  \/ \E m \in AlertMetrics, v \in Readings : evaluate(m, v)
  \/ AlertTick

AlertsSpec == AlertsInit /\ [][AlertsNext]_alertVars

-----------------------------------------------------------------------------
VARIABLES _delayedAlerts, digestIn, sent, _recentEvents

digestVars == <<_delayedAlerts, digestIn, sent, _recentEvents>>

Undefined == [made |-> FALSE]
Batch(n) == [made |-> TRUE, events |-> n]

DigestInit ==
  _delayedAlerts = Undefined /\ digestIn = -1 /\ sent = 0 /\ _recentEvents = <<>>

\* log(): only the first event of all makes the array and sets the timer.
log(severity) ==
  /\ _delayedAlerts.made => _delayedAlerts.events < MaxMedium
  /\ IF severity # "medium" THEN UNCHANGED <<_delayedAlerts, digestIn>>
     ELSE IF _delayedAlerts.made
     THEN _delayedAlerts' = Batch(_delayedAlerts.events + 1) /\ UNCHANGED digestIn
     ELSE _delayedAlerts' = Batch(1) /\ digestIn' = digestDelay
  /\ _recentEvents' =
       LET longer == Append(_recentEvents, severity)
       IN  IF Len(longer) > maxRecentEvents THEN Tail(longer) ELSE longer
  /\ UNCHANGED sent

_flushDelayedAlerts ==
  /\ digestIn = 0
  /\ digestIn' = -1
  /\ sent' = sent + _delayedAlerts.events
  /\ _delayedAlerts' = Batch(0)
  /\ UNCHANGED _recentEvents

DigestTick ==
  /\ digestIn > 0
  /\ digestIn' = digestIn - 1
  /\ UNCHANGED <<_delayedAlerts, sent, _recentEvents>>

DigestNext ==
  \/ \E s \in {"critical", "medium", "low"} : log(s)
  \/ _flushDelayedAlerts \/ DigestTick

DigestSpec == DigestInit /\ [][DigestNext]_digestVars

-----------------------------------------------------------------------------
(* "cooldown" (alert-manager.js:52): a rule notifies again a cooldown after*)
(* it last did, whatever other rules do, unless they filled the history in *)
(* between: its own entry is what it remembers itself by.                  *)
NotificationsSpaced ==
  [][\A id \in RuleIds : notified'[id] # notified[id] =>
       \/ notified[id] = NotYet
       \/ notified'[id].time - notified[id].time >= cooldown
       \/ notified'[id].entry - notified[id].entry > maxHistorySize]_alertVars

(* The history tells which alerts are active, as far as it reaches, and    *)
(* outgrows its maximum only by the alerts that ended since it was cut     *)
(* (alert-manager.js:121, :150).                                           *)
HistoryTells ==
  /\ \A id \in RuleIds :
       \A i \in LastOf(alertHistory, id) : alertHistory[i].type = "triggered" <=> id \in activeAlerts
  /\ Len(alertHistory) <= maxHistorySize + Cardinality(RuleIds)

(* "Batch medium severity events and send every 5 minutes" (security-      *)
(* events.js:580): what waits has a timer.  Not kept: the array stays      *)
(* after the first digest, and no timer is set while there is one.         *)
EveryDigestComes == _delayedAlerts.made /\ _delayedAlerts.events > 0 => digestIn # -1
=============================================================================
