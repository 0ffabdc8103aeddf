---------------------------- MODULE RiskScoring -----------------------------
(***************************************************************************)
(* Risk scores: security/fraud-detection.js, for transactions and logins,  *)
(* and security/user-agent-validator.js, for user agents.                  *)
(*                                                                         *)
(* analyzeTransaction() awaits its velocity and location checks, so other  *)
(* analyses run between its reading of the recent events and its storing   *)
(* of its own.  Scores are kept in hundredths, as the weights are          *)
(* percentages; a user agent is the set of features validate() looks for.  *)
(***************************************************************************)
EXTENDS Integers, Sequences, FiniteSets, FiniteSetsExt, Collections

CONSTANTS
  RiskUsers,       \* users, the key 'anonymous' among them
  Analyses,        \* concurrent calls of analyzeTransaction()
  TxnWindow,       \* 5 minutes, in ticks
  EventRetention,  \* eventRetentionMs, 1 hour, in ticks
  TxnLimit,        \* velocityLimits.transactions.count
  LoginLimit,      \* velocityLimits.logins.count
  AddedPatterns,   \* patterns given to addPattern()
  MaxRiskNow,      \* bound on the clock
  MaxEvents        \* bound: events stored per user

ASSUME RiskAssumption ==
  /\ TxnWindow \in Nat /\ EventRetention \in Nat /\ TxnWindow <= EventRetention
  /\ TxnLimit \in Nat /\ LoginLimit \in Nat \ {0}
  /\ AddedPatterns \in Nat /\ MaxRiskNow \in Nat /\ MaxEvents \in Nat

VARIABLES
  riskNow,
  recentEvents,   \* user |-> the stored events in order: <<type, time>>
  analyzing,      \* analysis |-> what it read, or idle
  finished        \* history: <<user, type, time>> of every event ever stored, in order

riskVars == <<riskNow, recentEvents, analyzing, finished>>

Idle == [busy |-> FALSE]

RiskInit ==
  /\ riskNow = 0
  /\ recentEvents = [u \in RiskUsers |-> <<>>]
  /\ analyzing = [a \in Analyses |-> Idle]
  /\ finished = <<>>

-----------------------------------------------------------------------------
\* _getRecentEvents(): strictly younger than the window.
_getRecentEventCount(u, type, window) ==
  Cardinality({n \in DOMAIN recentEvents[u] :
     recentEvents[u][n][1] = type /\ recentEvents[u][n][2] > riskNow - window})

\* _checkVelocity()'s score of a count.
_checkVelocity(count) ==
  IF 2 * count > 3 * TxnLimit THEN 100 ELSE IF count > TxnLimit THEN 70
  ELSE IF 10 * count > 7 * TxnLimit THEN 40 ELSE 0

\* What the other checks can return.  The device database is not there yet.
_checkAmountAnomaly == {0, 30, 40, 60, 80}
_checkLocation == {0, 80, 100}
_checkDevice == {0}
_checkTimeAnomaly == {0, 30, 40}

\* Each pattern is given the transaction as its first argument.  The first
\* one calls filter on it, which throws and counts as no match; the third
\* finds no length on it.  The second one can match, and so can added ones.
_checkPatterns == {Min({30 * k, 100}) : k \in 0 .. 1 + AddedPatterns}

\* Math.round of the weighted sum, at most maxScore.
Weighed(velocity, amount, location, device, time, pattern) ==
  Min({100, (25 * velocity + 20 * amount + 20 * location + 15 * device
             + 10 * time + 10 * pattern + 50) \div 100})

riskLevel(score) == IF score >= 80 THEN "high" ELSE IF score >= 50 THEN "medium" ELSE "low"

\* analyzeLogin(): the velocity counts only above the limit.  Which of the
\* other four signals are raised is up to the login.
LoginScore(count, signals) ==
  LET velocity == IF count > LoginLimit THEN Min({100, (100 * count) \div LoginLimit}) ELSE 0
      worth(s) == CASE s = "device" -> 10 [] s = "location" -> 15 [] s = "time" -> 2
  IN  Min({100, (30 * velocity + 50) \div 100 + SumSet({worth(s) : s \in signals})})

\* The count it goes by: no window is passed, so that of an hour is used.
LoginVelocity(u) == _getRecentEventCount(u, "login", EventRetention)

LoginSignals == {"device", "location", "time"}

\* The events of a time that is not before t.
EventTypes == {"transaction", "login"}
NotBefore(t) == EventTypes \X {time \in Int : time >= t}

\* Mutant: only the events of this tick are kept.
Stored_Short(events, event) == Passing(Append(events, event), NotBefore(riskNow))

\* _storeEvent(): append, then drop what is older than the retention.
Stored(events, event) == Passing(Append(events, event), NotBefore(riskNow - EventRetention))

Store(u, type) ==
  /\ Len(finished) < MaxEvents
  /\ recentEvents' = [recentEvents EXCEPT ![u] = Stored(@, <<type, riskNow>>)]
  /\ finished' = Append(finished, <<u, type, riskNow>>)

-----------------------------------------------------------------------------
\* The call up to its first await.
beginTransaction(a, u) ==
  /\ ~analyzing[a].busy
  /\ analyzing' = [analyzing EXCEPT ![a] =
       [busy |-> TRUE, user |-> u, began |-> riskNow, after |-> Len(finished),
        count |-> _getRecentEventCount(u, "transaction", TxnWindow)]]
  /\ UNCHANGED <<riskNow, recentEvents, finished>>

\* The rest of it, which ends by storing the event.
finishTransaction(a) ==
  /\ analyzing[a].busy
  /\ Store(analyzing[a].user, "transaction")
  /\ analyzing' = [analyzing EXCEPT ![a] = Idle]
  /\ UNCHANGED riskNow

\* analyzeLogin() has no await: counting and storing are one step.
analyzeLogin(u) == Store(u, "login") /\ UNCHANGED <<riskNow, analyzing>>

RiskTick ==
  /\ riskNow < MaxRiskNow /\ riskNow' = riskNow + 1
  /\ UNCHANGED <<recentEvents, analyzing, finished>>

RiskNext ==
  \/ \E a \in Analyses, u \in RiskUsers : beginTransaction(a, u)
  \/ \E a \in Analyses : finishTransaction(a)
  \/ \E u \in RiskUsers : analyzeLogin(u)
  \/ RiskTick

RiskSpec == RiskInit /\ [][RiskNext]_riskVars

-----------------------------------------------------------------------------
(* The velocity an analysis goes by counts exactly the user's transactions *)
(* of the last five minutes whose analysis had ended before it began:      *)
(* pruning, logins and other users do not change it, and only analyses it  *)
(* ran together with are missed.                                           *)
VelocityCountsFinished ==
  \A a \in Analyses : analyzing[a].busy =>
    analyzing[a].count =
      Cardinality({n \in 1 .. analyzing[a].after :
        /\ finished[n][1] = analyzing[a].user /\ finished[n][2] = "transaction"
        /\ finished[n][3] > analyzing[a].began - TxnWindow})

(* 5 logins in 5 min (fraud-detection.js:55): the logins a login's velocity *)
(* is judged by are those of the last five minutes.                        *)
LoginsOfFiveMinutes ==
  \A u \in RiskUsers :
    LoginVelocity(u) = Cardinality({n \in DOMAIN finished :
      finished[n][1] = u /\ finished[n][2] = "login" /\ finished[n][3] > riskNow - TxnWindow})

(* if (score > 80) block transaction (fraud-detection.js:31): a            *)
(* transaction that raises every signal as far as it goes is high risk.    *)
WorstIsBlocked ==
  \A v \in {0, 40, 70, 100}, d \in _checkDevice, p \in _checkPatterns :
    (v = 100 /\ \A q \in _checkPatterns : q <= p)
      => riskLevel(Weighed(v, 80, 100, d, 40, p)) = "high"

-----------------------------------------------------------------------------
\* Features of a user agent.  The patterns overlap: some automation tools
\* and most good bots are bots as well; an empty one has no other feature.
Features == {"short", "long", "control", "bot", "goodBot", "automation", "outdated", "odd"}

\* validate(): what each feature adds; a known good bot's score starts
\* again from 0 after the checks of length and characters.
Penalty(f) ==
  CASE f = "short" -> 30 [] f = "long" -> 20 [] f = "control" -> 50 [] f = "bot" -> 60
    [] f = "automation" -> 80 [] f = "outdated" -> 20 [] f = "odd" -> 40 [] OTHER -> 0

Forgiven(ua) == {"bot", "goodBot"} \subseteq ua

Counted(ua) == IF Forgiven(ua) THEN ua \ {"short", "long", "control", "bot"} ELSE ua
validateScore(ua) == SumOver([f \in Features |-> Penalty(f)], Counted(ua))

\* What the middleware does with it, under its default options: a bot that
\* is not forgiven and an automation tool are refused, whatever the score.
middlewareRefuses(ua) == ("bot" \in ua /\ ~Forgiven(ua)) \/ "automation" \in ua

(* Whatever the middleware lets through is either valid by its score or    *)
(* malformed in ways no option of it looks at; and whatever it refuses is  *)
(* not let through by posing as a good bot while being automated.          *)
RefusedOnMerit ==
  \A ua \in SUBSET Features :
    /\ "automation" \in ua => validateScore(ua) >= 70
    /\ (validateScore(ua) >= 70 /\ ~middlewareRefuses(ua))
         => ua \cap {"short", "long", "control", "outdated", "odd"} # {}
=============================================================================
