-------------------------- MODULE AnomalyDetector ---------------------------
(***************************************************************************)
(* Behaviour anomalies: security/anomaly-detector.js.  Every action of a   *)
(* user is compared with a baseline learnt from the actions before it, and *)
(* then added to the baseline.                                             *)
(*                                                                         *)
(* An analysis is synchronous, so it is one step.  What an action is about *)
(* may be missing: an IP address and a currency are sets of one or none,   *)
(* an amount and a record count are 0 then, which the code tests alike.    *)
(* Amounts keep their count, sum and sum of squares, which is all the mean *)
(* and the standard deviation use; travel is whether two places are too    *)
(* far apart for the ticks between them.                                   *)
(***************************************************************************)
EXTENDS Integers, Sequences, FiniteSets, Collections

CONSTANTS
  Watched,          \* users
  IPs,       \* IP addresses
  Spent,            \* transaction amounts, 0 if none is given
  Volumes,          \* record counts of exports, 0 if none is given
  Currencies,
  Hour, TxnMinutes, CallMinute, Day,   \* the windows, in ticks
  ManyTxns, ManyExports, ManyCalls,    \* 5, 3 and 100 in the code
  MaxSeenNow,       \* bound on the clock
  MaxSeen           \* bound: recent activities

ASSUME AnomalyAssumption ==
  /\ Spent \subseteq Nat /\ Volumes \subseteq Nat
  /\ {Hour, TxnMinutes, CallMinute, Day, MaxSeenNow, MaxSeen} \subseteq Nat
  /\ {ManyTxns, ManyExports, ManyCalls} \subseteq Nat \ {0}

VARIABLES
  baselines,          \* user |-> what is learnt, or NoBaseline
  recentActivities,   \* user |-> sequence of <<action, place, time>>
  lastVerdict,        \* history: the last analysis: user, action, score, whether the baseline had any before
  seenNow

anomalyVars == <<baselines, recentActivities, lastVerdict, seenNow>>

NoBaseline == [known |-> FALSE]

\* _createBaseline(); perHour stands for loginFrequency, the logins and the
\* ticks they were divided by, and volume, a fraction too, for
\* averageExportVolume.  txns counts transactions and n those with an amount.
NewBaseline == [known |-> TRUE, created |-> seenNow, logins |-> 0, perHour |-> <<0, 1>>, usualIPs |-> {},
          txns |-> 0, n |-> 0, sum |-> 0, squares |-> 0, usualCurrencies |-> {},
          exports |-> 0, volume |-> <<0, 1>>, calls |-> 0]

NoVerdict == [user |-> "none", score |-> 0, first |-> FALSE]

AnomalyInit ==
  /\ baselines = [u \in Watched |-> NoBaseline]
  /\ recentActivities = [u \in Watched |-> <<>>]
  /\ lastVerdict = NoVerdict /\ seenNow = 0

-----------------------------------------------------------------------------
Actions == {"login", "transaction", "data_export", "api_call"}
Places == {"near", "far", "none"}

\* One of the values, or none.
Given(values) == {{}} \cup {{v} : v \in values}

\* _recordActivity() comes first, so the analyses below count the action
\* they are about.
Recorded(u, action, place) == Append(recentActivities[u], <<action, place, seenNow>>)

\* The activities of some actions after t.
After(actions, t) == actions \X Places \X {time \in Int : time > t}

_getRecentActivities(acts, action, window) == Passing(acts, After({action}, seenNow - window))

\* More logins in the last hour than three times the baseline's rate.
FrequentLogins(b, acts) ==
  /\ b.logins > 0
  /\ Len(_getRecentActivities(acts, "login", Hour)) * b.perHour[2] > 3 * b.perHour[1] * Hour

\* The login before this one in the last hour was too far away to get here.
FastTravel(acts, place) ==
  LET logins == _getRecentActivities(acts, "login", Hour)
  IN  /\ Len(logins) >= 2
      /\ logins[Len(logins) - 1][3] < seenNow
      /\ "none" \notin {place, logins[Len(logins) - 1][2]} /\ logins[Len(logins) - 1][2] # place

\* The first of the checks that finds something decides.
_analyzeLoginAnomaly(b, acts, ip, place) ==
  IF FrequentLogins(b, acts) THEN 60
  ELSE IF ~ip \subseteq b.usualIPs THEN 40
  ELSE IF FastTravel(acts, place) THEN 90 ELSE 0

\* More than 3 standard deviations from the mean, multiplied out; without
\* a deviation (one amount, or equal ones) the distance itself counts.
Unusual(b, amount) ==
  LET off == b.n * amount - b.sum
      spread == b.n * b.squares - b.sum * b.sum
  IN  /\ b.n > 0
      /\ IF b.n = 1 \/ spread = 0 THEN off > 3 * b.n \/ -off > 3 * b.n
         ELSE (b.n - 1) * off * off > 9 * b.n * spread

\* min(80, deviations * 20) is at least 60 where it is used.
_analyzeTransactionAnomaly(b, acts, amount, currency) ==
  IF amount > 0 /\ Unusual(b, amount) THEN 60
  ELSE IF ~currency \subseteq b.usualCurrencies THEN 30
  ELSE IF Len(_getRecentActivities(acts, "transaction", TxnMinutes)) > ManyTxns THEN 70 ELSE 0

_analyzeDataExportAnomaly(b, acts, records) ==
  IF b.volume[1] > 0 /\ records * b.volume[2] > 10 * b.volume[1] THEN 70
  ELSE IF Len(_getRecentActivities(acts, "data_export", TxnMinutes)) > ManyExports THEN 60 ELSE 0

_analyzeApiCallAnomaly(acts, suspicious) ==
  IF Len(_getRecentActivities(acts, "api_call", CallMinute)) > ManyCalls THEN 50
  ELSE IF suspicious THEN 40 ELSE 0

\* _updateBaseline(), after the analysis.
LoginLearnt(b, ip) ==
  [b EXCEPT !.logins = @ + 1, !.usualIPs = @ \cup ip,
            !.perHour = <<b.logins + 1, seenNow - b.created>>]
AmountLearnt(b, amount, currency) ==
  [b EXCEPT !.txns = @ + 1, !.n = @ + (IF amount > 0 THEN 1 ELSE 0), !.sum = @ + amount,
            !.squares = @ + amount * amount, !.usualCurrencies = @ \cup currency]

\* The average is weighted with all exports counted before.
Averaged(b, records) ==
  IF records = 0 THEN b.volume
  ELSE <<b.volume[1] * b.exports + records * b.volume[2], b.volume[2] * (b.exports + 1)>>
ExportLearnt(b, records) == [b EXCEPT !.exports = @ + 1, !.volume = Averaged(b, records)]
CallLearnt(b) == [b EXCEPT !.calls = @ + 1]

-----------------------------------------------------------------------------
BaselineOf(u) == IF baselines[u].known THEN baselines[u] ELSE NewBaseline

\* What every analysis does besides its own check: new is the learnt baseline.
Analyzed(u, action, place, score, first, new) ==
  /\ Len(recentActivities[u]) < MaxSeen
  /\ recentActivities' = [recentActivities EXCEPT ![u] = Recorded(u, action, place)]
  /\ baselines' = [baselines EXCEPT ![u] = new]
  /\ lastVerdict' = [user |-> u, score |-> score, first |-> first]
  /\ UNCHANGED seenNow

login(u, ip, place) ==
  LET b == BaselineOf(u)
  IN  Analyzed(u, "login", place,
        _analyzeLoginAnomaly(b, Recorded(u, "login", place), ip, place), b.logins = 0,
        LoginLearnt(b, ip))

transaction(u, amount, currency) ==
  LET b == BaselineOf(u)
  IN  Analyzed(u, "transaction", "none",
        _analyzeTransactionAnomaly(b, Recorded(u, "transaction", "none"), amount, currency),
        b.txns = 0, AmountLearnt(b, amount, currency))

dataExport(u, records) ==
  LET b == BaselineOf(u)
  IN  Analyzed(u, "data_export", "none",
        _analyzeDataExportAnomaly(b, Recorded(u, "data_export", "none"), records),
        b.exports = 0, ExportLearnt(b, records))

apiCall(u, suspicious) ==
  LET b == BaselineOf(u)
  IN  Analyzed(u, "api_call", "none",
        _analyzeApiCallAnomaly(Recorded(u, "api_call", "none"), suspicious), b.calls = 0,
        CallLearnt(b))

resetBaseline(u) ==
  /\ baselines' = [baselines EXCEPT ![u] = NoBaseline]
  /\ recentActivities' = [recentActivities EXCEPT ![u] = <<>>]
  /\ lastVerdict' = NoVerdict
  /\ UNCHANGED seenNow

\* The timer of _startCleanup(): the activities of the last day stay, and
\* the baselines always do.
CleanActivities ==
  /\ recentActivities' = [u \in Watched |->
       Passing(recentActivities[u], After(Actions, seenNow - Day))]
  /\ UNCHANGED <<baselines, lastVerdict, seenNow>>

AnomalyTick ==
  /\ seenNow < MaxSeenNow /\ seenNow' = seenNow + 1
  /\ UNCHANGED <<baselines, recentActivities, lastVerdict>>

AnomalyNext ==
  \/ \E u \in Watched :
       \/ \E ip \in Given(IPs), place \in Places : login(u, ip, place)
       \/ \E amount \in Spent, currency \in Given(Currencies) : transaction(u, amount, currency)
       \/ \E records \in Volumes : dataExport(u, records)
       \/ \E suspicious \in BOOLEAN : apiCall(u, suspicious)
       \/ resetBaseline(u)
  \/ CleanActivities \/ AnomalyTick

AnomalySpec == AnomalyInit /\ [][AnomalyNext]_anomalyVars

-----------------------------------------------------------------------------
(* A user is compared with himself: the first action of a kind, also after *)
(* resetBaseline(), is never anomalous, whatever it is; there is nothing   *)
(* yet it could be unusual against.                                        *)
FirstIsNormal == lastVerdict.first => lastVerdict.score < 50

(* What is learnt is what has happened: the baseline of a user and the     *)
(* activities kept of him come from the same actions, so no more of them   *)
(* is recent than was ever counted.                                        *)
RecentIsLearnt ==
  \A u \in Watched :
    LET b == BaselineOf(u)
        recent(action) == Cardinality({n \in DOMAIN recentActivities[u] :
                                         recentActivities[u][n][1] = action})
    IN  /\ recent("login") <= b.logins /\ recent("transaction") <= b.txns
        /\ recent("data_export") <= b.exports /\ recent("api_call") <= b.calls
=============================================================================
