----------------------------- MODULE Resilience -----------------------------
(***************************************************************************)
(* Retries and replicas: messaging/retry-policy.js, a call that is tried   *)
(* again while its errors allow it, and database/read-replica.js, queries  *)
(* spread over replicas whose health two timers and the queries change.    *)
(*                                                                         *)
(* Delays are whole units of the base delay, drawn anywhere within the     *)
(* jitter; what an error says of itself is its kind.                       *)
(***************************************************************************)
EXTENDS Integers, Sequences, FiniteSets, FiniteSetsExt

CONSTANTS
  policyRetries,   \* maxRetries of the policy
  baseDelay, maxDelay,
  Strategies,      \* the strategies in use
  ErrorKinds,      \* what the errors a call meets say of themselves: a name or text of
                   \* a table, an HTTP status as a number, error.code as a number, ...
  Replicas,        \* number of replicas
  Readers,         \* queries under way at the same time
  restTicks,       \* 60 seconds, in ticks
  MaxRests         \* bound on the timers pending

ASSUME ResilienceAssumption ==
  /\ policyRetries \in Nat /\ baseDelay \in Nat \ {0} /\ maxDelay \in Nat \ {0}
  /\ Replicas \in Nat /\ restTicks \in Nat \ {0} /\ MaxRests \in Nat

VARIABLES
  call,       \* [st, attempt, wait, errors]: errors met so far
  health,     \* health[i] of replica i: none, healthy, unhealthy or unknown
  index,      \* currentReplicaIndex
  rests,      \* pending timers of _markReplicaUnhealthy(): <<replica, ticks left>>
  reading,    \* query |-> [st, at]: idle, at a replica, or at the primary
  checking,   \* the replica a health check is at, 0 when none runs
  kept        \* connections health checks have taken and not given back

retryVars == <<call>>
replicaVars == <<health, index, rests, reading, checking, kept>>

\* 2 ^ n, for the attempts there are.
Power[n \in 0 .. policyRetries] == IF n = 0 THEN 1 ELSE 2 * Power[n - 1]

\* getDelay() before the jitter, as the set of values it may have.
Delays(strategy, attempt) ==
  CASE strategy = "fixed" -> {Min({baseDelay, maxDelay})}
    [] strategy = "linear" -> {Min({baseDelay * (attempt + 1), maxDelay})}
    [] strategy = "decorrelated" ->
         {Min({d, maxDelay}) : d \in Min({baseDelay, Min({baseDelay * Power[attempt], maxDelay})})
                                   .. Max({baseDelay, Min({baseDelay * Power[attempt], maxDelay})})}
    [] OTHER -> {Min({baseDelay * Power[attempt], maxDelay})}

\* The jitter takes or adds up to a quarter.
getDelay(strategy, attempt) ==
  IF attempt >= policyRetries THEN {-1}
  ELSE UNION {(4 * d - d) \div 4 .. (4 * d + d + 3) \div 4 : d \in Delays(strategy, attempt)}

\* Mutant: permanent errors are not looked up.
shouldRetry_Unchecked(error, attempt) ==
  IF attempt >= policyRetries THEN "throw" ELSE IF error = "numericCode" THEN "crash" ELSE "retry"

\* shouldRetry(): the tables hold texts, so a status that is a number is not
\* found in them; with error.code a number, startsWith() throws out of it.
shouldRetry(error, attempt) ==
  IF attempt >= policyRetries THEN "throw"
  ELSE IF error \in {"permanentName", "permanentText"} THEN "throw"
  ELSE IF error = "numericCode" THEN "crash" ELSE "retry"

Attempt(st) == [st |-> st, attempt |-> 0, wait |-> 0, errors |-> <<>>]

RetryInit == call = Attempt("idle")

execute == call.st = "idle" /\ call' = Attempt("running")

FnSucceeds == call.st = "running" /\ call' = [call EXCEPT !.st = "resolved"]

FnFails(error, strategy) ==
  /\ call.st = "running"
  /\ \E delay \in getDelay(strategy, call.attempt) :
       call' = [call EXCEPT
         !.errors = Append(@, error),
         !.st = IF shouldRetry(error, call.attempt) # "retry" \/ delay < 0 THEN "rejected"
                ELSE "sleeping",
         !.wait = IF shouldRetry(error, call.attempt) # "retry" THEN 0 ELSE delay]

\* _sleep() is over; the loop goes on while attempt <= maxRetries.
Wakes ==
  /\ call.st = "sleeping"
  /\ call' = [call EXCEPT !.attempt = @ + 1, !.wait = 0,
                          !.st = IF call.attempt + 1 <= policyRetries THEN "running" ELSE "rejected"]

RetryGoesOn ==
  \/ FnSucceeds
  \/ \E error \in ErrorKinds, strategy \in Strategies : FnFails(error, strategy)
  \/ Wakes

RetryNext == execute \/ RetryGoesOn

RetrySpec == RetryInit /\ [][RetryNext]_retryVars

\* The function settles and timers fire.
RetryFair == WF_retryVars(RetryGoesOn)

-----------------------------------------------------------------------------
ReplicaIds == 1 .. Replicas
Healthy == {i \in ReplicaIds : health[i] # "unhealthy"}

ReplicaInit ==
  /\ health = [i \in ReplicaIds |-> "none"] /\ index = 0 /\ rests = {}
  /\ reading = [q \in Readers |-> [st |-> "idle", at |-> 0]]
  /\ checking = 0 /\ kept = 0

\* The n-th of a set of replicas, in order.
Nth(S, n) == CHOOSE i \in S : Cardinality({j \in S : j < i}) = n

Rest(i) == rests' = rests \cup {<<i, restTicks>>}

\* query() of a read: round robin over the replicas that are not unhealthy,
\* the primary when none is left.
ReadBegins(q) ==
  /\ reading[q].st = "idle"
  /\ IF Healthy = {}
     THEN /\ reading' = [reading EXCEPT ![q] = [st |-> "primary", at |-> 0]]
          /\ UNCHANGED index
     ELSE /\ reading' = [reading EXCEPT ![q] =
               [st |-> "replica", at |-> Nth(Healthy, index % Cardinality(Healthy))]]
          /\ index' = (index + 1) % Cardinality(Healthy)
  /\ UNCHANGED <<health, rests, checking, kept>>

\* A write, forcePrimary, or a deployment without replicas.
PrimaryBegins(q) ==
  /\ reading[q].st = "idle"
  /\ reading' = [reading EXCEPT ![q] = [st |-> "primary", at |-> 0]]
  /\ UNCHANGED <<health, index, rests, checking, kept>>

Answered(q) ==
  /\ reading[q].st # "idle"
  /\ reading' = [reading EXCEPT ![q] = [st |-> "idle", at |-> 0]]
  /\ UNCHANGED <<health, index, rests, checking, kept>>

\* _markReplicaUnhealthy(); every call sets a timer of its own.
Marked(i) == health' = [health EXCEPT ![i] = "unhealthy"] /\ Rest(i)

\* The replica fails: the query goes on at the primary.
ReplicaFails(q) ==
  /\ reading[q].st = "replica" /\ Cardinality(rests) < MaxRests
  /\ Marked(reading[q].at)
  /\ reading' = [reading EXCEPT ![q] = [st |-> "primary", at |-> 0]]
  /\ UNCHANGED <<index, checking, kept>>

\* Mutant: the timer leaves the state alone.
RestOver_Idle(t) ==
  /\ t \in rests /\ t[2] = 0
  /\ rests' = rests \ {t}
  /\ UNCHANGED <<health, index, reading, checking, kept>>

RestOver(t) ==
  /\ t \in rests /\ t[2] = 0
  /\ rests' = rests \ {t}
  /\ health' = [health EXCEPT ![t[1]] = IF @ = "unhealthy" THEN "unknown" ELSE @]
  /\ UNCHANGED <<index, reading, checking, kept>>

\* The health check walks the replicas, awaiting a connection and an answer
\* of each.  A connection is given back only after an answer.
CheckBegins ==
  /\ checking = 0 /\ Replicas > 0 /\ checking' = 1
  /\ UNCHANGED <<health, index, rests, reading, kept>>

CheckGoesOn == checking' = IF checking < Replicas THEN checking + 1 ELSE 0

CheckAnswers ==
  /\ checking # 0
  /\ health' = [health EXCEPT ![checking] = "healthy"]
  /\ CheckGoesOn
  /\ UNCHANGED <<index, rests, reading, kept>>

CheckFails(connected) ==
  /\ checking # 0 /\ Cardinality(rests) < MaxRests
  /\ Marked(checking)
  /\ kept' = IF connected /\ kept < 2 THEN kept + 1 ELSE kept
  /\ CheckGoesOn
  /\ UNCHANGED <<index, reading>>

ReplicaTick ==
  /\ rests # {} /\ \A t \in rests : t[2] > 0
  /\ rests' = {<<t[1], t[2] - 1>> : t \in rests}
  /\ UNCHANGED <<health, index, reading, checking, kept>>

ReplicaNext ==
  \/ \E q \in Readers : ReadBegins(q) \/ PrimaryBegins(q) \/ Answered(q) \/ ReplicaFails(q)
  \/ \E t \in rests : RestOver(t)
  \/ CheckBegins \/ CheckAnswers \/ \E connected \in BOOLEAN : CheckFails(connected)
  \/ ReplicaTick

ReplicaSpec == ReplicaInit /\ [][ReplicaNext]_replicaVars

\* Timers fire and time passes.
ReplicaFair == WF_replicaVars(ReplicaTick \/ \E t \in rests : RestOver(t))

-----------------------------------------------------------------------------
(* The retry loop (retry-policy.js): a call meets at most one error more   *)
(* than it may retry, none after one the tables call permanent by a text,  *)
(* and never waits longer than the cap and its jitter.                     *)
RetriesSound ==
  /\ Len(call.errors) <= policyRetries + 1
  /\ \A n \in 1 .. Len(call.errors) - 1 :
       call.errors[n] \notin {"permanentName", "permanentText"}
  /\ 4 * call.wait <= 5 * maxDelay + 3

(* "Permanent error types that should NOT be retried" (retry-policy.js:66) *)
(* 404 as a number included.                                               *)
PermanentNotRetried ==
  \A n \in 1 .. Len(call.errors) - 1 :
    call.errors[n] \notin {"permanentName", "permanentText", "permanentNumber"}

(* execute() ends, by a result or by an error.                             *)
ExecuteEnds == call.st = "running" ~> call.st \in {"resolved", "rejected"}

(* A replica is not given up for good, however queries, the health check   *)
(* and older timers interleave: unhealthy, it has a timer that will have   *)
(* it tried again.                                                         *)
UnhealthyHasTimer ==
  \A i \in ReplicaIds : health[i] = "unhealthy" => \E t \in rests : t[1] = i

RecoversAgain ==
  \A i \in ReplicaIds : health[i] = "unhealthy" ~> health[i] # "unhealthy"
=============================================================================
