----------------------------- MODULE MCPlatform -----------------------------
(***************************************************************************)
(* The security utilities: versions of a key, a rate limiter two           *)
(* middlewares share, a function wrapped by it, API keys, form tokens,     *)
(* request nonces, card tokens, access lists over addresses of two bits,   *)
(* risk scores of one user and two concurrent analyses, and the anomaly    *)
(* baseline of one user; and the operation of a service: alerts over two   *)
(* metrics, digests of security events, and two tasks that rotate one log. *)
(* They share nothing, so each behaviour exercises one of them and the     *)
(* state spaces add up.                                                    *)
(***************************************************************************)
EXTENDS KeyRotation, RateLimiter, SecurityTokens,
        AccessLists, RiskScoring, AnomalyDetector, Alerts, LogRotation, TLC

MCLimits == {[max |-> 1, windowMs |-> 3], [max |-> 3, windowMs |-> 4]}
MCLives == {-1, 2}

\* A range of half the addresses, one address of each half, every address
\* and the range an IPv6 prefix stands for.
MCRanges == {<<2, 1>>, <<3, 2>>, <<0, 0>>, <<SixOnly, 1>>}

-----------------------------------------------------------------------------
VARIABLE part

MCVars == <<part, keyVars, limiterVars, wrapVars, apiVars, csrfVars, nonceVars, vaultVars,
            accessVars, riskVars, anomalyVars, alertVars, digestVars, logVars>>

MCInit ==
  /\ part \in {"keys", "limiter", "calls", "api", "csrf", "nonces", "vault", "access", "risk",
              "anomaly", "alerts", "digests", "log"}
  /\ KeysInit /\ LimiterInit /\ WrapInit /\ ApiKeysInit /\ CsrfInit /\ NonceInit /\ VaultInit
  /\ AccessInit /\ RiskInit /\ AnomalyInit /\ AlertsInit /\ DigestInit /\ LogInit
  /\ part # "log" => settings.compress /\ settings.byName

MCNext ==
  /\ UNCHANGED part
  /\ \/ /\ part = "keys" /\ KeysNext
        /\ UNCHANGED <<limiterVars, wrapVars, apiVars, csrfVars, nonceVars, vaultVars, accessVars,
                       riskVars, anomalyVars, alertVars, digestVars, logVars>>
     \/ /\ part = "limiter" /\ LimiterNext
        /\ UNCHANGED <<keyVars, wrapVars, apiVars, csrfVars, nonceVars, vaultVars, accessVars,
                       riskVars, anomalyVars, alertVars, digestVars, logVars>>
     \/ /\ part = "calls" /\ WrapNext
        /\ UNCHANGED <<keyVars, limiterVars, apiVars, csrfVars, nonceVars, vaultVars, accessVars,
                       riskVars, anomalyVars, alertVars, digestVars, logVars>>
     \/ /\ part = "api" /\ ApiKeysNext
        /\ UNCHANGED <<keyVars, limiterVars, wrapVars, csrfVars, nonceVars, vaultVars, accessVars,
                       riskVars, anomalyVars, alertVars, digestVars, logVars>>
     \/ /\ part = "csrf" /\ CsrfNext
        /\ UNCHANGED <<keyVars, limiterVars, wrapVars, apiVars, nonceVars, vaultVars, accessVars,
                       riskVars, anomalyVars, alertVars, digestVars, logVars>>
     \/ /\ part = "nonces" /\ NonceNext
        /\ UNCHANGED <<keyVars, limiterVars, wrapVars, apiVars, csrfVars, vaultVars, accessVars,
                       riskVars, anomalyVars, alertVars, digestVars, logVars>>
     \/ /\ part = "vault" /\ VaultNext
        /\ UNCHANGED <<keyVars, limiterVars, wrapVars, apiVars, csrfVars, nonceVars, accessVars,
                       riskVars, anomalyVars, alertVars, digestVars, logVars>>
     \/ /\ part = "access" /\ AccessNext
        /\ UNCHANGED <<keyVars, limiterVars, wrapVars, apiVars, csrfVars, nonceVars, vaultVars,
                       riskVars, anomalyVars, alertVars, digestVars, logVars>>
     \/ /\ part = "risk" /\ RiskNext
        /\ UNCHANGED <<keyVars, limiterVars, wrapVars, apiVars, csrfVars, nonceVars, vaultVars,
                       accessVars, anomalyVars, alertVars, digestVars, logVars>>
     \/ /\ part = "anomaly" /\ AnomalyNext
        /\ UNCHANGED <<keyVars, limiterVars, wrapVars, apiVars, csrfVars, nonceVars, vaultVars,
                       accessVars, riskVars, alertVars, digestVars, logVars>>
     \/ /\ part = "alerts" /\ AlertsNext
        /\ UNCHANGED <<keyVars, limiterVars, wrapVars, apiVars, csrfVars, nonceVars, vaultVars,
                       accessVars, riskVars, anomalyVars, digestVars, logVars>>
     \/ /\ part = "digests" /\ DigestNext
        /\ UNCHANGED <<keyVars, limiterVars, wrapVars, apiVars, csrfVars, nonceVars, vaultVars,
                       accessVars, riskVars, anomalyVars, alertVars, logVars>>
     \/ /\ part = "log" /\ LogNext
        /\ UNCHANGED <<keyVars, limiterVars, wrapVars, apiVars, csrfVars, nonceVars, vaultVars,
                       accessVars, riskVars, anomalyVars, alertVars, digestVars>>

MCSpec == MCInit /\ [][MCNext]_MCVars

\* The tasks of the log rotator differ in nothing.
RotatorSymmetry == Permutations(Rotators)

-----------------------------------------------------------------------------
(* Tokens (csrf-protection.js, request-signing.js): a form token works     *)
(* once, for its session; a signed request with a nonce is accepted again  *)
(* only across clearings, which are few while it is fresh.                 *)
TokensSound == ReuseLimited /\ OneTimeUse

(* The rate limiter (rate-limiter.js): a shared bucket keeps its rate, a   *)
(* key that stays silent gets its requests back, and a call that was put   *)
(* off is not lost.                                                        *)
LimiterSound == RateKept /\ SilenceForgiven /\ CallsServed

(* Risk scores (fraud-detection.js, user-agent-validator.js, anomaly-      *)
(* detector.js) are about what happened: velocities count what had been    *)
(* stored, users are compared with their own past, and user agents are     *)
(* refused for what they are.                                              *)
RisksSound ==
  /\ part = "risk" => VelocityCountsFinished
  /\ part = "anomaly" => FirstIsNormal /\ RecentIsLearnt
  /\ part = "vault" /\ tokenVault = <<>> => RefusedOnMerit

(* What the access lists (ip-whitelist.js) and the card vault              *)
(* (tokenization.js) say changes for a reason only: looking an address up  *)
(* changes nothing and time releases it; a card token's fate is its own.   *)
VerdictsStable == AskingChangesNoVerdict /\ TimeOnlyReleases /\ TokensIndependent

(* Keys and their replacements (key-rotation.js, api-key-manager.js): the  *)
(* rotation of an encryption key or of an API key neither interrupts the   *)
(* old one during its grace period nor lets it outlive that period.        *)
KeysReplaced == []GracefulTransition /\ RotationGraceful /\ []HeirsExpireTogether

(* Alerts (alert-manager.js): notifications of a rule keep their distance, *)
(* and the history tells which alerts are active.                          *)
AlertsSound == NotificationsSpaced /\ []HistoryTells
=============================================================================
