--------------------------- MODULE SecurityTokens ---------------------------
(***************************************************************************)
(* The credentials shared-utils hands out: API keys (api-key-manager.js),  *)
(* one-time form tokens (csrf-protection.js), nonces of signed requests    *)
(* (request-signing.js) and tokens that stand for card numbers             *)
(* (tokenization.js).                                                      *)
(***************************************************************************)
EXTENDS Integers, FiniteSets

-----------------------------------------------------------------------------
(***************************************************************************)
(* API keys: security/api-key-manager.js.  Keys are made, rotated, revoked *)
(* and enabled again; a rotated key is deleted by a timer.                 *)
(*                                                                         *)
(* Times count down in ticks.  The use counters, the prefix shown to users *)
(* and the rate limit decide nothing here and are left out.                *)
(***************************************************************************)
CONSTANTS
  grace,         \* 24 hours, in ticks
  Lifetimes,     \* ticks until a key expires, or -1 for never
  MaxApiKeys     \* bound: keys generated in one behaviour

ASSUME ApiKeysAssumption ==
  grace \in Nat \ {0} /\ Lifetimes \subseteq Nat \cup {-1} /\ MaxApiKeys \in Nat

VARIABLES
  apiKeys,    \* id |-> key, the Map
  issued,     \* keys generated so far
  removals,   \* pending timers of rotateApiKey(): <<id, ticks left>>
  heirs       \* history: <<old, new, ticks since>> for each rotation

apiVars == <<apiKeys, issued, removals, heirs>>

ApiKey == [isActive : BOOLEAN, left : Int, permissions : {"asked", "changed"}]

ApiKeysTypeOK ==
  /\ issued \in 0 .. MaxApiKeys
  /\ DOMAIN apiKeys \subseteq 1 .. issued
  /\ \A k \in DOMAIN apiKeys : apiKeys[k] \in ApiKey
  /\ removals \subseteq (1 .. issued) \X (0 .. grace)
  /\ heirs \subseteq (1 .. issued) \X (1 .. issued) \X (0 .. grace + 1)

ApiKeysInit == apiKeys = <<>> /\ issued = 0 /\ removals = {} /\ heirs = {}

-----------------------------------------------------------------------------
ExpiredKey(k) == apiKeys[k].left = 0

\* validateKey() accepts the key.
validateKey(k) == k \in DOMAIN apiKeys /\ apiKeys[k].isActive /\ ~ExpiredKey(k)

\* The Map with one more key, numbered issued + 1.
WithNew(left) ==
  [k \in DOMAIN apiKeys \cup {issued + 1} |->
     IF k = issued + 1 THEN [isActive |-> TRUE, left |-> left, permissions |-> "asked"]
     ELSE apiKeys[k]]

generateKey(left) ==
  /\ issued < MaxApiKeys
  /\ apiKeys' = WithNew(left) /\ issued' = issued + 1
  /\ UNCHANGED <<removals, heirs>>

\* Mutant: the timer is set for the new key.
rotateApiKey_New(k) ==
  /\ issued < MaxApiKeys
  /\ apiKeys' = WithNew(apiKeys[k].left) /\ issued' = issued + 1
  /\ removals' = removals \cup {<<issued + 1, grace>>}
  /\ heirs' = heirs \cup {<<k, issued + 1, 0>>}

\* The new key takes over the metadata, the expiry time in it included, but
\* not what setPermissions() has changed since.
rotateApiKey(k) ==
  /\ issued < MaxApiKeys
  /\ apiKeys' = WithNew(apiKeys[k].left) /\ issued' = issued + 1
  /\ removals' = removals \cup {<<k, grace>>}
  /\ heirs' = heirs \cup {<<k, issued + 1, 0>>}

\* The timer of a rotation; a second one of the same key finds nothing.
RemoveRotated(k) ==
  /\ <<k, 0>> \in removals
  /\ removals' = removals \ {<<k, 0>>}
  /\ apiKeys' = [j \in DOMAIN apiKeys \ {k} |-> apiKeys[j]]
  /\ UNCHANGED <<issued, heirs>>

Changed(k, key) == apiKeys' = [apiKeys EXCEPT ![k] = key] /\ UNCHANGED <<issued, removals, heirs>>

revokeKey(k) == Changed(k, [apiKeys[k] EXCEPT !.isActive = FALSE])
enableKey(k) == Changed(k, [apiKeys[k] EXCEPT !.isActive = TRUE])
setPermissions(k) == Changed(k, [apiKeys[k] EXCEPT !.permissions = "changed"])

\* Timers that are due fire before time goes on.
ApiTick ==
  /\ \A r \in removals : r[2] > 0
  /\ apiKeys' = [k \in DOMAIN apiKeys |->
                   [apiKeys[k] EXCEPT !.left = IF @ > 0 THEN @ - 1 ELSE @]]
  /\ removals' = {<<r[1], r[2] - 1>> : r \in removals}
  /\ heirs' = {<<h[1], h[2], IF h[3] > grace THEN h[3] ELSE h[3] + 1>> : h \in heirs}
  /\ UNCHANGED issued

ApiKeysNext ==
  \/ \E left \in Lifetimes : generateKey(left)
  \/ \E k \in DOMAIN apiKeys :
       rotateApiKey(k) \/ revokeKey(k) \/ enableKey(k) \/ setPermissions(k)
  \/ \E k \in 1 .. issued : RemoveRotated(k)
  \/ ApiTick

ApiKeysSpec == ApiKeysInit /\ [][ApiKeysNext]_apiVars

-----------------------------------------------------------------------------
(* "Keys can be rotated without service interruption" and "old key         *)
(* continues working for 24h" (api-key-manager.js:20, 141): a key only     *)
(* stops working when it expires, when it is revoked, or exactly a grace   *)
(* period after a rotation, at which it does stop.                         *)
RotationGraceful ==
  /\ [][\A k \in DOMAIN apiKeys : (validateKey(k) /\ ~validateKey(k)') =>
          \/ k \in DOMAIN apiKeys' /\ (~apiKeys'[k].isActive \/ apiKeys'[k].left = 0)
          \/ \E h \in heirs : h[1] = k /\ h[3] = grace]_apiVars
  /\ [](\A h \in heirs : h[3] > grace => h[1] \notin DOMAIN apiKeys)

(* A key and the keys that replace it expire together, however often and   *)
(* in whatever order they are rotated, revoked and enabled again.          *)
HeirsExpireTogether ==
  \A h \in heirs : (h[1] \in DOMAIN apiKeys /\ h[2] \in DOMAIN apiKeys) =>
    apiKeys[h[1]].left = apiKeys[h[2]].left

-----------------------------------------------------------------------------
(***************************************************************************)
(* One-time tokens of forms: security/csrf-protection.js.  The branch of   *)
(* middleware() that issues a token on GET is dead, as GET is ignored      *)
(* before, so tokens come from generateToken() alone.  A token is looked   *)
(* up under a hash of itself and its session; hashes do not collide.       *)
(* The double-submit functions keep no state and are left out.             *)
(***************************************************************************)
CONSTANTS
  Tokens,       \* random tokens, never drawn twice
  FormSessions,
  tokenTTL      \* one hour, in ticks

ASSUME CsrfAssumption == tokenTTL \in Nat

VARIABLES
  tokens,       \* token |-> [sessionId, age], the live entries of the Map
  drawn,        \* tokens generated so far
  passed        \* history: <<token, session, age>> of every validation that succeeded

csrfVars == <<tokens, drawn, passed>>

CsrfTypeOK ==
  /\ drawn \subseteq Tokens /\ DOMAIN tokens \subseteq drawn
  /\ \A t \in DOMAIN tokens : tokens[t] \in [sessionId : FormSessions, age : 0 .. tokenTTL + 1]
  /\ passed \subseteq Tokens \X FormSessions \X (0 .. tokenTTL + 1)

CsrfInit == tokens = <<>> /\ drawn = {} /\ passed = {}

-----------------------------------------------------------------------------
Stale(t) == tokens[t].age > tokenTTL

Forget(gone) == [t \in DOMAIN tokens \ gone |-> tokens[t]]

\* generateToken(), with _cleanupExpiredTokens() at its end.
generateToken(t, session) ==
  /\ t \notin drawn
  /\ drawn' = drawn \cup {t}
  /\ LET kept == Forget({u \in DOMAIN tokens : Stale(u)})
     IN  tokens' = [u \in DOMAIN kept \cup {t} |->
                      IF u = t THEN [sessionId |-> session, age |-> 0] ELSE kept[u]]
  /\ UNCHANGED passed

\* validateToken(): whatever it answers, a token it finds is used up.  One
\* it does not find, or not under this session, is refused without a trace.
validateToken(t, session) ==
  /\ t \in DOMAIN tokens /\ tokens[t].sessionId = session
  /\ tokens' = Forget({t})
  /\ passed' = IF Stale(t) THEN passed ELSE passed \cup {<<t, session, tokens[t].age>>}
  /\ UNCHANGED drawn

revokeSessionTokens(session) ==
  /\ tokens' = Forget({t \in DOMAIN tokens : tokens[t].sessionId = session})
  /\ UNCHANGED <<drawn, passed>>

CsrfTick ==
  /\ tokens' = [t \in DOMAIN tokens |->
                  [tokens[t] EXCEPT !.age = IF @ > tokenTTL THEN @ ELSE @ + 1]]
  /\ UNCHANGED <<drawn, passed>>

CsrfNext ==
  \/ \E t \in Tokens, s \in FormSessions : generateToken(t, s) \/ validateToken(t, s)
  \/ \E s \in FormSessions : revokeSessionTokens(s)
  \/ CsrfTick

CsrfSpec == CsrfInit /\ [][CsrfNext]_csrfVars

-----------------------------------------------------------------------------
(* "One-time use - remove after validation" (csrf-protection.js:106): a    *)
(* token passes at most once, under the one session it was made for and    *)
(* within its life, and one that has passed is gone.                       *)
OneTimeUse ==
  \A p \in passed :
    /\ p[1] \notin DOMAIN tokens /\ p[3] <= tokenTTL
    /\ \A q \in passed : q[1] = p[1] => q = p

-----------------------------------------------------------------------------
(***************************************************************************)
(* Verification of signed requests: security/request-signing.js.  A        *)
(* request carries the time it was signed at, by its signer's clock, and   *)
(* mostly a nonce; the verifier keeps the nonces it has seen and forgets   *)
(* all of them at a fixed interval, which begins with the first nonce.     *)
(* Signatures are right or wrong; secrets and hashes are left out.  No two *)
(* requests have the same nonce.                                           *)
(*                                                                         *)
(* A genuine request is one whose header verifyRequest() can read.  The    *)
(* header signRequest() returns, t=..,v1=<hex>, is not: the parser takes   *)
(* v1= off, and line 118 looks for another =.  A signer has to put its     *)
(* "signature" field, v1=<hex>, behind v1= itself.                         *)
(***************************************************************************)
CONSTANTS
  SignedRequests,
  maxTimestampAge,   \* 5 minutes, in ticks
  nonceCleanup,      \* 10 minutes, in ticks
  NotSigned,
  MaxSkew,           \* bound: how far a signer's clock is ahead or behind
  MaxBare,           \* bound: how often a request without a nonce is counted
  MaxNow             \* bound on the clock

ASSUME NonceAssumption ==
  /\ {maxTimestampAge, MaxSkew, MaxBare, MaxNow} \subseteq Nat /\ nonceCleanup \in Nat \ {0}
  /\ NotSigned \notin Int

VARIABLES
  nonceNow,      \* the verifier's clock
  signedAt,      \* request |-> its timestamp, or NotSigned
  bare,          \* requests signed without a nonce
  usedNonces,    \* the requests whose nonce is remembered
  toClear,       \* ticks until the next clearing, or -1 before the first nonce
  verified       \* history: request |-> how often it was accepted

nonceVars == <<nonceNow, signedAt, bare, usedNonces, toClear, verified>>

NonceTypeOK ==
  /\ nonceNow \in 0 .. MaxNow
  /\ signedAt \in [SignedRequests -> Int \cup {NotSigned}]
  /\ bare \subseteq SignedRequests /\ usedNonces \subseteq SignedRequests
  /\ toClear \in -1 .. nonceCleanup
  /\ verified \in [SignedRequests -> Nat]

NonceInit ==
  /\ nonceNow = 0 /\ bare = {} /\ usedNonces = {} /\ toClear = -1
  /\ signedAt = [r \in SignedRequests |-> NotSigned]
  /\ verified = [r \in SignedRequests |-> 0]

-----------------------------------------------------------------------------
\* signRequest() always draws a nonce; another signer may leave it out.
signRequest(r, skew, without) ==
  /\ signedAt[r] = NotSigned
  /\ signedAt' = [signedAt EXCEPT ![r] = nonceNow + skew]
  /\ bare' = IF without THEN bare \cup {r} ELSE bare
  /\ UNCHANGED <<nonceNow, usedNonces, toClear, verified>>

\* |now - timestamp| is at most the limit.
Fresh(r) == nonceNow - signedAt[r] \in -maxTimestampAge .. maxTimestampAge

_scheduleNonceCleanup == toClear' = IF toClear = -1 THEN nonceCleanup ELSE toClear

\* Mutant: the nonce is looked up, but not kept.
verifyRequest_Forgets(r, genuine) ==
  /\ signedAt[r] # NotSigned /\ Fresh(r) /\ r \notin usedNonces
  /\ IF r \in bare THEN verified[r] < MaxBare /\ UNCHANGED toClear ELSE _scheduleNonceCleanup
  /\ verified' = IF genuine THEN [verified EXCEPT ![r] = @ + 1] ELSE verified
  /\ UNCHANGED <<nonceNow, signedAt, bare, usedNonces>>

\* verifyRequest() past the check of time: the nonce is spent before the
\* signature is compared, and nothing is remembered of a request that has
\* none.  A refusal before that changes nothing.
verifyRequest(r, genuine) ==
  /\ signedAt[r] # NotSigned /\ Fresh(r) /\ r \notin usedNonces
  /\ IF r \in bare THEN verified[r] < MaxBare /\ UNCHANGED <<usedNonces, toClear>>
     ELSE usedNonces' = usedNonces \cup {r} /\ _scheduleNonceCleanup
  /\ verified' = IF genuine THEN [verified EXCEPT ![r] = @ + 1] ELSE verified
  /\ UNCHANGED <<nonceNow, signedAt, bare>>

\* The interval timer: it clears all nonces, the newest included.
ClearNonces ==
  /\ toClear = 0
  /\ usedNonces' = {} /\ toClear' = nonceCleanup
  /\ UNCHANGED <<nonceNow, signedAt, bare, verified>>

NonceTick ==
  /\ nonceNow < MaxNow /\ toClear # 0
  /\ nonceNow' = nonceNow + 1
  /\ toClear' = IF toClear > 0 THEN toClear - 1 ELSE toClear
  /\ UNCHANGED <<signedAt, bare, usedNonces, verified>>

NonceNext ==
  \/ \E r \in SignedRequests :
       \/ \E skew \in -MaxSkew .. MaxSkew, without \in BOOLEAN : signRequest(r, skew, without)
       \/ \E genuine \in BOOLEAN : verifyRequest(r, genuine)
  \/ ClearNonces
  \/ NonceTick

NonceSpec == NonceInit /\ [][NonceNext]_nonceVars

-----------------------------------------------------------------------------
(* "Nonces tracked to prevent reuse" (request-signing.js:20), as far as it *)
(* goes.  A clearing forgets every nonce (line 279), so a request with a   *)
(* nonce passes again after it if it is still fresh; and it is fresh for   *)
(* twice maxTimestampAge, as its timestamp may be ahead of the clock (line *)
(* 98).  To pass k times takes k - 1 clearings within that time, which are *)
(* k - 2 intervals apart: with 600 s between clearings and 300 s either    *)
(* way, it passes at most three times.  A request without a nonce passes   *)
(* as often as it is sent.                                                 *)
ReuseLimited ==
  \A r \in SignedRequests \ bare : (verified[r] - 2) * nonceCleanup <= 2 * maxTimestampAge

-----------------------------------------------------------------------------
(***************************************************************************)
(* Card tokens: crypto/tokenization.js.  The vault maps tokens to sealed   *)
(* card numbers.  A number is a model value; sealing keeps it, and what    *)
(* tells users about a token (brand, first and last digits) is left out.   *)
(***************************************************************************)
CONSTANTS
  CardTokens,    \* random tokens, never drawn twice
  Cards,
  TokenLives     \* ticks until a token expires, or -1 for never

ASSUME VaultAssumption == TokenLives \subseteq Nat \cup {-1}

VARIABLES
  tokenVault,    \* token |-> [card, isActive, left], the Map
  revealed       \* history: <<token, card>> of every answer of detokenize()

vaultVars == <<tokenVault, revealed>>

VaultTypeOK ==
  /\ DOMAIN tokenVault \subseteq CardTokens
  /\ \A t \in DOMAIN tokenVault :
       tokenVault[t] \in [card : Cards, isActive : BOOLEAN, left : Int]
  /\ revealed \subseteq CardTokens \X Cards

VaultInit == tokenVault = <<>> /\ revealed = {}

-----------------------------------------------------------------------------
tokenize(t, card, left) ==
  /\ t \notin DOMAIN tokenVault
  /\ tokenVault' = [u \in DOMAIN tokenVault \cup {t} |->
       IF u = t THEN [card |-> card, isActive |-> TRUE, left |-> left] ELSE tokenVault[u]]
  /\ UNCHANGED revealed

Usable(t) == t \in DOMAIN tokenVault /\ tokenVault[t].isActive /\ tokenVault[t].left # 0

detokenize(t) ==
  /\ Usable(t)
  /\ revealed' = revealed \cup {<<t, tokenVault[t].card>>}
  /\ UNCHANGED tokenVault

revokeToken(t) ==
  /\ t \in DOMAIN tokenVault
  /\ tokenVault' = [tokenVault EXCEPT ![t].isActive = FALSE]
  /\ UNCHANGED revealed

VaultTick ==
  /\ tokenVault' = [t \in DOMAIN tokenVault |->
       [tokenVault[t] EXCEPT !.left = IF @ > 0 THEN @ - 1 ELSE @]]
  /\ UNCHANGED revealed

VaultNext ==
  \/ \E t \in CardTokens :
       \/ \E card \in Cards, left \in TokenLives : tokenize(t, card, left)
       \/ detokenize(t) \/ revokeToken(t)
  \/ VaultTick

VaultSpec == VaultInit /\ [][VaultNext]_vaultVars

-----------------------------------------------------------------------------
(* "Tokens can be revoked without affecting other tokens"                  *)
(* (tokenization.js:25): a token that is revoked or has expired is so for  *)
(* good, and no other goes out of use with one that has not expired; a     *)
(* token always stands for the card it was made for, however many share it.*)
TokensIndependent ==
  [][\A t \in DOMAIN tokenVault :
       /\ t \in DOMAIN tokenVault' /\ tokenVault'[t].card = tokenVault[t].card
       /\ ~Usable(t) => ~Usable(t)'
       /\ (Usable(t) /\ ~Usable(t)' /\ tokenVault'[t].left # 0) =>
            \A u \in DOMAIN tokenVault \ {t} : Usable(u) => Usable(u)']_vaultVars
=============================================================================
