--------------------------- MODULE PlatformProofs ---------------------------
(***************************************************************************)
(* Proofs about the security utilities and the log rotator, for every      *)
(* number of tokens, keys, nonces and rotations.  Each component has an    *)
(* inductive invariant of its own; the theorems state the properties that  *)
(* MCPlatform checks on small instances.                                   *)
(***************************************************************************)
EXTENDS MCPlatform, FiniteSetTheorems, TLAPS

-----------------------------------------------------------------------------
(* Form tokens.  What has passed was drawn, so it is never drawn again.    *)
CsrfIInv ==
  /\ DOMAIN tokens \subseteq drawn
  /\ \A t \in DOMAIN tokens : tokens[t] \in [sessionId : FormSessions, age : Nat]
  /\ \A p \in passed : p[1] \in drawn
  /\ OneTimeUse

LEMMA CsrfInitIInv == CsrfInit => CsrfIInv
BY DEF CsrfInit, CsrfIInv, OneTimeUse

LEMMA CsrfGenerateKeeps ==
  ASSUME CsrfIInv, NEW t \in Tokens, NEW s \in FormSessions, generateToken(t, s)
  PROVE  CsrfIInv'
BY DEF CsrfIInv, OneTimeUse, generateToken, Forget

LEMMA CsrfValidateKeeps ==
  ASSUME CsrfIInv, NEW t \in Tokens, NEW s \in FormSessions, validateToken(t, s)
  PROVE  CsrfIInv'
<1>1. /\ DOMAIN tokens' = DOMAIN tokens \ {t}
      /\ \A u \in DOMAIN tokens' : tokens'[u] = tokens[u]
  BY DEF validateToken, Forget
<1>2. CASE Stale(t)
  BY <1>1, <1>2 DEF CsrfIInv, OneTimeUse, validateToken
<1>3. CASE ~Stale(t)
  <2>1. tokens[t].age <= tokenTTL
    BY <1>3, CsrfAssumption DEF Stale, CsrfIInv, validateToken
  <2>2. passed' = passed \cup {<<t, s, tokens[t].age>>}
    BY <1>3 DEF validateToken
  <2>3. t \in drawn /\ \A p \in passed : p[1] # t
    BY DEF CsrfIInv, OneTimeUse, validateToken
  <2>4. ASSUME NEW p \in passed'
        PROVE  /\ p[1] \in drawn /\ p[1] \notin DOMAIN tokens' /\ p[3] <= tokenTTL
               /\ \A q \in passed' : q[1] = p[1] => q = p
    <3>1. CASE p \in passed
      BY <1>1, <2>2, <2>3, <3>1 DEF CsrfIInv, OneTimeUse
    <3>2. CASE p = <<t, s, tokens[t].age>>
      BY <1>1, <2>1, <2>2, <2>3, <3>2
    <3> QED
      BY <2>2, <3>1, <3>2
  <2> QED
    BY <1>1, <2>4 DEF CsrfIInv, OneTimeUse, validateToken
<1> QED
  BY <1>2, <1>3

LEMMA CsrfRestKeeps ==
  ASSUME CsrfIInv,
         (\E s \in FormSessions : revokeSessionTokens(s)) \/ CsrfTick \/ UNCHANGED csrfVars
  PROVE  CsrfIInv'
<1>1. CASE \E s \in FormSessions : revokeSessionTokens(s)
  BY <1>1 DEF CsrfIInv, OneTimeUse, revokeSessionTokens, Forget
<1>2. CASE CsrfTick
  BY <1>2, CsrfAssumption DEF CsrfIInv, OneTimeUse, CsrfTick
<1>3. CASE UNCHANGED csrfVars
  BY <1>3 DEF CsrfIInv, OneTimeUse, csrfVars
<1> QED
  BY <1>1, <1>2, <1>3

LEMMA CsrfInvariance == CsrfSpec => []CsrfIInv
<1>1. CsrfIInv /\ [CsrfNext]_csrfVars => CsrfIInv'
  BY CsrfGenerateKeeps, CsrfValidateKeeps, CsrfRestKeeps DEF CsrfNext
<1> QED
  BY <1>1, CsrfInitIInv, PTL DEF CsrfSpec

-----------------------------------------------------------------------------
(* Nonces.  A request has been fresh for Open ticks.  One that was         *)
(* accepted k times is remembered, and k - 2 whole intervals lie between   *)
(* the first clearing and the last; or it is not, and k - 1 do.            *)
Open(r) == nonceNow - signedAt[r] + maxTimestampAge
SinceClearing == nonceCleanup - toClear

Passed(r) ==
  /\ signedAt[r] \in Int /\ toClear # -1 /\ Open(r) >= 0
  /\ verified[r] > 1 \/ r \notin usedNonces =>
       (verified[r] - IF r \in usedNonces THEN 2 ELSE 1) * nonceCleanup <= Open(r) - SinceClearing
  /\ (verified[r] - 2) * nonceCleanup <= 2 * maxTimestampAge

NonceIInv ==
  /\ NonceTypeOK
  /\ toClear = -1 => usedNonces = {}
  /\ \A r \in SignedRequests \ bare : verified[r] > 0 => Passed(r)
  /\ \A r \in SignedRequests : verified[r] > 0 \/ r \in bare \cup usedNonces => signedAt[r] # NotSigned

\* One interval more.
LEMMA Intervals ==
  ASSUME NEW k \in Int
  PROVE  /\ (k - 1) * nonceCleanup = (k - 2) * nonceCleanup + nonceCleanup
         /\ (k - 2) * nonceCleanup \in Int /\ (k + 1) - 2 = k - 1
         /\ (-1) * nonceCleanup = -nonceCleanup /\ 0 * nonceCleanup = 0
BY NonceAssumption

LEMMA NonceInitIInv == NonceInit => NonceIInv
BY NonceAssumption DEF NonceInit, NonceIInv, NonceTypeOK

LEMMA NonceVerifyKeeps ==
  ASSUME NonceIInv, NEW n \in SignedRequests, NEW genuine \in BOOLEAN, verifyRequest(n, genuine)
  PROVE  NonceIInv'
<1>0. /\ NonceTypeOK /\ maxTimestampAge \in Nat /\ nonceCleanup \in Nat \ {0}
      /\ nonceNow \in Int /\ NotSigned \notin Int
  BY NonceAssumption DEF NonceIInv, NonceTypeOK
<1>1. /\ signedAt[n] \in Int /\ nonceNow - signedAt[n] \in -maxTimestampAge .. maxTimestampAge
      /\ n \notin usedNonces /\ nonceNow' = nonceNow /\ signedAt' = signedAt /\ bare' = bare
  BY <1>0 DEF verifyRequest, Fresh, NonceTypeOK
<1>2. /\ verified' \in [SignedRequests -> Nat]
      /\ \A m \in SignedRequests \ {n} : verified'[m] = verified[m]
      /\ verified'[n] \in {verified[n], verified[n] + 1}
  BY <1>0 DEF verifyRequest, NonceTypeOK
<1>3. CASE n \in bare
  <2>1. usedNonces' = usedNonces /\ toClear' = toClear
    BY <1>3 DEF verifyRequest
  <2>2. \A r \in SignedRequests \ bare : r # n
    BY <1>3
  <2>3. \A r \in SignedRequests \ bare : Passed(r)' <=> Passed(r)
    BY <1>1, <1>2, <2>1, <2>2 DEF Passed, Open, SinceClearing
  <2>4. NonceTypeOK'
    BY <1>0, <1>1, <1>2, <2>1 DEF NonceTypeOK
  <2>5. \A r \in SignedRequests : verified'[r] > 0 \/ r \in bare' \cup usedNonces' => signedAt'[r] # NotSigned
    BY <1>0, <1>1, <1>2, <1>3, <2>1 DEF NonceIInv
  <2> QED BY <1>1, <1>2, <2>1, <2>2, <2>3, <2>4, <2>5 DEF NonceIInv
<1>4. CASE n \notin bare
  <2>1. usedNonces' = usedNonces \cup {n} /\ toClear' = IF toClear = -1 THEN nonceCleanup ELSE toClear
    BY <1>4 DEF verifyRequest, _scheduleNonceCleanup
  <2>2. toClear \in -1 .. nonceCleanup /\ toClear' \in 0 .. nonceCleanup
    BY <1>0, <2>1 DEF NonceTypeOK
  <2>3. NonceTypeOK'
    BY <1>0, <1>1, <1>2, <2>1, <2>2 DEF NonceTypeOK
  <2>4. ASSUME NEW r \in SignedRequests \ bare, verified'[r] > 0 PROVE Passed(r)'
    <3>1. CASE r # n
      <4>1. verified'[r] = verified[r] /\ Passed(r) /\ (r \in usedNonces' <=> r \in usedNonces)
        BY <1>2, <2>1, <2>4, <3>1 DEF NonceIInv
      <4>2. toClear' = toClear
        BY <2>1, <4>1 DEF Passed
      <4> QED BY <1>1, <4>1, <4>2 DEF Passed, Open, SinceClearing
    <3>2. CASE r = n
      <4> DEFINE k == verified[n]
                 open == Open(n)
      <4>1. /\ k \in Nat /\ open \in 0 .. 2 * maxTimestampAge /\ Open(r)' = open
            /\ n \in usedNonces'
        BY <1>0, <1>1, <2>1, <3>2 DEF NonceTypeOK, Open
      <4>2. SinceClearing' \in Nat
        <5> DEFINE left == toClear'
        <5>1. nonceCleanup \in Nat /\ left \in 0 .. nonceCleanup
          BY <1>0, <2>2
        <5> HIDE DEF left
        <5>2. nonceCleanup - left \in Nat
          BY <5>1
        <5> QED BY <5>2 DEF SinceClearing, left
      <4>3. k > 0 => toClear' = toClear /\ (k - 1) * nonceCleanup <= open - SinceClearing
        BY <1>1, <1>4, <2>1 DEF NonceIInv, Passed
      <4>4. toClear' = toClear => SinceClearing' = SinceClearing
        BY DEF SinceClearing
      <4>5. verified'[n] \in {k, k + 1}
        BY <1>2
      <4> HIDE DEF k, open
      <4>6. /\ (k - 1) * nonceCleanup = (k - 2) * nonceCleanup + nonceCleanup
            /\ (k - 2) * nonceCleanup \in Int /\ (k + 1) - 2 = k - 1
            /\ (-1) * nonceCleanup = -nonceCleanup /\ 0 * nonceCleanup = 0
        BY <4>1, Intervals
      <4>7. /\ verified'[n] > 1 => (verified'[n] - 2) * nonceCleanup <= open - SinceClearing'
            /\ (verified'[n] - 2) * nonceCleanup <= 2 * maxTimestampAge
        <5>1. CASE k > 0
          <6>1. (k - 1) * nonceCleanup <= open - SinceClearing'
            BY <4>3, <4>4, <5>1
          <6> DEFINE a == (k - 1) * nonceCleanup
                     b == (k - 2) * nonceCleanup
                     since == SinceClearing'
          <6>0. a = b + nonceCleanup /\ b \in Int /\ a <= open - since /\ since \in Nat
            BY <4>2, <4>6, <6>1
          <6> HIDE DEF a, b, since
          <6>2. a <= 2 * maxTimestampAge /\ b <= open - since /\ b <= 2 * maxTimestampAge
            BY <1>0, <4>1, <6>0
          <6>3. /\ (k - 1) * nonceCleanup <= 2 * maxTimestampAge
                /\ (k - 2) * nonceCleanup <= open - SinceClearing'
                /\ (k - 2) * nonceCleanup <= 2 * maxTimestampAge
            BY <6>2 DEF a, b, since
          <6> QED BY <4>5, <4>6, <6>1, <6>3
        <5>2. CASE k = 0
          <6>1. verified'[n] = 1
            BY <2>4, <3>2, <4>5, <5>2
          <6>2. verified'[n] - 2 = -1
            BY <6>1
          <6> QED BY <1>0, <4>6, <6>1, <6>2
        <5> QED BY <4>1, <5>1, <5>2
      <4>8. signedAt'[n] \in Int /\ toClear' # -1 /\ Open(n)' >= 0
        BY <1>1, <2>2, <3>2, <4>1
      <4> QED BY <3>2, <4>1, <4>7, <4>8 DEF Passed
    <3> QED BY <3>1, <3>2
  <2>5. \A r \in SignedRequests : verified'[r] > 0 \/ r \in bare' \cup usedNonces' => signedAt'[r] # NotSigned
    BY <1>0, <1>1, <1>2, <2>1 DEF NonceIInv
  <2>6. toClear' # -1
    BY <2>2
  <2> QED BY <1>1, <2>3, <2>4, <2>5, <2>6 DEF NonceIInv
<1> QED BY <1>3, <1>4

LEMMA NonceSignKeeps ==
  ASSUME NonceIInv, NEW n \in SignedRequests, NEW skew \in -MaxSkew .. MaxSkew,
         NEW without \in BOOLEAN, signRequest(n, skew, without)
  PROVE  NonceIInv'
<1>1. /\ NonceTypeOK /\ nonceNow + skew \in Int /\ NotSigned \notin Int /\ signedAt[n] = NotSigned
      /\ signedAt' = [signedAt EXCEPT ![n] = nonceNow + skew] /\ nonceNow' = nonceNow
      /\ usedNonces' = usedNonces /\ toClear' = toClear /\ verified' = verified
      /\ bare' \in {bare, bare \cup {n}}
  BY NonceAssumption DEF signRequest, NonceIInv, NonceTypeOK
<1>2. \A r \in SignedRequests : r # n => signedAt'[r] = signedAt[r]
  BY <1>1
<1>3. signedAt'[n] # NotSigned
  BY <1>1 DEF NonceTypeOK
<1>4. NonceTypeOK'
  BY <1>1 DEF NonceTypeOK
<1>5. \A r \in SignedRequests \ bare' : verified'[r] > 0 => r # n /\ r \in SignedRequests \ bare
  BY <1>1 DEF NonceIInv
<1>6. \A r \in SignedRequests \ bare' : verified'[r] > 0 => Passed(r)'
  BY <1>1, <1>2, <1>5 DEF NonceIInv, Passed, Open, SinceClearing
<1> QED BY <1>1, <1>2, <1>3, <1>4, <1>6 DEF NonceIInv

LEMMA NonceRestKeeps ==
  ASSUME NonceIInv, ClearNonces \/ NonceTick \/ UNCHANGED nonceVars
  PROVE  NonceIInv'
<1>0. /\ NonceTypeOK /\ maxTimestampAge \in Nat /\ nonceCleanup \in Nat \ {0}
      /\ nonceNow \in Int /\ MaxNow \in Nat
  BY NonceAssumption DEF NonceIInv, NonceTypeOK
<1>1. CASE ClearNonces
  <2>1. /\ toClear = 0 /\ usedNonces' = {} /\ toClear' = nonceCleanup /\ nonceNow' = nonceNow
        /\ signedAt' = signedAt /\ bare' = bare /\ verified' = verified
    BY <1>1 DEF ClearNonces
  <2>2. ASSUME NEW r \in SignedRequests \ bare', verified'[r] > 0 PROVE Passed(r)'
    <3> DEFINE k == verified[r]
               open == Open(r)
    <3>1. /\ Passed(r) /\ k \in Nat /\ k > 0 /\ open \in Int /\ Open(r)' = open
          /\ SinceClearing = nonceCleanup /\ SinceClearing' = 0
      BY <1>0, <2>1, <2>2 DEF NonceIInv, NonceTypeOK, Passed, Open, SinceClearing
    <3>2. /\ open >= 0 /\ (k - 2) * nonceCleanup <= 2 * maxTimestampAge
          /\ k > 1 /\ r \in usedNonces => (k - 2) * nonceCleanup <= open - nonceCleanup
          /\ r \notin usedNonces => (k - 1) * nonceCleanup <= open - nonceCleanup
      BY <3>1 DEF Passed
    <3> HIDE DEF k, open
    <3>3. /\ (k - 1) * nonceCleanup = (k - 2) * nonceCleanup + nonceCleanup
          /\ (k - 2) * nonceCleanup \in Int /\ 0 * nonceCleanup = 0
      BY <3>1, Intervals
    <3>4. (k - 1) * nonceCleanup <= open
      <4>1. CASE k = 1
        <5>1. k - 1 = 0
          BY <4>1
        <5> QED BY <3>2, <3>3, <5>1
      <4>2. CASE k > 1
        BY <1>0, <3>1, <3>2, <3>3, <4>2
      <4> QED BY <3>1, <4>1, <4>2
    <3>5. open - 0 = open
      BY <3>1
    <3> QED BY <1>0, <2>1, <3>1, <3>2, <3>4, <3>5 DEF Passed, k
  <2>3. NonceTypeOK' /\ toClear' # -1
    BY <1>0, <2>1 DEF NonceTypeOK
  <2> QED BY <2>1, <2>2, <2>3 DEF NonceIInv
<1>2. CASE NonceTick
  <2>1. /\ nonceNow < MaxNow /\ toClear # 0 /\ nonceNow' = nonceNow + 1
        /\ toClear' = (IF toClear > 0 THEN toClear - 1 ELSE toClear) /\ usedNonces' = usedNonces
        /\ signedAt' = signedAt /\ bare' = bare /\ verified' = verified
    BY <1>2 DEF NonceTick
  <2>2. ASSUME NEW r \in SignedRequests \ bare', verified'[r] > 0 PROVE Passed(r)'
    <3>1. /\ Passed(r) /\ toClear \in 1 .. nonceCleanup /\ toClear' = toClear - 1
      BY <1>0, <2>1, <2>2 DEF NonceIInv, NonceTypeOK, Passed
    <3>2. /\ Open(r) \in Int /\ Open(r)' = Open(r) + 1 /\ SinceClearing' = SinceClearing + 1
          /\ SinceClearing \in Int /\ toClear' # -1
      BY <1>0, <2>1, <3>1 DEF Passed, Open, SinceClearing
    <3>3. Open(r)' - SinceClearing' = Open(r) - SinceClearing /\ Open(r)' >= 0
      BY <3>1, <3>2 DEF Passed
    <3> QED BY <2>1, <3>1, <3>2, <3>3 DEF Passed
  <2>3. NonceTypeOK' /\ (toClear' = -1 => toClear = -1)
    BY <1>0, <2>1 DEF NonceTypeOK
  <2> QED BY <2>1, <2>2, <2>3 DEF NonceIInv
<1>3. CASE UNCHANGED nonceVars
  BY <1>3 DEF NonceIInv, NonceTypeOK, Passed, Open, SinceClearing, nonceVars
<1> QED
  BY <1>1, <1>2, <1>3

LEMMA NonceInvariance == NonceSpec => []NonceIInv
<1>1. NonceIInv /\ [NonceNext]_nonceVars => NonceIInv'
  BY NonceVerifyKeeps, NonceSignKeeps, NonceRestKeeps DEF NonceNext
<1> QED
  BY <1>1, NonceInitIInv, PTL DEF NonceSpec

-----------------------------------------------------------------------------
(* Card tokens.                                                            *)
LEMMA VaultInvariance == VaultSpec => []VaultTypeOK
<1>1. VaultInit => VaultTypeOK
  BY DEF VaultInit, VaultTypeOK
<1>2. ASSUME VaultTypeOK, [VaultNext]_vaultVars
      PROVE  VaultTypeOK'
  <2>1. ASSUME NEW t \in CardTokens, NEW card \in Cards, NEW left \in TokenLives, tokenize(t, card, left)
        PROVE  VaultTypeOK'
    BY <1>2, <2>1, VaultAssumption DEF VaultTypeOK, tokenize
  <2>2. ASSUME NEW t \in CardTokens, detokenize(t)
        PROVE  VaultTypeOK'
    BY <1>2, <2>2 DEF VaultTypeOK, detokenize, Usable
  <2>3. ASSUME NEW t \in CardTokens, revokeToken(t)
        PROVE  VaultTypeOK'
    BY <1>2, <2>3 DEF VaultTypeOK, revokeToken
  <2>4. ASSUME VaultTick
        PROVE  VaultTypeOK'
    BY <1>2, <2>4 DEF VaultTypeOK, VaultTick
  <2> QED
    BY <1>2, <2>1, <2>2, <2>3, <2>4 DEF VaultNext, VaultTypeOK, vaultVars
<1> QED
  BY <1>1, <1>2, PTL DEF VaultSpec

LEMMA VaultStep ==
  ASSUME VaultTypeOK, VaultNext, NEW t \in DOMAIN tokenVault
  PROVE  /\ t \in DOMAIN tokenVault' /\ tokenVault'[t].card = tokenVault[t].card
         /\ ~Usable(t) => ~Usable(t)'
         /\ (Usable(t) /\ ~Usable(t)' /\ tokenVault'[t].left # 0) =>
              \A u \in DOMAIN tokenVault \ {t} : Usable(u) => Usable(u)'
<1>1. ASSUME NEW u \in CardTokens, NEW card \in Cards, NEW left \in TokenLives, tokenize(u, card, left)
      PROVE  t \in DOMAIN tokenVault' /\ tokenVault'[t] = tokenVault[t]
  BY <1>1 DEF tokenize
<1>2. ASSUME NEW u \in CardTokens, detokenize(u)
      PROVE  tokenVault' = tokenVault
  BY <1>2 DEF detokenize
<1>3. ASSUME NEW u \in CardTokens, revokeToken(u), u # t
      PROVE  t \in DOMAIN tokenVault' /\ tokenVault'[t] = tokenVault[t]
  BY <1>3 DEF revokeToken
<1>4. ASSUME revokeToken(t)
      PROVE  /\ t \in DOMAIN tokenVault' /\ tokenVault'[t].card = tokenVault[t].card
             /\ ~tokenVault'[t].isActive
             /\ \A u \in DOMAIN tokenVault \ {t} :
                  u \in DOMAIN tokenVault' /\ tokenVault'[u] = tokenVault[u]
  BY <1>4 DEF revokeToken, VaultTypeOK
<1>5. ASSUME VaultTick
      PROVE  /\ t \in DOMAIN tokenVault'
             /\ tokenVault'[t].card = tokenVault[t].card
             /\ tokenVault'[t].isActive = tokenVault[t].isActive
             /\ tokenVault[t].left = 0 => tokenVault'[t].left = 0
  BY <1>5 DEF VaultTick, VaultTypeOK
<1> QED
  BY <1>1, <1>2, <1>3, <1>4, <1>5 DEF VaultNext, Usable

(* Tokens of forms work once, and requests with a nonce as often as        *)
(* clearings fit into the time they are fresh (csrf-protection.js,         *)
(* request-signing.js).                                                    *)
THEOREM TokensSoundHolds == CsrfSpec /\ NonceSpec => []TokensSound
<1>1. CsrfIInv => OneTimeUse
  BY DEF CsrfIInv
<1>2. NonceIInv => ReuseLimited
  <2> SUFFICES ASSUME NonceIInv, NEW r \in SignedRequests \ bare
               PROVE  (verified[r] - 2) * nonceCleanup <= 2 * maxTimestampAge
    BY DEF ReuseLimited
  <2>1. CASE verified[r] > 0
    BY <2>1 DEF NonceIInv, Passed
  <2>2. CASE verified[r] = 0
    <3>1. verified[r] - 2 = -2
      BY <2>2
    <3> QED BY <3>1, NonceAssumption
  <2> QED BY <2>1, <2>2 DEF NonceIInv, NonceTypeOK
<1> QED BY <1>1, <1>2, CsrfInvariance, NonceInvariance, PTL DEF TokensSound

-----------------------------------------------------------------------------
(* API keys.  Every rotation under way has its timer, and every timer its  *)
(* rotation, so a rotated key ends with its grace period and not before.   *)
ApiIInv ==
  /\ ApiKeysTypeOK
  /\ HeirsExpireTogether
  /\ \A h \in heirs :
       /\ h[3] <= grace => h[1] \notin DOMAIN apiKeys \/ <<h[1], grace - h[3]>> \in removals
       /\ h[3] > grace => h[1] \notin DOMAIN apiKeys
  /\ \A r \in removals : \E h \in heirs : h[1] = r[1] /\ h[3] = grace - r[2]

LEMMA ApiInitIInv == ApiKeysInit => ApiIInv
BY ApiKeysAssumption DEF ApiKeysInit, ApiIInv, ApiKeysTypeOK, HeirsExpireTogether

\* A key that keeps its expiry time leaves the rotations alone.
LEMMA ApiChangeKeeps ==
  ASSUME ApiIInv, NEW k \in DOMAIN apiKeys, NEW key \in ApiKey, key.left = apiKeys[k].left,
         Changed(k, key)
  PROVE  ApiIInv'
BY DEF ApiIInv, ApiKeysTypeOK, HeirsExpireTogether, Changed

LEMMA ApiNewKeeps ==
  ASSUME ApiIInv, NEW left \in Int, issued < MaxApiKeys,
         apiKeys' = WithNew(left), issued' = issued + 1
  PROVE  /\ issued' \in 0 .. MaxApiKeys
         /\ DOMAIN apiKeys' = DOMAIN apiKeys \cup {issued + 1}
         /\ DOMAIN apiKeys' \subseteq 1 .. issued'
         /\ \A j \in DOMAIN apiKeys : apiKeys'[j] = apiKeys[j]
         /\ apiKeys'[issued + 1].left = left
         /\ \A j \in DOMAIN apiKeys' : apiKeys'[j] \in ApiKey
         /\ issued + 1 \notin DOMAIN apiKeys
BY ApiKeysAssumption DEF ApiIInv, ApiKeysTypeOK, WithNew, ApiKey

LEMMA ApiGenerateKeeps ==
  ASSUME ApiIInv, NEW left \in Lifetimes, generateKey(left)
  PROVE  ApiIInv'
<1>1. left \in Int
  BY ApiKeysAssumption
<1>2. /\ issued' = issued + 1 /\ issued < MaxApiKeys /\ apiKeys' = WithNew(left)
      /\ removals' = removals /\ heirs' = heirs
  BY DEF generateKey
<1>3. /\ issued' \in 0 .. MaxApiKeys
      /\ DOMAIN apiKeys' = DOMAIN apiKeys \cup {issued + 1}
      /\ DOMAIN apiKeys' \subseteq 1 .. issued'
      /\ \A j \in DOMAIN apiKeys : apiKeys'[j] = apiKeys[j]
      /\ \A j \in DOMAIN apiKeys' : apiKeys'[j] \in ApiKey
  BY <1>1, <1>2, ApiNewKeeps
<1>4. \A h \in heirs : h[1] # issued + 1 /\ h[2] # issued + 1
  BY ApiKeysAssumption DEF ApiIInv, ApiKeysTypeOK
<1>5. ApiKeysTypeOK'
  BY <1>2, <1>3, ApiKeysAssumption DEF ApiIInv, ApiKeysTypeOK
<1> QED
  BY <1>2, <1>3, <1>4, <1>5 DEF ApiIInv, HeirsExpireTogether

LEMMA ApiRotateKeeps ==
  ASSUME ApiIInv, NEW k \in DOMAIN apiKeys, rotateApiKey(k)
  PROVE  ApiIInv'
<1> DEFINE new == issued + 1
<1>1. apiKeys[k].left \in Int /\ k \in 1 .. issued /\ issued \in Nat
  BY ApiKeysAssumption DEF ApiIInv, ApiKeysTypeOK, ApiKey
<1>2. /\ issued' = new /\ issued < MaxApiKeys /\ apiKeys' = WithNew(apiKeys[k].left)
      /\ removals' = removals \cup {<<k, grace>>}
      /\ heirs' = heirs \cup {<<k, new, 0>>}
  BY DEF rotateApiKey
<1>3. /\ issued' \in 0 .. MaxApiKeys
      /\ DOMAIN apiKeys' = DOMAIN apiKeys \cup {new}
      /\ DOMAIN apiKeys' \subseteq 1 .. issued'
      /\ \A j \in DOMAIN apiKeys : apiKeys'[j] = apiKeys[j]
      /\ apiKeys'[new].left = apiKeys[k].left
      /\ \A j \in DOMAIN apiKeys' : apiKeys'[j] \in ApiKey
      /\ new \notin DOMAIN apiKeys
  BY <1>1, <1>2, ApiNewKeeps
<1>4. \A h \in heirs : h[1] # new /\ h[2] # new
  BY <1>1 DEF ApiIInv, ApiKeysTypeOK
<1>5. ApiKeysTypeOK'
  BY <1>1, <1>2, <1>3, ApiKeysAssumption DEF ApiIInv, ApiKeysTypeOK
<1>6. \A h \in heirs' :
        /\ (h[1] \in DOMAIN apiKeys' /\ h[2] \in DOMAIN apiKeys') =>
             apiKeys'[h[1]].left = apiKeys'[h[2]].left
        /\ h[3] <= grace => h[1] \notin DOMAIN apiKeys' \/ <<h[1], grace - h[3]>> \in removals'
        /\ h[3] > grace => h[1] \notin DOMAIN apiKeys'
  <2>1. ASSUME NEW h \in heirs
        PROVE  /\ (h[1] \in DOMAIN apiKeys' /\ h[2] \in DOMAIN apiKeys') =>
                    apiKeys'[h[1]].left = apiKeys'[h[2]].left
               /\ h[3] <= grace => h[1] \notin DOMAIN apiKeys' \/ <<h[1], grace - h[3]>> \in removals'
               /\ h[3] > grace => h[1] \notin DOMAIN apiKeys'
    BY <1>2, <1>3, <1>4 DEF ApiIInv, HeirsExpireTogether
  <2>2. grace - 0 = grace /\ ~(0 > grace)
    BY ApiKeysAssumption
  <2> QED
    BY <1>2, <1>3, <2>1, <2>2
<1>7. \A r \in removals' : \E h \in heirs' : h[1] = r[1] /\ h[3] = grace - r[2]
  <2>1. <<k, new, 0>> \in heirs' /\ 0 = grace - grace
    BY <1>2, ApiKeysAssumption
  <2>2. \A r \in removals : \E h \in heirs' : h[1] = r[1] /\ h[3] = grace - r[2]
    BY <1>2 DEF ApiIInv
  <2>3. ASSUME NEW r, r = <<k, grace>>
        PROVE  \E h \in heirs' : h[1] = r[1] /\ h[3] = grace - r[2]
    BY <2>1, <2>3
  <2> QED
    BY <1>2, <2>2, <2>3
<1> QED
  BY <1>5, <1>6, <1>7 DEF ApiIInv, HeirsExpireTogether

LEMMA ApiRemoveKeeps ==
  ASSUME ApiIInv, NEW k \in 1 .. issued, RemoveRotated(k)
  PROVE  ApiIInv'
<1>1. ApiKeysTypeOK' /\ HeirsExpireTogether'
  BY DEF ApiIInv, ApiKeysTypeOK, HeirsExpireTogether, RemoveRotated
<1>2. ASSUME NEW h \in heirs'
      PROVE  /\ h[3] <= grace => h[1] \notin DOMAIN apiKeys' \/ <<h[1], grace - h[3]>> \in removals'
             /\ h[3] > grace => h[1] \notin DOMAIN apiKeys'
  BY <1>2 DEF ApiIInv, RemoveRotated
<1>3. \A r \in removals' : \E h \in heirs' : h[1] = r[1] /\ h[3] = grace - r[2]
  BY DEF ApiIInv, RemoveRotated
<1> QED
  BY <1>1, <1>2, <1>3 DEF ApiIInv

LEMMA ApiTickKeeps ==
  ASSUME ApiIInv, ApiTick
  PROVE  ApiIInv'
<1> DEFINE Older(n) == IF n > grace THEN n ELSE n + 1
<1>1. /\ DOMAIN apiKeys' = DOMAIN apiKeys
      /\ \A j \in DOMAIN apiKeys :
           /\ apiKeys'[j] \in ApiKey
           /\ apiKeys'[j].left = IF apiKeys[j].left > 0 THEN apiKeys[j].left - 1 ELSE apiKeys[j].left
  BY DEF ApiTick, ApiIInv, ApiKeysTypeOK, ApiKey
<1>2. /\ \A r \in removals : r[1] \in 1 .. issued /\ r[2] \in 1 .. grace
      /\ \A h \in heirs : h[1] \in 1 .. issued /\ h[2] \in 1 .. issued /\ h[3] \in 0 .. grace + 1
      /\ issued' = issued
  BY ApiKeysAssumption DEF ApiTick, ApiIInv, ApiKeysTypeOK
<1>3. /\ removals' = {<<r[1], r[2] - 1>> : r \in removals}
      /\ heirs' = {<<h[1], h[2], Older(h[3])>> : h \in heirs}
  BY DEF ApiTick
<1>4. ApiKeysTypeOK'
  <2>1. \A r \in removals' : r \in (1 .. issued) \X (0 .. grace)
    BY <1>2, <1>3, ApiKeysAssumption
  <2>2. \A h \in heirs' : h \in (1 .. issued) \X (1 .. issued) \X (0 .. grace + 1)
    BY <1>2, <1>3, ApiKeysAssumption
  <2> QED
    BY <1>1, <1>2, <2>1, <2>2 DEF ApiIInv, ApiKeysTypeOK
<1>5. ASSUME NEW h \in heirs'
      PROVE  /\ (h[1] \in DOMAIN apiKeys' /\ h[2] \in DOMAIN apiKeys') =>
                  apiKeys'[h[1]].left = apiKeys'[h[2]].left
             /\ h[3] <= grace => h[1] \notin DOMAIN apiKeys' \/ <<h[1], grace - h[3]>> \in removals'
             /\ h[3] > grace => h[1] \notin DOMAIN apiKeys'
  <2>1. PICK g \in heirs : h = <<g[1], g[2], Older(g[3])>>
    BY <1>3, <1>5
  <2>2. /\ h[1] = g[1] /\ h[2] = g[2] /\ h[3] = Older(g[3])
    BY <2>1
  <2>3. (h[1] \in DOMAIN apiKeys' /\ h[2] \in DOMAIN apiKeys') =>
           apiKeys'[h[1]].left = apiKeys'[h[2]].left
    BY <1>1, <2>2 DEF ApiIInv, HeirsExpireTogether
  <2>4. CASE g[1] \notin DOMAIN apiKeys
    BY <1>1, <2>2, <2>3, <2>4
  <2>5. CASE g[1] \in DOMAIN apiKeys
    <3>1. g[3] <= grace /\ <<g[1], grace - g[3]>> \in removals
      BY <1>2, <2>5, ApiKeysAssumption DEF ApiIInv
    <3>2. grace - g[3] >= 1
      BY <1>2, <3>1
    <3>3. <<g[1], (grace - g[3]) - 1>> \in removals'
      BY <1>3, <3>1
    <3>4. h[3] = g[3] + 1 /\ h[3] <= grace /\ (grace - g[3]) - 1 = grace - h[3]
      BY <1>2, <2>2, <3>1, <3>2, ApiKeysAssumption
    <3>5. ~(h[3] > grace)
      BY <1>2, <2>2, <3>4, ApiKeysAssumption
    <3>6. <<h[1], grace - h[3]>> \in removals'
      BY <2>2, <3>3, <3>4
    <3> QED
      BY <2>3, <3>5, <3>6
  <2> QED
    BY <2>4, <2>5
<1>6. ASSUME NEW r \in removals'
      PROVE  \E h \in heirs' : h[1] = r[1] /\ h[3] = grace - r[2]
  <2>1. PICK q \in removals : r = <<q[1], q[2] - 1>>
    BY <1>3, <1>6
  <2>2. PICK g \in heirs : g[1] = q[1] /\ g[3] = grace - q[2]
    BY DEF ApiIInv
  <2>3. Older(g[3]) = grace - (q[2] - 1)
    BY <1>2, <2>2, ApiKeysAssumption
  <2>4. <<g[1], g[2], Older(g[3])>> \in heirs'
    BY <1>3
  <2> QED
    BY <2>1, <2>2, <2>3, <2>4
<1> QED
  BY <1>4, <1>5, <1>6 DEF ApiIInv, HeirsExpireTogether

LEMMA ApiStepKeeps ==
  ASSUME ApiIInv, [ApiKeysNext]_apiVars
  PROVE  ApiIInv'
<1>1. ASSUME NEW k \in DOMAIN apiKeys, revokeKey(k) \/ enableKey(k) \/ setPermissions(k)
      PROVE  ApiIInv'
  <2>1. apiKeys[k] \in ApiKey
    BY DEF ApiIInv, ApiKeysTypeOK
  <2>2. \E key \in ApiKey : key.left = apiKeys[k].left /\ Changed(k, key)
    BY <1>1, <2>1 DEF revokeKey, enableKey, setPermissions, ApiKey
  <2> QED
    BY <2>2, ApiChangeKeeps
<1>2. CASE UNCHANGED apiVars
  BY <1>2 DEF ApiIInv, ApiKeysTypeOK, HeirsExpireTogether, apiVars
<1> QED
  BY <1>1, <1>2, ApiGenerateKeeps, ApiRotateKeeps, ApiRemoveKeeps, ApiTickKeeps DEF ApiKeysNext

LEMMA ApiInvariance == ApiKeysSpec => []ApiIInv
BY ApiInitIInv, ApiStepKeeps, PTL DEF ApiKeysSpec

\* What a step does to a key that works.
LEMMA ApiStopsInTime ==
  ASSUME ApiIInv, ApiKeysNext, NEW k \in DOMAIN apiKeys, validateKey(k), ~validateKey(k)'
  PROVE  \/ k \in DOMAIN apiKeys' /\ (~apiKeys'[k].isActive \/ apiKeys'[k].left = 0)
         \/ \E h \in heirs : h[1] = k /\ h[3] = grace
<1>1. CASE k \in DOMAIN apiKeys'
  BY <1>1 DEF validateKey, ExpiredKey
<1>2. CASE k \notin DOMAIN apiKeys'
  <2>1. RemoveRotated(k)
    BY <1>2 DEF ApiKeysNext, generateKey, rotateApiKey, WithNew, revokeKey, enableKey,
                setPermissions, Changed, RemoveRotated, ApiTick
  <2>2. <<k, 0>> \in removals
    BY <2>1 DEF RemoveRotated
  <2> QED
    BY <2>2, ApiKeysAssumption DEF ApiIInv
<1> QED
  BY <1>1, <1>2

-----------------------------------------------------------------------------
(* Encryption keys.  Overlapping rotations are ordered, those that repeat  *)
(* the active version come first, and nothing has been sealed with it yet; *)
(* a version that was replaced keeps its key until its grace period ends.  *)
KeysIInv ==
  /\ active \in Nat \ {0} /\ generated \in Nat /\ clock \in Nat
  /\ rotating \in Seq(Nat)
  /\ DOMAIN keys = {v \in 1 .. active : v > active - maxVersions}
  /\ \A v \in DOMAIN keys : keys[v] \in [key : Nat, expiresAt : Nat]
  /\ \A i \in DOMAIN rotating : rotating[i] \in {active, active + 1}
  /\ \A i, j \in DOMAIN rotating : i < j => rotating[i] <= rotating[j]
  /\ DOMAIN retired = 1 .. active - 1
  /\ \A v \in DOMAIN retired : retired[v] \in Nat
  /\ \A s \in sealed :
       /\ s.version \in 1 .. active
       /\ s.version \in DOMAIN keys => keys[s.version].key = s.key
       /\ \A i \in DOMAIN rotating : rotating[i] # s.version
  /\ \A v \in DOMAIN retired \cap DOMAIN keys : keys[v].expiresAt = retired[v] + gracePeriod

LEMMA KeysInitIInv == KeysInit => KeysIInv
BY KeyRotationAssumption DEF KeysInit, KeysIInv

\* Of an unbroken range of versions, the cleanup keeps the last maxVersions.
LEMMA KeptOfRange ==
  ASSUME NEW lo \in Nat, NEW hi \in Nat, lo \in 1 .. hi
  PROVE  Kept(lo .. hi) = {v \in lo .. hi : v > hi - maxVersions}
<1>1. ASSUME NEW v \in lo .. hi
      PROVE  Cardinality({w \in lo .. hi : w > v}) = hi - v
  <2>1. {w \in lo .. hi : w > v} = (v + 1) .. hi
    OBVIOUS
  <2>2. Cardinality((v + 1) .. hi) = IF v + 1 > hi THEN 0 ELSE hi - (v + 1) + 1
    BY FS_Interval
  <2>3. (IF v + 1 > hi THEN 0 ELSE hi - (v + 1) + 1) = hi - v
    OBVIOUS
  <2> QED
    BY <2>1, <2>2, <2>3
<1>2. ASSUME NEW v \in lo .. hi
      PROVE  Cardinality({w \in lo .. hi : w > v}) < maxVersions <=> v > hi - maxVersions
  BY <1>1, KeyRotationAssumption
<1> QED
  BY <1>2 DEF Kept

LEMMA KeysRotatedKeeps ==
  ASSUME KeysIInv, Rotated
  PROVE  KeysIInv'
<1> DEFINE new == Head(rotating)
           stored == [v \in DOMAIN keys \cup {new} |->
                        IF v = new THEN [key |-> generated + 1, expiresAt |-> clock + gracePeriod]
                        ELSE keys[v]]
           marked == [stored EXCEPT ![active] = Expiring(active, @)]
<1>1. /\ rotating # <<>> /\ active \in Nat \ {0} /\ generated \in Nat /\ clock \in Nat
      /\ gracePeriod \in Nat /\ maxVersions \in Nat \ {0}
      /\ new \in {active, active + 1} /\ active \in DOMAIN keys
      /\ \A i \in DOMAIN rotating : rotating[i] >= new
      /\ new = rotating[1]
  <2>1. /\ rotating # <<>> /\ active \in Nat \ {0} /\ generated \in Nat /\ clock \in Nat
        /\ gracePeriod \in Nat /\ maxVersions \in Nat \ {0} /\ rotating \in Seq(Nat)
    BY KeyRotationAssumption DEF Rotated, KeysIInv
  <2>2. /\ Len(rotating) \in Nat \ {0} /\ DOMAIN rotating = 1 .. Len(rotating)
        /\ new = rotating[1]
    BY <2>1
  <2>3. 1 \in DOMAIN rotating /\ \A i \in DOMAIN rotating : i # 1 => 1 < i
    BY <2>2
  <2>4. new \in {active, active + 1} /\ new \in Nat
    BY <2>1, <2>2, <2>3 DEF KeysIInv
  <2>5. \A i \in DOMAIN rotating : rotating[i] >= new
    BY <2>2, <2>3, <2>4 DEF KeysIInv
  <2>6. active \in DOMAIN keys
    BY <2>1 DEF KeysIInv
  <2> QED
    BY <2>1, <2>2, <2>4, <2>5, <2>6
<1>2. /\ keys' = [v \in Kept(DOMAIN marked) |-> marked[v]]
      /\ active' = new
      /\ retired' = IF new = active THEN retired
                    ELSE [v \in DOMAIN retired \cup {active} |->
                            IF v = active THEN clock ELSE retired[v]]
      /\ generated' = generated + 1 /\ rotating' = Tail(rotating)
      /\ clock' = clock /\ sealed' = sealed
  BY DEF Rotated
<1>3. DOMAIN keys' = {v \in 1 .. new : v > new - maxVersions} /\ DOMAIN keys' \subseteq DOMAIN keys \cup {new}
  <2>1. PICK lo \in Nat : /\ lo \in 1 .. active /\ DOMAIN keys = lo .. active
                          /\ lo <= active - maxVersions + 1 \/ lo = 1
    <3>1. CASE active - maxVersions + 1 >= 1
      <4>1. DOMAIN keys = (active - maxVersions + 1) .. active
        BY <1>1, <3>1 DEF KeysIInv
      <4> QED
        BY <1>1, <3>1, <4>1
    <3>2. CASE ~(active - maxVersions + 1 >= 1)
      <4>1. DOMAIN keys = 1 .. active
        BY <1>1, <3>2 DEF KeysIInv
      <4> QED
        BY <1>1, <3>2, <4>1
    <3> QED
      BY <3>1, <3>2
  <2>2. lo \in 1 .. new /\ DOMAIN marked = lo .. new
    BY <1>1, <2>1
  <2>3. DOMAIN keys' = {v \in lo .. new : v > new - maxVersions}
    <3>1. Kept(lo .. new) = {v \in lo .. new : v > new - maxVersions}
      BY <1>1, <2>1, <2>2, KeptOfRange
    <3> HIDE DEF marked, new
    <3> QED
      BY <1>2, <2>2, <3>1
  <2>4. \A v \in 1 .. new : v > new - maxVersions => v >= lo
    BY <1>1, <2>1, <2>2
  <2> QED
    BY <1>1, <2>1, <2>2, <2>3, <2>4
<1>4. \A v \in DOMAIN keys' : keys'[v] = marked[v] /\ v \in DOMAIN stored
  BY <1>2, <1>3
<1>5. ASSUME NEW v \in DOMAIN keys'
      PROVE  /\ keys'[v] \in [key : Nat, expiresAt : Nat]
             /\ v # new => keys'[v].key = keys[v].key
             /\ v = active => keys'[v].expiresAt = clock + gracePeriod
             /\ v \notin {new, active} => keys'[v] = keys[v]
  <2>1. stored[v] \in [key : Nat, expiresAt : Nat]
    <3>1. CASE v = new
      <4>1. stored[v] = [key |-> generated + 1, expiresAt |-> clock + gracePeriod]
        BY <1>4, <3>1
      <4> QED
        BY <1>1, <4>1
    <3>2. CASE v # new
      BY <1>4, <3>2 DEF KeysIInv
    <3> QED
      BY <3>1, <3>2
  <2>2. v # new => stored[v] = keys[v]
    BY <1>4
  <2>3. CASE v = active
    <3>1. marked[v] = [stored[v] EXCEPT !.expiresAt = clock + gracePeriod]
      BY <1>4, <2>3 DEF Expiring
    <3>2. /\ keys'[v].key = stored[v].key /\ keys'[v].expiresAt = clock + gracePeriod
          /\ keys'[v] \in [key : Nat, expiresAt : Nat]
      <4> HIDE DEF stored, marked
      <4> QED
        BY <1>1, <1>4, <2>1, <3>1
    <3> HIDE DEF stored, marked, new
    <3> QED
      BY <2>2, <2>3, <3>2
  <2>4. CASE v # active
    BY <1>4, <2>1, <2>2, <2>4
  <2> QED
    BY <2>3, <2>4
<1>6. /\ rotating' \in Seq(Nat)
      /\ \A i \in DOMAIN rotating' : i + 1 \in DOMAIN rotating /\ rotating'[i] = rotating[i + 1]
  BY <1>1, <1>2 DEF KeysIInv
<1>7. /\ \A i \in DOMAIN rotating' : rotating'[i] \in {new, new + 1}
      /\ \A i, j \in DOMAIN rotating' : i < j => rotating'[i] <= rotating'[j]
  <2>1. \A i \in DOMAIN rotating' : rotating'[i] >= new /\ rotating'[i] \in {active, active + 1}
    BY <1>1, <1>6 DEF KeysIInv
  <2>2. \A i, j \in DOMAIN rotating' : i < j => rotating'[i] <= rotating'[j]
    BY <1>6 DEF KeysIInv
  <2> QED
    BY <1>1, <2>1, <2>2
<1>8. /\ DOMAIN retired' = 1 .. new - 1
      /\ \A v \in DOMAIN retired' : retired'[v] \in Nat
      /\ new = active => retired' = retired
      /\ new # active => retired'[active] = clock
                         /\ \A v \in DOMAIN retired : retired'[v] = retired[v]
  <2>1. CASE new = active
    BY <1>2, <2>1 DEF KeysIInv
  <2>2. CASE new = active + 1
    <3>1. /\ DOMAIN retired = 1 .. active - 1 /\ active \notin DOMAIN retired
          /\ DOMAIN retired \cup {active} = 1 .. new - 1
          /\ new # active
      BY <1>1, <2>2 DEF KeysIInv
    <3>2. retired' = [v \in DOMAIN retired \cup {active} |-> IF v = active THEN clock ELSE retired[v]]
      BY <1>2, <3>1
    <3> HIDE DEF new
    <3> QED
      BY <1>1, <3>1, <3>2 DEF KeysIInv
  <2> QED
    BY <1>1, <2>1, <2>2
<1>9. ASSUME NEW s \in sealed'
      PROVE  /\ s.version \in 1 .. new
             /\ s.version \in DOMAIN keys' => keys'[s.version].key = s.key
             /\ \A i \in DOMAIN rotating' : rotating'[i] # s.version
  <2>1. /\ s.version \in 1 .. active /\ s.version # new
        /\ s.version \in DOMAIN keys => keys[s.version].key = s.key
        /\ \A i \in DOMAIN rotating : rotating[i] # s.version
    BY <1>1, <1>2, <1>9 DEF KeysIInv
  <2> QED
    BY <1>1, <1>3, <1>5, <1>6, <2>1
<1>10. ASSUME NEW v \in DOMAIN retired' \cap DOMAIN keys'
       PROVE  keys'[v].expiresAt = retired'[v] + gracePeriod
  <2>1. v # new /\ v \in DOMAIN keys
    BY <1>1, <1>3, <1>8
  <2>2. CASE v = active
    BY <1>5, <1>8, <2>1, <2>2
  <2>3. CASE v # active
    <3>1. v \in DOMAIN retired /\ retired'[v] = retired[v] /\ keys'[v] = keys[v]
      BY <1>1, <1>5, <1>8, <2>1, <2>3 DEF KeysIInv
    <3> QED
      BY <2>1, <3>1 DEF KeysIInv
  <2> QED
    BY <2>2, <2>3
<1>11. active' \in Nat \ {0} /\ generated' \in Nat /\ clock' \in Nat /\ active' = new
  BY <1>1, <1>2
<1> HIDE DEF new, stored, marked
<1> QED
  BY <1>3, <1>5, <1>6, <1>7, <1>8, <1>9, <1>10, <1>11 DEF KeysIInv

LEMMA KeysRestKeeps ==
  ASSUME KeysIInv, rotateKey \/ getActiveKey \/ KeyTick \/ UNCHANGED keyVars
  PROVE  KeysIInv'
<1>1. CASE rotateKey
  <2>1. /\ active' = active /\ keys' = keys /\ generated' = generated /\ clock' = clock
        /\ sealed' = sealed /\ retired' = retired /\ active \in Nat
    BY <1>1 DEF rotateKey, KeysIInv
  <2>2. /\ rotating' \in Seq(Nat)
        /\ DOMAIN rotating' = 1 .. Len(rotating) + 1
        /\ \A i \in DOMAIN rotating : rotating'[i] = rotating[i]
        /\ rotating'[Len(rotating) + 1] = active + 1
        /\ DOMAIN rotating = 1 .. Len(rotating) /\ Len(rotating) \in Nat
    BY <1>1, <2>1 DEF rotateKey, KeysIInv
  <2>3. \A i \in DOMAIN rotating' : rotating'[i] \in {active, active + 1}
    <3>1. ASSUME NEW i \in DOMAIN rotating'
          PROVE  rotating'[i] \in {active, active + 1}
      <4>1. CASE i \in DOMAIN rotating
        BY <2>2, <4>1 DEF KeysIInv
      <4>2. CASE i = Len(rotating) + 1
        BY <2>2, <4>2
      <4> QED
        BY <2>2, <4>1, <4>2
    <3> QED
      BY <3>1
  <2>4. \A i, j \in DOMAIN rotating' : i < j => rotating'[i] <= rotating'[j]
    <3>1. ASSUME NEW i \in DOMAIN rotating', NEW j \in DOMAIN rotating', i < j
          PROVE  rotating'[i] <= rotating'[j]
      <4>1. CASE j \in DOMAIN rotating
        <5>1. i \in DOMAIN rotating
          BY <2>2, <3>1, <4>1
        <5> QED
          BY <2>2, <3>1, <4>1, <5>1 DEF KeysIInv
      <4>2. CASE j = Len(rotating) + 1
        BY <2>1, <2>2, <2>3, <4>2
      <4> QED
        BY <2>2, <4>1, <4>2
    <3> QED
      BY <3>1
  <2>5. \A s \in sealed : \A i \in DOMAIN rotating' : rotating'[i] # s.version
    <3>1. \A s \in sealed : s.version # active + 1
      BY <2>1 DEF KeysIInv
    <3>2. ASSUME NEW i \in DOMAIN rotating', NEW s \in sealed
          PROVE  rotating'[i] # s.version
      <4>1. CASE i \in DOMAIN rotating
        BY <2>2, <4>1 DEF KeysIInv
      <4>2. CASE i = Len(rotating) + 1
        BY <2>2, <3>1, <4>2
      <4> QED
        BY <2>2, <4>1, <4>2
    <3> QED
      BY <3>2
  <2> QED
    BY <2>1, <2>2, <2>3, <2>4, <2>5 DEF KeysIInv
<1>2. CASE getActiveKey
  <2>1. /\ active' = active /\ keys' = keys /\ generated' = generated /\ clock' = clock
        /\ rotating' = rotating /\ retired' = retired
        /\ sealed' = sealed \cup {[version |-> active, key |-> keys[active].key]}
    BY <1>2 DEF getActiveKey
  <2>2. \A i \in DOMAIN rotating : rotating[i] # active
    BY <1>2 DEF getActiveKey, KeysIInv
  <2>3. active \in 1 .. active
    BY DEF KeysIInv
  <2> QED
    BY <2>1, <2>2, <2>3 DEF KeysIInv
<1>3. CASE KeyTick
  BY <1>3 DEF KeysIInv, KeyTick
<1>4. CASE UNCHANGED keyVars
  BY <1>4 DEF KeysIInv, keyVars
<1> QED
  BY <1>1, <1>2, <1>3, <1>4

LEMMA KeysInvariance == KeysSpec => []KeysIInv
<1>1. KeysIInv /\ [KeysNext]_keyVars => KeysIInv'
  BY KeysRotatedKeeps, KeysRestKeeps DEF KeysNext
<1> QED
  BY <1>1, KeysInitIInv, PTL DEF KeysSpec

(* A key that has been replaced works during its grace period and no       *)
(* longer, and keys that replace each other expire together                *)
(* (key-rotation.js, api-key-manager.js).                                  *)
THEOREM KeysReplacedHolds == KeysSpec /\ ApiKeysSpec => KeysReplaced
<1>1. KeysIInv => GracefulTransition
  <2> SUFFICES ASSUME KeysIInv, NEW s \in sealed,
                      s.version \in DOMAIN retired, s.version > active - maxVersions,
                      clock <= retired[s.version] + gracePeriod
               PROVE  getKey(s.version) /\ keys[s.version].key = s.key
    BY DEF GracefulTransition
  <2>1. s.version \in DOMAIN keys
    BY DEF KeysIInv
  <2> QED
    BY <2>1 DEF KeysIInv, getKey
<1>2. ApiIInv => HeirsExpireTogether /\ \A h \in heirs : h[3] > grace => h[1] \notin DOMAIN apiKeys
  BY DEF ApiIInv
<1>3. ApiIInv /\ [ApiKeysNext]_apiVars =>
        [\A k \in DOMAIN apiKeys : (validateKey(k) /\ ~validateKey(k)') =>
          \/ k \in DOMAIN apiKeys' /\ (~apiKeys'[k].isActive \/ apiKeys'[k].left = 0)
          \/ \E h \in heirs : h[1] = k /\ h[3] = grace]_apiVars
  BY ApiStopsInTime
<1> QED
  BY <1>1, <1>2, <1>3, KeysInvariance, ApiInvariance, PTL
     DEF KeysReplaced, RotationGraceful, ApiKeysSpec

-----------------------------------------------------------------------------
(* Log rotation.  A task that is going to empty the log finds nothing in   *)
(* it that is not exposed; the compressed file is new when its making      *)
(* begins, and has the lines of the original before that is removed.  This *)
(* needs that tasks past the renaming have different names, which is what  *)
(* names that collide break.                                               *)
LogNames == RotatedNames \cup {TheLog}
Past == {"create", "pack", "packing", "unlink"}

LogTypes ==
  /\ DOMAIN disk = LogNames
  /\ \A n \in LogNames : disk[n].exists \in BOOLEAN
  /\ logNow \in 0 .. MaxLogTime /\ lastLine \in Nat
  /\ DOMAIN rotator = Rotators
  /\ \A r \in Rotators :
       /\ DOMAIN rotator[r] = {"at", "stamp", "mtime", "daily", "todo"}
       /\ rotator[r].stamp \in 0 .. MaxLogTime
  /\ stream \in {TheLog, Nowhere} \cup {Raw(t) : t \in 0 .. MaxLogTime}
  /\ stream = TheLog => On(TheLog)

TaskSafe(r) ==
  LET at == rotator[r].at
      raw == Raw(rotator[r].stamp)
      gz == Gz(rotator[r].stamp)
  IN  /\ at \in {"create", "recreate"} =>
           stream # TheLog /\ (On(TheLog) => disk[TheLog].lines \subseteq exposed)
      /\ at \in {"create", "pack"} => ~On(gz)
      /\ at \in {"pack", "packing", "unlink"} => settings.compress
      /\ at = "packing" =>
           /\ On(gz) => disk[gz].lines = {}
           /\ On(raw) => On(gz) \/ disk[raw].lines \subseteq cleaned \cup exposed
      /\ at = "unlink" /\ On(raw) =>
           disk[raw].lines \subseteq (IF On(gz) THEN disk[gz].lines ELSE {}) \cup cleaned \cup exposed
      /\ at \in Past => \A o \in Rotators \ {r} :
           rotator[o].at \in Past => rotator[o].stamp # rotator[r].stamp

LogIInv == LogTypes /\ (\A r \in Rotators : TaskSafe(r)) /\ LinesSurvive

\* Where a line is, and the names of files, in the form the steps use.
LEMMA OnDiskIs ==
  ASSUME DOMAIN disk = LogNames, NEW k
  PROVE  k \in OnDisk <=> \E n \in LogNames : On(n) /\ k \in disk[n].lines
BY DEF OnDisk

LEMMA NamesDiffer ==
  /\ TheLog \in LogNames /\ Nowhere \notin LogNames
  /\ \A t \in 0 .. MaxLogTime :
       /\ Raw(t) \in LogNames /\ Gz(t) \in LogNames
       /\ Raw(t) # TheLog /\ Gz(t) # TheLog
       /\ \A u \in 0 .. MaxLogTime :
            /\ Raw(t) # Gz(u)
            /\ Raw(t) = Raw(u) => t = u
            /\ Gz(t) = Gz(u) => t = u
BY DEF LogNames, RotatedNames, TheLog, Nowhere, Raw, Gz

LEMMA LogInitIInv == LogInit => LogIInv
<1> SUFFICES ASSUME LogInit PROVE LogIInv
  OBVIOUS
<1>1. LogTypes
  <2>1. \A n \in LogNames : disk[n].exists \in BOOLEAN
    BY DEF LogInit, LogNames, File, NoFile
  <2>2. DOMAIN disk = LogNames /\ On(TheLog)
    BY DEF LogInit, LogNames, On, File
  <2>3. /\ logNow \in 0 .. MaxLogTime /\ lastLine \in Nat /\ stream = TheLog
        /\ DOMAIN rotator = Rotators
        /\ \A r \in Rotators : rotator[r] = NoTask
    BY LogAssumption DEF LogInit
  <2>4. DOMAIN NoTask = {"at", "stamp", "mtime", "daily", "todo"} /\ NoTask.stamp \in 0 .. MaxLogTime
    BY LogAssumption DEF NoTask, TaskAt
  <2> QED
    BY <2>1, <2>2, <2>3, <2>4 DEF LogTypes
<1>2. \A r \in Rotators : TaskSafe(r)
  BY DEF LogInit, TaskSafe, NoTask, TaskAt, Past
<1>3. LinesSurvive
  BY DEF LogInit, LinesSurvive
<1> QED
  BY <1>1, <1>2, <1>3 DEF LogIInv

\* Steps of one task that leave the disk, the stream and the lines alone and
\* do not go where a promise has to be kept.
LEMMA LogQuietKeeps ==
  ASSUME LogIInv, NEW r \in Rotators,
         DOMAIN rotator' = Rotators,
         \A o \in Rotators \ {r} : rotator'[o] = rotator[o],
         DOMAIN rotator'[r] = {"at", "stamp", "mtime", "daily", "todo"},
         rotator'[r].stamp \in 0 .. MaxLogTime,
         rotator'[r].at \notin Past,
         rotator'[r].at = "recreate" => ~On(TheLog),
         UNCHANGED <<disk, stream, logNow, lastLine, settings, cleaned, exposed>>
  PROVE  LogIInv'
<1>1. LogTypes'
  BY DEF LogIInv, LogTypes, On
<1>2. TaskSafe(r)'
  BY DEF LogIInv, LogTypes, TaskSafe, On, Past
<1>3. ASSUME NEW o \in Rotators \ {r}
      PROVE  TaskSafe(o)'
  BY DEF LogIInv, TaskSafe, On, Past
<1>4. LinesSurvive'
  BY DEF LogIInv, LinesSurvive, OnDisk, On
<1> QED
  BY <1>1, <1>2, <1>3, <1>4 DEF LogIInv

LEMMA LogStartsKeeps ==
  ASSUME LogIInv, NEW r \in Rotators,
         NEW at \in {"rename", "daily", "recreate", "idle", "list"},
         NEW stamp \in 0 .. MaxLogTime, NEW mtime, NEW daily,
         at = "recreate" => ~On(TheLog),
         Starts(r, TaskAt(at, stamp, mtime, daily))
  PROVE  LogIInv'
<1> DEFINE task == TaskAt(at, stamp, mtime, daily)
<1>1. /\ rotator' = [rotator EXCEPT ![r] = task]
      /\ UNCHANGED <<disk, stream, logNow, lastLine, settings, cleaned, exposed>>
  BY DEF Starts, ghostVars
<1>2. /\ DOMAIN task = {"at", "stamp", "mtime", "daily", "todo"} /\ task.stamp = stamp
      /\ task.at = at /\ at \notin Past
  BY DEF Past, TaskAt
<1>3. DOMAIN rotator = Rotators
  BY DEF LogIInv, LogTypes
<1>4. /\ DOMAIN rotator' = Rotators /\ rotator'[r] = task
      /\ \A o \in Rotators \ {r} : rotator'[o] = rotator[o]
  <2> HIDE DEF task
  <2> QED
    BY <1>1, <1>3
<1> HIDE DEF task
<1> QED
  BY <1>1, <1>2, <1>4, LogQuietKeeps

LEMMA LogStartKeeps ==
  ASSUME LogIInv, NEW r \in Rotators,
         rotateFile(r) \/ _checkFile(r) \/ _checkDate(r) \/ cleanupLogs(r)
  PROVE  LogIInv'
<1>1. 0 \in 0 .. MaxLogTime /\ logNow \in 0 .. MaxLogTime
  BY LogAssumption DEF LogIInv, LogTypes
<1>2. \/ Starts(r, TaskAt("rename", logNow, 0, FALSE))
      \/ Starts(r, TaskAt("rename", logNow, disk[TheLog].mtime, TRUE))
      \/ Starts(r, TaskAt("daily", 0, disk[TheLog].mtime, FALSE))
      \/ ~On(TheLog) /\ Starts(r, TaskAt("recreate", 0, 0, FALSE))
      \/ Starts(r, TaskAt("idle", 0, 0, FALSE))
      \/ Starts(r, TaskAt("list", 0, 0, FALSE))
  <2>1. CASE rotateFile(r)
    BY <2>1 DEF rotateFile, NoTask
  <2>2. CASE _checkFile(r)
    BY <2>2 DEF _checkFile, NoTask
  <2>3. CASE _checkDate(r)
    BY <2>3 DEF _checkDate, NoTask
  <2>4. CASE cleanupLogs(r)
    BY <2>4 DEF cleanupLogs, NoTask
  <2> QED
    BY <2>1, <2>2, <2>3, <2>4
<1>3. ASSUME NEW mtime, NEW daily, Starts(r, TaskAt("rename", logNow, mtime, daily))
      PROVE  LogIInv'
  BY <1>1, <1>3, LogStartsKeeps
<1>4. ASSUME NEW mtime, Starts(r, TaskAt("daily", 0, mtime, FALSE))
      PROVE  LogIInv'
  BY <1>1, <1>4, LogStartsKeeps
<1>5. ASSUME ~On(TheLog), Starts(r, TaskAt("recreate", 0, 0, FALSE))
      PROVE  LogIInv'
  BY <1>1, <1>5, LogStartsKeeps
<1>6. ASSUME Starts(r, TaskAt("idle", 0, 0, FALSE)) \/ Starts(r, TaskAt("list", 0, 0, FALSE))
      PROVE  LogIInv'
  BY <1>1, <1>6, LogStartsKeeps
<1> QED
  BY <1>2, <1>3, <1>4, <1>5, <1>6

LEMMA GoesIs ==
  ASSUME LogTypes, NEW r \in Rotators, NEW at, Goes(r, at)
  PROVE  /\ DOMAIN rotator' = Rotators
         /\ \A o \in Rotators \ {r} : rotator'[o] = rotator[o]
         /\ DOMAIN rotator'[r] = {"at", "stamp", "mtime", "daily", "todo"}
         /\ rotator'[r].at = at /\ rotator'[r].stamp = rotator[r].stamp
         /\ \A o \in Rotators : /\ DOMAIN rotator'[o] = {"at", "stamp", "mtime", "daily", "todo"}
                                /\ rotator'[o].stamp \in 0 .. MaxLogTime
BY DEF LogTypes, Goes

\* A file that gets new contents, or none.
LEMMA DiskIs ==
  ASSUME LogTypes, NEW name, NEW file, disk' = [disk EXCEPT ![name] = file],
         file.exists \in BOOLEAN
  PROVE  /\ DOMAIN disk' = LogNames
         /\ \A n \in LogNames : disk'[n].exists \in BOOLEAN
         /\ \A n \in LogNames \ {name} : disk'[n] = disk[n]
         /\ name \in LogNames => disk'[name] = file
BY DEF LogTypes

LEMMA LogRenameKeeps ==
  ASSUME LogIInv, ~MayCollide, NEW r \in Rotators, RenameLog(r)
  PROVE  LogIInv'
<1> DEFINE stamp == rotator[r].stamp
           to == Raw(stamp)
<1>1. /\ LogTypes /\ stamp \in 0 .. MaxLogTime /\ Unused(r) /\ rotator[r].at = "rename"
      /\ UNCHANGED <<cleaned, logNow, lastLine, settings, exposed>>
  BY DEF LogIInv, LogTypes, RenameLog, RestStays
<1>2. CASE ~On(TheLog)
  <2>1. Goes(r, "recreate") /\ UNCHANGED <<disk, stream>>
    BY <1>2 DEF RenameLog
  <2>2. "recreate" \notin Past
    BY DEF Past
  <2>3. /\ DOMAIN rotator' = Rotators
        /\ \A o \in Rotators \ {r} : rotator'[o] = rotator[o]
        /\ DOMAIN rotator'[r] = {"at", "stamp", "mtime", "daily", "todo"}
        /\ rotator'[r].at = "recreate" /\ rotator'[r].stamp = stamp
    BY <1>1, <2>1, GoesIs
  <2>4. UNCHANGED <<disk, stream, logNow, lastLine, settings, cleaned, exposed>>
    BY <1>1, <2>1
  <2> HIDE DEF stamp
  <2> QED
    BY <1>1, <1>2, <2>2, <2>3, <2>4, LogQuietKeeps
<1>3. CASE On(TheLog)
  <2>1. /\ disk' = [disk EXCEPT ![to] = disk[TheLog], ![TheLog] = NoFile]
        /\ stream' = IF stream = TheLog THEN to ELSE IF stream = to THEN Nowhere ELSE stream
        /\ Goes(r, "create")
    BY <1>3 DEF RenameLog
  <2>2. /\ to \in LogNames /\ TheLog \in LogNames /\ to # TheLog /\ Gz(stamp) # TheLog /\ Gz(stamp) # to
        /\ Gz(stamp) \in LogNames
    BY <1>1, NamesDiffer
  <2>3. /\ DOMAIN disk' = LogNames
        /\ disk'[to] = disk[TheLog] /\ disk'[TheLog] = NoFile
        /\ \A n \in LogNames \ {to, TheLog} : disk'[n] = disk[n]
    <3>1. DOMAIN disk = LogNames
      BY <1>1 DEF LogTypes
    <3> DEFINE moved == [disk EXCEPT ![to] = disk[TheLog]]
    <3>2. disk' = [moved EXCEPT ![TheLog] = NoFile]
      BY <2>1
    <3> HIDE DEF to
    <3>3. /\ DOMAIN moved = LogNames /\ moved[to] = disk[TheLog]
          /\ \A n \in LogNames \ {to} : moved[n] = disk[n]
      BY <2>2, <3>1
    <3> HIDE DEF moved
    <3> QED
      BY <2>2, <3>2, <3>3
  <2>4. ASSUME NEW n \in LogNames
        PROVE  disk'[n].exists \in BOOLEAN
    <3>1. disk[n].exists \in BOOLEAN /\ disk[TheLog].exists \in BOOLEAN /\ NoFile.exists \in BOOLEAN
      BY <1>1, <2>2 DEF LogTypes, NoFile
    <3> HIDE DEF to
    <3> QED
      BY <2>3, <3>1
  <2>5. ~disk[to].exists /\ ~disk[Gz(stamp)].exists /\ ~disk'[TheLog].exists
    BY <1>1, <2>3 DEF Unused, On, NoFile
  <2>6. LogTypes'
    <3>1. stream' # TheLog /\ stream' \in {TheLog, Nowhere} \cup {Raw(t) : t \in 0 .. MaxLogTime}
      BY <1>1, <2>1, <2>2, NamesDiffer DEF LogTypes
    <3> QED
      BY <1>1, <2>1, <2>3, <2>4, <3>1, GoesIs DEF LogTypes
  <2>7. \A o \in Rotators \ {r} : rotator'[o] = rotator[o]
    BY <1>1, <2>1, GoesIs
  <2>8. rotator'[r].at = "create" /\ rotator'[r].stamp = stamp
    BY <1>1, <2>1, GoesIs
  <2>9. \A o \in Rotators \ {r} : rotator[o].at \in Past => rotator[o].stamp # stamp
    BY <1>1 DEF Unused, Rotating, Past
  <2>10. stream' # TheLog
    BY <2>1, <2>2, NamesDiffer
  <2>11. TaskSafe(r)'
    BY <2>2, <2>3, <2>5, <2>7, <2>8, <2>9, <2>10 DEF TaskSafe, On, Past
  <2>12. ASSUME NEW o \in Rotators \ {r}
         PROVE  TaskSafe(o)'
    <3> DEFINE raw == Raw(rotator[o].stamp)
               gz == Gz(rotator[o].stamp)
    <3>1. TaskSafe(o) /\ rotator[o].stamp \in 0 .. MaxLogTime
      BY <1>1 DEF LogIInv, LogTypes
    <3>2. gz \in LogNames /\ raw \in LogNames /\ gz \notin {to, TheLog} /\ raw # TheLog
          /\ (rotator[o].at \in Past => raw # to)
      BY <1>1, <2>9, <3>1, NamesDiffer
    <3>3. disk'[gz] = disk[gz] /\ (rotator[o].at \in Past => disk'[raw] = disk[raw])
      BY <2>3, <3>2
    <3>4. rotator'[o] = rotator[o]
      BY <2>7
    <3>5. \A q \in Rotators \ {o} : rotator[o].at \in Past /\ rotator'[q].at \in Past =>
                                      rotator'[q].stamp # rotator[o].stamp
      BY <2>7, <2>8, <2>9, <3>1 DEF TaskSafe
    <3> HIDE DEF raw, gz, to, stamp
    <3>6. TaskSafe(o)' <=>
            /\ rotator[o].at \in {"create", "recreate"} =>
                 stream' # TheLog /\ (disk'[TheLog].exists => disk'[TheLog].lines \subseteq exposed)
            /\ rotator[o].at \in {"create", "pack"} => ~disk'[gz].exists
            /\ rotator[o].at \in {"pack", "packing", "unlink"} => settings.compress
            /\ rotator[o].at = "packing" =>
                 /\ disk'[gz].exists => disk'[gz].lines = {}
                 /\ disk'[raw].exists => disk'[gz].exists \/ disk'[raw].lines \subseteq cleaned \cup exposed
            /\ rotator[o].at = "unlink" /\ disk'[raw].exists =>
                 disk'[raw].lines \subseteq (IF disk'[gz].exists THEN disk'[gz].lines ELSE {}) \cup cleaned \cup exposed
            /\ rotator[o].at \in Past => \A q \in Rotators \ {o} :
                 rotator'[q].at \in Past => rotator'[q].stamp # rotator[o].stamp
      BY <1>1, <3>4 DEF TaskSafe, On, raw, gz
    <3>7. /\ rotator[o].at \in {"create", "pack"} => ~disk[gz].exists
          /\ rotator[o].at \in {"pack", "packing", "unlink"} => settings.compress
          /\ rotator[o].at = "packing" =>
               /\ disk[gz].exists => disk[gz].lines = {}
               /\ disk[raw].exists => disk[gz].exists \/ disk[raw].lines \subseteq cleaned \cup exposed
          /\ rotator[o].at = "unlink" /\ disk[raw].exists =>
               disk[raw].lines \subseteq (IF disk[gz].exists THEN disk[gz].lines ELSE {}) \cup cleaned \cup exposed
      BY <3>1 DEF TaskSafe, On, raw, gz
    <3> QED
      BY <2>5, <2>10, <3>3, <3>5, <3>6, <3>7 DEF Past
  <2>13. LinesSurvive'
    <3>1. ASSUME NEW k, k \in OnDisk
          PROVE  k \in OnDisk'
      <4>1. PICK n \in LogNames : disk[n].exists /\ k \in disk[n].lines
        BY <1>1, <3>1, OnDiskIs DEF LogTypes, On
      <4>2. n # to
        BY <2>5, <4>1
      <4>3. \E m \in LogNames : disk'[m].exists /\ k \in disk'[m].lines
        BY <2>2, <2>3, <4>1, <4>2
      <4> QED
        BY <2>3, <4>3 DEF OnDisk, On
    <3> QED
      BY <1>1, <3>1 DEF LogIInv, LinesSurvive
  <2> QED
    BY <2>6, <2>11, <2>12, <2>13 DEF LogIInv
<1> QED
  BY <1>2, <1>3

\* What the other tasks were promised stays true when their files stay as
\* they are, but for lines that are exposed.
LEMMA LogOthersSafe ==
  ASSUME LogIInv, NEW o \in Rotators, rotator'[o] = rotator[o],
         settings' = settings, cleaned \subseteq cleaned', exposed \subseteq exposed',
         rotator[o].at \in {"create", "recreate"} =>
           stream' # TheLog /\ (disk'[TheLog].exists => disk'[TheLog].lines \subseteq exposed'),
         rotator[o].at \in Past =>
           /\ disk'[Gz(rotator[o].stamp)] = disk[Gz(rotator[o].stamp)]
           /\ \/ disk'[Raw(rotator[o].stamp)] = disk[Raw(rotator[o].stamp)]
              \/ ~disk'[Raw(rotator[o].stamp)].exists
           /\ \A q \in Rotators \ {o} : rotator'[q].at \in Past => rotator'[q].stamp # rotator[o].stamp
  PROVE  TaskSafe(o)'
<1> DEFINE raw == Raw(rotator[o].stamp)
           gz == Gz(rotator[o].stamp)
<1>1. TaskSafe(o)' <=>
        /\ rotator[o].at \in {"create", "recreate"} =>
             stream' # TheLog /\ (disk'[TheLog].exists => disk'[TheLog].lines \subseteq exposed')
        /\ rotator[o].at \in {"create", "pack"} => ~disk'[gz].exists
        /\ rotator[o].at \in {"pack", "packing", "unlink"} => settings.compress
        /\ rotator[o].at = "packing" =>
             /\ disk'[gz].exists => disk'[gz].lines = {}
             /\ disk'[raw].exists => disk'[gz].exists \/ disk'[raw].lines \subseteq cleaned' \cup exposed'
        /\ rotator[o].at = "unlink" /\ disk'[raw].exists =>
             disk'[raw].lines \subseteq (IF disk'[gz].exists THEN disk'[gz].lines ELSE {}) \cup cleaned' \cup exposed'
        /\ rotator[o].at \in Past => \A q \in Rotators \ {o} :
             rotator'[q].at \in Past => rotator'[q].stamp # rotator[o].stamp
  BY DEF TaskSafe, On, raw, gz
<1>2. /\ rotator[o].at \in {"create", "pack"} => ~disk[gz].exists
      /\ rotator[o].at \in {"pack", "packing", "unlink"} => settings.compress
      /\ rotator[o].at = "packing" =>
           /\ disk[gz].exists => disk[gz].lines = {}
           /\ disk[raw].exists => disk[gz].exists \/ disk[raw].lines \subseteq cleaned \cup exposed
      /\ rotator[o].at = "unlink" /\ disk[raw].exists =>
           disk[raw].lines \subseteq (IF disk[gz].exists THEN disk[gz].lines ELSE {}) \cup cleaned \cup exposed
  BY DEF LogIInv, TaskSafe, On, raw, gz
<1> HIDE DEF raw, gz
<1> QED
  BY <1>1, <1>2 DEF Past, raw, gz

LEMMA LogCreateKeeps ==
  ASSUME LogIInv, NEW r \in Rotators, CreateLog(r)
  PROVE  LogIInv'
<1> DEFINE next == IF rotator[r].at = "recreate" THEN (IF rotator[r].daily THEN "daily" ELSE "idle")
                   ELSE IF settings.compress THEN "pack" ELSE "list"
<1>1. /\ LogTypes /\ rotator[r].at \in {"create", "recreate"}
      /\ disk' = [disk EXCEPT ![TheLog] = File({}, logNow)] /\ Goes(r, next)
      /\ UNCHANGED <<stream, cleaned, logNow, lastLine, settings, exposed>>
  BY DEF LogIInv, CreateLog, RestStays
<1>2. /\ File({}, logNow).exists /\ File({}, logNow).lines = {}
  BY DEF File
<1>3. /\ DOMAIN disk' = LogNames
      /\ \A n \in LogNames : disk'[n].exists \in BOOLEAN
      /\ \A n \in LogNames \ {TheLog} : disk'[n] = disk[n]
      /\ disk'[TheLog].exists /\ disk'[TheLog].lines = {}
  BY <1>1, <1>2, DiskIs, NamesDiffer
<1>4. /\ DOMAIN rotator' = Rotators
      /\ \A o \in Rotators \ {r} : rotator'[o] = rotator[o]
      /\ rotator'[r].at = next /\ rotator'[r].stamp = rotator[r].stamp
      /\ \A o \in Rotators : /\ DOMAIN rotator'[o] = {"at", "stamp", "mtime", "daily", "todo"}
                             /\ rotator'[o].stamp \in 0 .. MaxLogTime
  BY <1>1, GoesIs
<1>5. LogTypes'
  BY <1>1, <1>3, <1>4 DEF LogTypes, On
<1>6. TaskSafe(r) /\ stream # TheLog /\ (disk[TheLog].exists => disk[TheLog].lines \subseteq exposed)
  BY <1>1 DEF LogIInv, TaskSafe, On
<1>7. \A o \in Rotators : /\ Gz(rotator[o].stamp) \in LogNames \ {TheLog}
                          /\ Raw(rotator[o].stamp) \in LogNames \ {TheLog}
  BY <1>1, NamesDiffer DEF LogTypes
<1>8. next \notin {"create", "recreate", "packing", "unlink"}
      /\ (next = "pack" => settings.compress /\ rotator[r].at = "create")
  BY <1>1
<1>9. ASSUME NEW o \in Rotators \ {r}, rotator[o].at \in Past
      PROVE  \A q \in Rotators \ {o} : rotator'[q].at \in Past => rotator'[q].stamp # rotator[o].stamp
  BY <1>4, <1>8, <1>9 DEF LogIInv, TaskSafe, Past
<1>10. ASSUME NEW o \in Rotators \ {r}
       PROVE  TaskSafe(o)'
  BY <1>1, <1>3, <1>4, <1>6, <1>7, <1>9, LogOthersSafe
<1>11. TaskSafe(r)'
  <2>1. ASSUME next = "pack"
        PROVE  /\ ~disk[Gz(rotator[r].stamp)].exists
               /\ \A o \in Rotators \ {r} : rotator[o].at \in Past => rotator[o].stamp # rotator[r].stamp
    BY <1>6, <1>8, <2>1 DEF TaskSafe, On, Past
  <2> HIDE DEF next
  <2> QED
    BY <1>1, <1>3, <1>4, <1>7, <1>8, <2>1 DEF TaskSafe, On, Past
<1>12. LinesSurvive'
  <2>1. ASSUME NEW k, k \in OnDisk
        PROVE  k \in OnDisk' \/ k \in exposed
    <3>1. PICK n \in LogNames : disk[n].exists /\ k \in disk[n].lines
      BY <1>1, <2>1, OnDiskIs DEF LogTypes, On
    <3> QED
      BY <1>3, <1>6, <3>1 DEF OnDisk, On
  <2> QED
    BY <1>1, <2>1 DEF LogIInv, LinesSurvive
<1> QED
  BY <1>5, <1>10, <1>11, <1>12 DEF LogIInv

\* Steps past the renaming, which touch at most the task's own two files.
LEMMA LogOwnFilesKeep ==
  ASSUME LogIInv, NEW r \in Rotators, NEW next \in {"packing", "unlink", "list"},
         rotator[r].at \in Past, Goes(r, next),
         DOMAIN disk' = LogNames,
         \A n \in LogNames : disk'[n].exists \in BOOLEAN,
         \A n \in LogNames \ {Raw(rotator[r].stamp), Gz(rotator[r].stamp)} : disk'[n] = disk[n],
         stream' \in {stream, Nowhere},
         UNCHANGED <<cleaned, logNow, lastLine, settings, exposed>>
  PROVE  /\ LogTypes'
         /\ \A o \in Rotators \ {r} : TaskSafe(o)' /\ rotator'[o] = rotator[o]
         /\ rotator'[r].at = next /\ rotator'[r].stamp = rotator[r].stamp
         /\ \A o \in Rotators \ {r} : rotator'[o].at \in Past => rotator'[o].stamp # rotator[r].stamp
<1>1. /\ LogTypes /\ Nowhere # TheLog
      /\ \A o \in Rotators : rotator[o].stamp \in 0 .. MaxLogTime
  BY NamesDiffer DEF LogIInv, LogTypes
<1>2. /\ DOMAIN rotator' = Rotators
      /\ \A o \in Rotators \ {r} : rotator'[o] = rotator[o]
      /\ rotator'[r].at = next /\ rotator'[r].stamp = rotator[r].stamp
      /\ \A o \in Rotators : /\ DOMAIN rotator'[o] = {"at", "stamp", "mtime", "daily", "todo"}
                             /\ rotator'[o].stamp \in 0 .. MaxLogTime
  BY <1>1, GoesIs
<1>3. disk'[TheLog] = disk[TheLog]
  BY <1>1, NamesDiffer
<1>4. LogTypes'
  BY <1>1, <1>2, <1>3 DEF LogTypes, On
<1>5. \A o \in Rotators \ {r} : rotator[o].at \in Past => rotator[o].stamp # rotator[r].stamp
  BY DEF LogIInv, TaskSafe
<1>6. ASSUME NEW o \in Rotators \ {r}
      PROVE  TaskSafe(o)'
  <2>1. rotator[o].at \in Past => /\ disk'[Gz(rotator[o].stamp)] = disk[Gz(rotator[o].stamp)]
                                  /\ disk'[Raw(rotator[o].stamp)] = disk[Raw(rotator[o].stamp)]
    <3>1. SUFFICES ASSUME rotator[o].at \in Past
                   PROVE  /\ disk'[Gz(rotator[o].stamp)] = disk[Gz(rotator[o].stamp)]
                          /\ disk'[Raw(rotator[o].stamp)] = disk[Raw(rotator[o].stamp)]
      OBVIOUS
    <3>2. rotator[o].stamp # rotator[r].stamp
      BY <1>5, <3>1
    <3> QED
      BY <1>1, <3>2, NamesDiffer
  <2>2. rotator[o].at \in {"create", "recreate"} =>
          stream' # TheLog /\ (disk'[TheLog].exists => disk'[TheLog].lines \subseteq exposed')
    BY <1>1, <1>3 DEF LogIInv, TaskSafe, On
  <2>3. rotator[o].at \in Past =>
          \A q \in Rotators \ {o} : rotator'[q].at \in Past => rotator'[q].stamp # rotator[o].stamp
    BY <1>2, <1>5 DEF LogIInv, TaskSafe
  <2> QED
    BY <1>2, <2>1, <2>2, <2>3, LogOthersSafe
<1> QED
  BY <1>2, <1>4, <1>5, <1>6

LEMMA LogPackKeeps ==
  ASSUME LogIInv, NEW r \in Rotators, Pack(r) \/ Packed(r) \/ Unlink(r)
  PROVE  LogIInv'
<1> DEFINE raw == Raw(rotator[r].stamp)
           gz == Gz(rotator[r].stamp)
<1>1. /\ LogTypes /\ DOMAIN disk = LogNames /\ rotator[r].at \in Past
      /\ UNCHANGED <<cleaned, logNow, lastLine, settings, exposed>>
      /\ \A n \in LogNames : disk[n].exists \in BOOLEAN
  BY DEF LogIInv, LogTypes, Pack, Packed, Unlink, RestStays, Past
<1>2. raw \in LogNames /\ gz \in LogNames /\ raw # gz
  BY <1>1, NamesDiffer DEF LogTypes
<1>3. /\ rotator[r].at = "pack" => ~disk[gz].exists
      /\ settings.compress \/ rotator[r].at = "create"
      /\ rotator[r].at = "packing" =>
           /\ disk[gz].exists => disk[gz].lines = {}
           /\ disk[raw].exists => disk[gz].exists \/ disk[raw].lines \subseteq cleaned \cup exposed
      /\ rotator[r].at = "unlink" /\ disk[raw].exists =>
           disk[raw].lines \subseteq (IF disk[gz].exists THEN disk[gz].lines ELSE {}) \cup cleaned \cup exposed
  BY <1>1 DEF LogIInv, TaskSafe, On, Past
<1> DEFINE Safe(next) ==
      /\ next = "packing" =>
           /\ disk'[gz].exists => disk'[gz].lines = {}
           /\ disk'[raw].exists => disk'[gz].exists \/ disk'[raw].lines \subseteq cleaned \cup exposed
      /\ next = "unlink" /\ disk'[raw].exists =>
           disk'[raw].lines \subseteq (IF disk'[gz].exists THEN disk'[gz].lines ELSE {}) \cup cleaned \cup exposed
           Located == \A n \in LogNames : disk[n].exists => \A k \in disk[n].lines :
                      (\E m \in LogNames : disk'[m].exists /\ k \in disk'[m].lines) \/ k \in cleaned \/ k \in exposed
<1>4. ASSUME NEW next \in {"packing", "unlink", "list"}, Goes(r, next),
             DOMAIN disk' = LogNames, \A n \in LogNames : disk'[n].exists \in BOOLEAN,
             \A n \in LogNames \ {raw, gz} : disk'[n] = disk[n],
             stream' \in {stream, Nowhere}, settings.compress, Safe(next), Located
      PROVE  LogIInv'
  <2>1. /\ LogTypes'
        /\ \A o \in Rotators \ {r} : TaskSafe(o)'
        /\ rotator'[r].at = next /\ rotator'[r].stamp = rotator[r].stamp
        /\ \A o \in Rotators \ {r} : rotator'[o].at \in Past => rotator'[o].stamp # rotator[r].stamp
    BY <1>1, <1>4, LogOwnFilesKeep
  <2>2. TaskSafe(r)'
    BY <1>1, <1>4, <2>1 DEF TaskSafe, On, Past
  <2>3. ASSUME NEW k, k \in OnDisk
        PROVE  k \in OnDisk' \/ k \in cleaned \/ k \in exposed
    <3>1. PICK n \in LogNames : disk[n].exists /\ k \in disk[n].lines
      BY <1>1, <2>3, OnDiskIs DEF On
    <3>2. (\E m \in LogNames : disk'[m].exists /\ k \in disk'[m].lines) \/ k \in cleaned \/ k \in exposed
      BY <1>4, <3>1
    <3> QED
      BY <1>4, <3>2 DEF OnDisk, On
  <2>4. LinesSurvive'
    BY <1>1, <2>3 DEF LogIInv, LinesSurvive
  <2> QED
    BY <2>1, <2>2, <2>4 DEF LogIInv
<1>5. CASE Pack(r)
  <2> DEFINE next == IF disk[raw].exists THEN "packing" ELSE "list"
  <2>1. /\ disk' = [disk EXCEPT ![gz] = File({}, logNow)] /\ Goes(r, next)
        /\ rotator[r].at = "pack" /\ stream' = stream
    BY <1>5 DEF Pack, On
  <2>2. /\ DOMAIN disk' = LogNames /\ \A n \in LogNames : disk'[n].exists \in BOOLEAN
        /\ \A n \in LogNames \ {gz} : disk'[n] = disk[n]
        /\ disk'[gz].exists /\ disk'[gz].lines = {}
    BY <1>1, <1>2, <2>1, DiskIs DEF File
  <2>3. Located /\ Safe(next)
    BY <1>2, <1>3, <2>1, <2>2
  <2>4. settings.compress /\ next \in {"packing", "unlink", "list"}
    BY <1>3, <2>1
  <2> HIDE DEF next, Safe, Located, raw, gz
  <2> QED
    BY <1>4, <2>1, <2>2, <2>3, <2>4
<1>6. CASE Packed(r)
  <2>1. /\ rotator[r].at = "packing" /\ Goes(r, "unlink") /\ stream' = stream
        /\ IF disk[raw].exists /\ disk[gz].exists
           THEN disk' = [disk EXCEPT ![gz] = File(disk[raw].lines, logNow)]
           ELSE disk' = disk
    BY <1>6 DEF Packed, On
  <2>2. /\ DOMAIN disk' = LogNames /\ \A n \in LogNames : disk'[n].exists \in BOOLEAN
        /\ \A n \in LogNames \ {gz} : disk'[n] = disk[n]
        /\ IF disk[raw].exists /\ disk[gz].exists
           THEN disk'[gz].exists /\ disk'[gz].lines = disk[raw].lines
           ELSE disk' = disk
    <3>1. CASE disk[raw].exists /\ disk[gz].exists
      <4> DEFINE copy == File(disk[raw].lines, logNow)
      <4>1. copy.exists /\ copy.lines = disk[raw].lines /\ copy.exists \in BOOLEAN
        BY DEF File
      <4>2. disk' = [disk EXCEPT ![gz] = copy]
        BY <2>1, <3>1
      <4> HIDE DEF copy, raw, gz
      <4> QED
        BY <1>1, <1>2, <3>1, <4>1, <4>2, DiskIs
    <3>2. CASE ~(disk[raw].exists /\ disk[gz].exists)
      BY <1>1, <2>1, <3>2
    <3> QED
      BY <3>1, <3>2
  <2>3. Safe("unlink")
    BY <1>2, <1>3, <2>1, <2>2
  <2>4. Located
    BY <1>2, <1>3, <2>1, <2>2
  <2>5. settings.compress
    BY <1>3, <2>1
  <2> HIDE DEF Safe, Located, raw, gz
  <2> QED
    BY <1>4, <2>1, <2>2, <2>3, <2>4, <2>5
<1>7. CASE Unlink(r)
  <2>1. /\ rotator[r].at = "unlink" /\ Goes(r, "list") /\ stream' \in {stream, Nowhere}
        /\ disk' = [disk EXCEPT ![raw] = NoFile]
    BY <1>7 DEF Unlink, Removed
  <2>2. /\ DOMAIN disk' = LogNames /\ \A n \in LogNames : disk'[n].exists \in BOOLEAN
        /\ \A n \in LogNames \ {raw} : disk'[n] = disk[n]
        /\ ~disk'[raw].exists
    BY <1>1, <1>2, <2>1, DiskIs DEF NoFile
  <2>3. Safe("list")
    OBVIOUS
  <2>4. Located
    BY <1>2, <1>3, <2>1, <2>2
  <2>5. settings.compress
    BY <1>3, <2>1
  <2> HIDE DEF Safe, Located, raw, gz
  <2> QED
    BY <1>4, <2>1, <2>2, <2>3, <2>4, <2>5
<1> QED
  BY <1>5, <1>6, <1>7

LEMMA LogCleanKeeps ==
  ASSUME LogIInv, NEW r \in Rotators, ListFiles(r) \/ DeleteNext(r)
  PROVE  LogIInv'
<1>1. LogTypes /\ rotator[r].at \in {"list", "remove"} /\ rotator[r].at \notin Past
  BY DEF LogIInv, ListFiles, DeleteNext, Past
<1>2. ASSUME NEW next, rotator' = [rotator EXCEPT ![r] = next],
             DOMAIN next = {"at", "stamp", "mtime", "daily", "todo"},
             next.stamp \in 0 .. MaxLogTime, next.at \notin Past \cup {"create", "recreate"}
      PROVE  /\ DOMAIN rotator' = Rotators
             /\ \A o \in Rotators \ {r} : rotator'[o] = rotator[o]
             /\ rotator'[r] = next
  BY <1>1, <1>2 DEF LogTypes
<1>3. CASE ListFiles(r)
  <2>1. PICK todo : rotator' = [rotator EXCEPT ![r].at = "remove", ![r].todo = todo]
    BY <1>3 DEF ListFiles
  <2> DEFINE next == [[rotator[r] EXCEPT !.at = "remove"] EXCEPT !.todo = todo]
  <2>2. rotator' = [rotator EXCEPT ![r] = next]
    BY <1>1, <2>1 DEF LogTypes
  <2>3. /\ DOMAIN next = {"at", "stamp", "mtime", "daily", "todo"}
        /\ next.stamp = rotator[r].stamp /\ next.at = "remove"
    BY <1>1 DEF LogTypes
  <2>4. UNCHANGED <<disk, stream, logNow, lastLine, settings, cleaned, exposed>>
    BY <1>3 DEF ListFiles, RestStays
  <2> HIDE DEF next
  <2>5. next.stamp \in 0 .. MaxLogTime /\ next.at \notin Past \cup {"create", "recreate"}
    BY <1>1, <2>3 DEF LogTypes, Past
  <2> QED
    BY <1>2, <2>2, <2>3, <2>4, <2>5, LogQuietKeeps
<1>4. CASE DeleteNext(r) /\ ~(rotator[r].todo # <<>> /\ On(Head(rotator[r].todo)))
  <2> DEFINE next == IF rotator[r].daily THEN TaskAt("daily", 0, rotator[r].mtime, FALSE) ELSE NoTask
  <2>1. /\ rotator' = [rotator EXCEPT ![r] = next]
        /\ UNCHANGED <<disk, stream, logNow, lastLine, settings, cleaned, exposed>>
    BY <1>4 DEF DeleteNext, RestStays
  <2>2. /\ DOMAIN next = {"at", "stamp", "mtime", "daily", "todo"}
        /\ next.stamp \in 0 .. MaxLogTime /\ next.at \notin Past \cup {"create", "recreate"}
    BY LogAssumption DEF TaskAt, NoTask, Past
  <2> HIDE DEF next
  <2> QED
    BY <1>2, <2>1, <2>2, LogQuietKeeps
<1>5. CASE DeleteNext(r) /\ rotator[r].todo # <<>> /\ On(Head(rotator[r].todo))
  <2> DEFINE name == Head(rotator[r].todo)
             onTheWay == {o \in Rotators : rotator[o].at \in {"packing", "unlink"} /\ Gz(rotator[o].stamp) = name}
             next == [rotator[r] EXCEPT !.todo = Tail(@)]
  <2>1. /\ disk' = [disk EXCEPT ![name] = NoFile]
        /\ stream' = IF stream = name THEN Nowhere ELSE stream
        /\ cleaned' = cleaned \cup disk[name].lines
             \cup UNION {disk[Raw(rotator[o].stamp)].lines :
                           o \in {p \in onTheWay : On(Raw(rotator[p].stamp))}}
        /\ rotator' = [rotator EXCEPT ![r].todo = Tail(@)]
        /\ UNCHANGED <<logNow, lastLine, settings, exposed>>
    BY <1>5 DEF DeleteNext, Removed, RestStays
  <2>2. /\ DOMAIN next = {"at", "stamp", "mtime", "daily", "todo"}
        /\ next.stamp = rotator[r].stamp /\ next.at = rotator[r].at
        /\ rotator' = [rotator EXCEPT ![r] = next]
    BY <1>1, <2>1 DEF LogTypes
  <2> HIDE DEF next
  <2>3. /\ DOMAIN rotator' = Rotators
        /\ \A o \in Rotators \ {r} : rotator'[o] = rotator[o]
        /\ rotator'[r] = next
        /\ next.stamp \in 0 .. MaxLogTime /\ next.at \notin Past \cup {"create", "recreate"}
    BY <1>1, <1>2, <2>2 DEF LogTypes, Past
  <2>4. /\ DOMAIN disk' = LogNames /\ \A n \in LogNames : disk'[n].exists \in BOOLEAN
        /\ \A n \in LogNames \ {name} : disk'[n] = disk[n]
        /\ name \in LogNames => ~disk'[name].exists
    <3>1. NoFile.exists = FALSE /\ NoFile.exists \in BOOLEAN
      BY DEF NoFile
    <3>2. disk' = [disk EXCEPT ![name] = NoFile]
      BY <2>1
    <3> HIDE DEF name
    <3> QED
      BY <1>1, <3>1, <3>2, DiskIs
  <2>5. cleaned \subseteq cleaned' /\ disk[name].lines \subseteq cleaned'
    BY <2>1
  <2>6. LogTypes'
    <3>1. stream' \in {stream, Nowhere} /\ (stream' = TheLog => name # TheLog /\ stream = TheLog)
      BY <1>1, <2>1, NamesDiffer DEF LogTypes
    <3>2. stream' \in {TheLog, Nowhere} \cup {Raw(t) : t \in 0 .. MaxLogTime}
      BY <1>1, <3>1 DEF LogTypes
    <3>3. stream' = TheLog => On(TheLog)'
      BY <1>1, <2>4, <3>1, NamesDiffer DEF LogTypes, On
    <3>4. logNow' \in 0 .. MaxLogTime /\ lastLine' \in Nat
      BY <1>1, <2>1 DEF LogTypes
    <3>5. ASSUME NEW o \in Rotators
          PROVE  /\ DOMAIN rotator'[o] = {"at", "stamp", "mtime", "daily", "todo"}
                 /\ rotator'[o].stamp \in 0 .. MaxLogTime
      BY <1>1, <2>2, <2>3 DEF LogTypes
    <3> HIDE DEF name
    <3> QED
      BY <2>3, <2>4, <3>2, <3>3, <3>4, <3>5 DEF LogTypes
  <2>7. TaskSafe(r)'
    BY <2>3 DEF TaskSafe, Past
  <2>8. ASSUME NEW o \in Rotators \ {r}
        PROVE  TaskSafe(o)'
    <3> DEFINE raw == Raw(rotator[o].stamp)
               gz == Gz(rotator[o].stamp)
    <3>1. raw \in LogNames /\ gz \in LogNames /\ raw # gz /\ raw # TheLog /\ gz # TheLog
      BY <1>1, NamesDiffer DEF LogTypes
    <3>2. rotator[o].at \in Past =>
            \A q \in Rotators \ {o} : rotator'[q].at \in Past => rotator'[q].stamp # rotator[o].stamp
      BY <2>3 DEF LogIInv, TaskSafe
    <3>3. rotator[o].at \in {"create", "recreate"} =>
            stream' # TheLog /\ (disk'[TheLog].exists => disk'[TheLog].lines \subseteq exposed)
      <4>1. TaskSafe(o) /\ Nowhere # TheLog /\ TheLog \in LogNames
        BY NamesDiffer DEF LogIInv
      <4> HIDE DEF name
      <4> QED
        BY <2>1, <2>4, <4>1 DEF TaskSafe, On
    <3>4. CASE name # gz
      <4>1. disk'[gz] = disk[gz] /\ (disk'[raw] = disk[raw] \/ ~disk'[raw].exists)
        BY <2>4, <3>1, <3>4
      <4> QED
        BY <2>1, <2>3, <2>5, <3>2, <3>3, <4>1, LogOthersSafe
    <3>5. CASE name = gz
      <4>1. ~disk'[gz].exists /\ disk'[raw] = disk[raw]
        BY <2>4, <3>1, <3>5
      <4>2. rotator[o].at \in {"packing", "unlink"} /\ disk[raw].exists => disk[raw].lines \subseteq cleaned'
        BY <2>1, <3>5 DEF On
      <4>3. rotator[o].at \in {"pack", "packing", "unlink"} => settings.compress
        BY DEF LogIInv, TaskSafe
      <4>4. TaskSafe(o)' <=>
              /\ rotator[o].at \in {"create", "recreate"} =>
                   stream' # TheLog /\ (disk'[TheLog].exists => disk'[TheLog].lines \subseteq exposed')
              /\ rotator[o].at \in {"create", "pack"} => ~disk'[gz].exists
              /\ rotator[o].at \in {"pack", "packing", "unlink"} => settings'.compress
              /\ rotator[o].at = "packing" =>
                   /\ disk'[gz].exists => disk'[gz].lines = {}
                   /\ disk'[raw].exists => disk'[gz].exists \/ disk'[raw].lines \subseteq cleaned' \cup exposed'
              /\ rotator[o].at = "unlink" /\ disk'[raw].exists =>
                   disk'[raw].lines \subseteq (IF disk'[gz].exists THEN disk'[gz].lines ELSE {}) \cup cleaned' \cup exposed'
              /\ rotator[o].at \in Past => \A q \in Rotators \ {o} :
                   rotator'[q].at \in Past => rotator'[q].stamp # rotator[o].stamp
        BY <2>3 DEF TaskSafe, On, raw, gz
      <4> HIDE DEF raw, gz, name, onTheWay
      <4> QED
        BY <2>1, <3>2, <3>3, <4>1, <4>2, <4>3, <4>4
    <3> QED
      BY <3>4, <3>5
  <2>9. LinesSurvive'
    <3>1. ASSUME NEW k, k \in OnDisk
          PROVE  k \in OnDisk' \/ k \in cleaned'
      <4>1. PICK n \in LogNames : disk[n].exists /\ k \in disk[n].lines
        BY <1>1, <3>1, OnDiskIs DEF LogTypes, On
      <4>2. CASE n = name
        BY <2>5, <4>1, <4>2
      <4>3. CASE n # name
        <5>1. n \in DOMAIN disk' /\ disk'[n].exists /\ k \in disk'[n].lines
          BY <2>4, <4>1, <4>3
        <5> QED
          BY <5>1 DEF OnDisk, On
      <4> QED
        BY <4>2, <4>3
    <3> QED
      BY <2>1, <2>5, <3>1 DEF LogIInv, LinesSurvive
  <2> QED
    BY <2>6, <2>7, <2>8, <2>9 DEF LogIInv
<1> QED
  BY <1>3, <1>4, <1>5

LEMMA LogWriteKeeps ==
  ASSUME LogIInv, WriteLine
  PROVE  LogIInv'
<1> DEFINE line == lastLine + 1
           new == File((IF On(Target) THEN disk[Target].lines ELSE {}) \cup {line}, logNow)
           isExposed == \/ settings.byName /\ \E r \in Rotators : rotator[r].at \in {"create", "recreate"}
                        \/ Target # TheLog /\ settings.compress
                        \/ Target = Nowhere
<1>1. /\ LogTypes /\ lastLine' = line
      /\ Target = Nowhere => disk' = disk
      /\ Target # Nowhere => disk' = [disk EXCEPT ![Target] = new]
      /\ exposed' = IF isExposed THEN exposed \cup {line} ELSE exposed
      /\ UNCHANGED <<rotator, stream, lastCheck, logNow, settings, cleaned>>
  BY DEF LogIInv, WriteLine
<1>2. /\ Target \in {TheLog, Nowhere} \cup {Raw(t) : t \in 0 .. MaxLogTime}
      /\ Target # Nowhere => Target \in LogNames
      /\ \A t \in 0 .. MaxLogTime : Target # Gz(t)
  BY <1>1, NamesDiffer DEF LogTypes, Target
<1>3. /\ new.exists /\ new.lines = (IF On(Target) THEN disk[Target].lines ELSE {}) \cup {line}
  BY DEF File
<1>4. /\ DOMAIN disk' = LogNames /\ \A n \in LogNames : disk'[n].exists \in BOOLEAN
      /\ \A n \in LogNames \ {Target} : disk'[n] = disk[n]
      /\ Target # Nowhere =>
           /\ disk'[Target].exists
           /\ disk'[Target].lines = (IF disk[Target].exists THEN disk[Target].lines ELSE {}) \cup {line}
  <2> HIDE DEF new
  <2>1. CASE Target = Nowhere
    BY <1>1, <2>1 DEF LogTypes
  <2>2. CASE Target # Nowhere
    BY <1>1, <1>2, <1>3, <2>2, DiskIs DEF On
  <2> QED
    BY <2>1, <2>2
<1>5. exposed \subseteq exposed' /\ (isExposed => line \in exposed')
  BY <1>1
<1>6. LogTypes'
  <2>1. On(TheLog) => On(TheLog)'
    BY <1>4, NamesDiffer DEF On
  <2>2. lastLine' \in Nat
    BY <1>1 DEF LogTypes
  <2> HIDE DEF line, new, isExposed
  <2> QED
    BY <1>1, <1>4, <2>1, <2>2 DEF LogTypes
<1>7. ASSUME NEW o \in Rotators
      PROVE  TaskSafe(o)'
  <2> DEFINE raw == Raw(rotator[o].stamp)
             gz == Gz(rotator[o].stamp)
             at == rotator[o].at
  <2>1. raw \in LogNames /\ gz \in LogNames /\ raw # gz /\ raw # TheLog /\ gz # TheLog /\ gz # Target
    BY <1>1, <1>2, NamesDiffer DEF LogTypes
  <2>2. disk'[gz] = disk[gz]
    BY <1>4, <2>1
  <2>3. TaskSafe(o) <=>
          /\ at \in {"create", "recreate"} =>
               stream # TheLog /\ (disk[TheLog].exists => disk[TheLog].lines \subseteq exposed)
          /\ at \in {"create", "pack"} => ~disk[gz].exists
          /\ at \in {"pack", "packing", "unlink"} => settings.compress
          /\ at = "packing" =>
               /\ disk[gz].exists => disk[gz].lines = {}
               /\ disk[raw].exists => disk[gz].exists \/ disk[raw].lines \subseteq cleaned \cup exposed
          /\ at = "unlink" /\ disk[raw].exists =>
               disk[raw].lines \subseteq (IF disk[gz].exists THEN disk[gz].lines ELSE {}) \cup cleaned \cup exposed
          /\ at \in Past => \A q \in Rotators \ {o} :
               rotator[q].at \in Past => rotator[q].stamp # rotator[o].stamp
    BY DEF TaskSafe, On
  <2>4. TaskSafe(o)' <=>
          /\ at \in {"create", "recreate"} =>
               stream # TheLog /\ (disk'[TheLog].exists => disk'[TheLog].lines \subseteq exposed')
          /\ at \in {"create", "pack"} => ~disk'[gz].exists
          /\ at \in {"pack", "packing", "unlink"} => settings.compress
          /\ at = "packing" =>
               /\ disk'[gz].exists => disk'[gz].lines = {}
               /\ disk'[raw].exists => disk'[gz].exists \/ disk'[raw].lines \subseteq cleaned \cup exposed'
          /\ at = "unlink" /\ disk'[raw].exists =>
               disk'[raw].lines \subseteq (IF disk'[gz].exists THEN disk'[gz].lines ELSE {}) \cup cleaned \cup exposed'
          /\ at \in Past => \A q \in Rotators \ {o} :
               rotator[q].at \in Past => rotator[q].stamp # rotator[o].stamp
    BY <1>1 DEF TaskSafe, On
  <2>5. at \in {"packing", "unlink"} =>
          \/ disk'[raw] = disk[raw]
          \/ /\ disk'[raw].lines = (IF disk[raw].exists THEN disk[raw].lines ELSE {}) \cup {line}
             /\ line \in exposed'
    <3>1. CASE raw # Target
      BY <1>4, <2>1, <3>1
    <3>2. CASE raw = Target /\ at \in {"packing", "unlink"}
      <4>1. settings.compress
        BY <3>2 DEF LogIInv, TaskSafe
      <4>2. Target # TheLog /\ Target # Nowhere
        BY <2>1, <3>2, NamesDiffer
      <4> QED
        BY <1>4, <1>5, <3>2, <4>1, <4>2
    <3> QED
      BY <3>1, <3>2
  <2>6. at \in {"create", "recreate"} =>
          \/ disk'[TheLog] = disk[TheLog]
          \/ /\ disk'[TheLog].lines = (IF disk[TheLog].exists THEN disk[TheLog].lines ELSE {}) \cup {line}
             /\ line \in exposed'
    <3>1. CASE Target # TheLog
      BY <1>4, <3>1, NamesDiffer
    <3>2. CASE Target = TheLog /\ at \in {"create", "recreate"}
      <4>1. stream # TheLog
        BY <3>2 DEF LogIInv, TaskSafe
      <4>2. settings.byName
        BY <3>2, <4>1 DEF Target
      <4>3. line \in exposed'
        BY <1>5, <3>2, <4>2
      <4> QED
        BY <1>4, <3>2, <4>3, NamesDiffer
    <3> QED
      BY <3>1, <3>2
  <2>7. TaskSafe(o)
    BY DEF LogIInv
  <2> HIDE DEF raw, gz, at, line, new, isExposed
  <2>8. at = "packing" => (disk'[raw].exists => disk'[gz].exists \/ disk'[raw].lines \subseteq cleaned \cup exposed')
    BY <1>5, <2>2, <2>3, <2>5, <2>7
  <2>9. at = "unlink" /\ disk'[raw].exists =>
          disk'[raw].lines \subseteq (IF disk'[gz].exists THEN disk'[gz].lines ELSE {}) \cup cleaned \cup exposed'
    BY <1>5, <2>2, <2>3, <2>5, <2>7
  <2>10. at \in {"create", "recreate"} =>
           (disk'[TheLog].exists => disk'[TheLog].lines \subseteq exposed')
    BY <1>5, <2>3, <2>6, <2>7
  <2> QED
    BY <2>2, <2>3, <2>4, <2>7, <2>8, <2>9, <2>10
<1>8. LinesSurvive'
  <2>1. ASSUME NEW k, k \in OnDisk
        PROVE  k \in OnDisk'
    <3>1. PICK n \in LogNames : disk[n].exists /\ k \in disk[n].lines
      BY <1>1, <2>1, OnDiskIs DEF LogTypes, On
    <3>2. disk'[n].exists /\ k \in disk'[n].lines
      BY <1>2, <1>4, <3>1, NamesDiffer
    <3> QED
      BY <1>4, <3>1, <3>2 DEF OnDisk, On
  <2>2. line \in OnDisk' \/ line \in exposed'
    <3>1. CASE Target = Nowhere
      BY <1>5, <3>1
    <3>2. CASE Target # Nowhere
      BY <1>2, <1>4, <3>2 DEF OnDisk, On
    <3> QED
      BY <3>1, <3>2
  <2>3. \A k \in 1 .. lastLine' : k \in 1 .. lastLine \/ k = line
    BY <1>1 DEF LogTypes
  <2> HIDE DEF line, new, isExposed
  <2> QED
    BY <1>1, <1>5, <2>1, <2>2, <2>3 DEF LogIInv, LinesSurvive
<1> QED
  BY <1>6, <1>7, <1>8 DEF LogIInv

LEMMA LogRestKeeps ==
  ASSUME LogIInv, Restart \/ LogTick \/ UNCHANGED logVars
  PROVE  LogIInv'
<1>1. CASE Restart
  <2>1. /\ LogTypes /\ rotator' = [r \in Rotators |-> NoTask] /\ stream' = TheLog
        /\ disk' = IF On(TheLog) THEN disk ELSE [disk EXCEPT ![TheLog] = File({}, logNow)]
        /\ UNCHANGED <<logNow, lastLine, settings, cleaned, exposed>>
    BY <1>1 DEF LogIInv, Restart, ghostVars
  <2>2. File({}, logNow).exists /\ File({}, logNow).lines = {}
    BY DEF File
  <2>3. /\ DOMAIN disk' = LogNames /\ \A n \in LogNames : disk'[n].exists \in BOOLEAN
        /\ \A n \in LogNames \ {TheLog} : disk'[n] = disk[n]
        /\ disk'[TheLog].exists /\ (disk[TheLog].exists => disk'[TheLog] = disk[TheLog])
    <3>1. CASE disk[TheLog].exists
      BY <2>1, <3>1 DEF LogTypes, On
    <3>2. CASE ~disk[TheLog].exists
      <4>1. disk' = [disk EXCEPT ![TheLog] = File({}, logNow)]
        BY <2>1, <3>2 DEF On
      <4> QED
        BY <2>1, <2>2, <3>2, <4>1, DiskIs, NamesDiffer
    <3> QED
      BY <3>1, <3>2
  <2>4. /\ NoTask.at = "idle" /\ NoTask.stamp \in 0 .. MaxLogTime
        /\ DOMAIN NoTask = {"at", "stamp", "mtime", "daily", "todo"}
    BY LogAssumption DEF NoTask, TaskAt
  <2>5. LogTypes'
    BY <2>1, <2>3, <2>4 DEF LogTypes, On
  <2>6. \A r \in Rotators : TaskSafe(r)'
    BY <2>1, <2>4 DEF TaskSafe, Past
  <2>7. ASSUME NEW k, k \in OnDisk
        PROVE  k \in OnDisk'
    <3>1. PICK n \in LogNames : disk[n].exists /\ k \in disk[n].lines
      BY <2>1, <2>7, OnDiskIs DEF LogTypes, On
    <3>2. disk'[n].exists /\ k \in disk'[n].lines
      BY <2>3, <3>1
    <3> QED
      BY <2>3, <3>1, <3>2 DEF OnDisk, On
  <2>8. LinesSurvive'
    BY <2>1, <2>7 DEF LogIInv, LinesSurvive
  <2> QED
    BY <2>5, <2>6, <2>8 DEF LogIInv
<1>2. CASE LogTick \/ UNCHANGED logVars
  <2>1. /\ UNCHANGED <<disk, rotator, stream, lastLine, settings, cleaned, exposed>>
        /\ logNow' \in 0 .. MaxLogTime
    BY <1>2, LogAssumption DEF LogTick, logVars, ghostVars, LogIInv, LogTypes
  <2>2. LogTypes'
    BY <2>1 DEF LogIInv, LogTypes, On
  <2>3. \A r \in Rotators : TaskSafe(r)'
    BY <2>1 DEF LogIInv, TaskSafe, On
  <2>4. LinesSurvive'
    BY <2>1 DEF LogIInv, LinesSurvive, OnDisk, On
  <2> QED
    BY <2>2, <2>3, <2>4 DEF LogIInv
<1> QED
  BY <1>1, <1>2

(* Rotating the log loses no line that was not written to a place it may   *)
(* vanish from, for any number of tasks that rotate, and wherever the      *)
(* process dies, provided that no two rotations choose the same name       *)
(* (log-rotator.js:91, 290).                                               *)
THEOREM LinesSurviveHolds ==
  ASSUME ~MayCollide
  PROVE  LogSpec => []LinesSurvive
<1>1. LogIInv /\ [LogNext]_logVars => LogIInv'
  BY LogStartKeeps, LogRenameKeeps, LogCreateKeeps, LogPackKeeps, LogCleanKeeps,
     LogWriteKeeps, LogRestKeeps DEF LogNext
<1>2. LogIInv => LinesSurvive
  BY DEF LogIInv
<1> QED
  BY <1>1, <1>2, LogInitIInv, PTL DEF LogSpec
-----------------------------------------------------------------------------
(* Token buckets (rate-limiter.js).  Several limits may share a bucket, so *)
(* what it lets pass is measured by a limit that is at least as fast as    *)
(* each that has refilled it.                                              *)
Buckets == [tokens : Nat, count : Nat, resetTime : Int, lastRefill : Nat,
            created : Nat, passed : Nat, max : Nat]

(* What a limit refills in a time, and what a bucket owes to its limits.   *)
Refill(time, limit) == (time * limit.max) \div limit.windowMs
Earned(b) ==
  /\ b.created <= b.lastRefill
  /\ \E l \in Limits : b.passed + b.tokens <= b.max + Refill(b.lastRefill - b.created, l)

(* What division with a remainder gives, in the two forms the arithmetic   *)
(* of rates needs.                                                         *)
LEMMA DivIs ==
  ASSUME NEW x \in Nat, NEW w \in Nat \ {0}
  PROVE  /\ x \div w \in Nat
         /\ (x \div w) * w <= x
         /\ x < (x \div w) * w + w
OBVIOUS

LEMMA DivIsMost ==
  ASSUME NEW x \in Nat, NEW w \in Nat \ {0}, NEW q \in Nat, q * w <= x
  PROVE  q <= x \div w
<1> DEFINE d == x \div w
<1>1. d \in Nat /\ x < d * w + w
  BY DivIs
<1> HIDE DEF d
<1>2. q * w < (d + 1) * w
  BY <1>1
<1>3. q < d + 1
  <2> SUFFICES ASSUME q >= d + 1 PROVE FALSE
    BY <1>1
  <2>1. PICK r \in Nat : q = d + 1 + r
    <3>1. q - (d + 1) \in Nat /\ q = d + 1 + (q - (d + 1))
      BY <1>1
    <3> QED
      BY <3>1
  <2>2. q * w = (d + 1) * w + r * w /\ r * w \in Nat
    BY <1>1, <2>1
  <2> QED
    BY <1>1, <1>2, <2>2
<1> QED
  BY <1>1, <1>3 DEF d

(* Two times at one rate refill no more than both together.                *)
LEMMA RefillsAdd ==
  ASSUME NEW l \in Limits, NEW s \in Nat, NEW t \in Nat
  PROVE  Refill(s, l) + Refill(t, l) <= Refill(s + t, l)
<1> DEFINE m == l.max
           w == l.windowMs
           p == (s * m) \div w
           q == (t * m) \div w
<1>1. m \in Nat /\ w \in Nat \ {0}
  BY RateLimiterAssumption
<1>2. s * m \in Nat /\ t * m \in Nat /\ (s + t) * m \in Nat /\ (s + t) * m = s * m + t * m
  BY <1>1
<1>3. p \in Nat /\ q \in Nat /\ p * w <= s * m /\ q * w <= t * m
  BY <1>1, <1>2, DivIs
<1>4. Refill(s, l) = p /\ Refill(t, l) = q /\ Refill(s + t, l) = ((s + t) * m) \div w
  BY DEF Refill
<1> HIDE DEF m, w, p, q
<1>5. (p + q) * w <= (s + t) * m /\ p + q \in Nat
  <2>1. (p + q) * w = p * w + q * w
    BY <1>1, <1>3
  <2>2. p * w \in Nat /\ q * w \in Nat
    BY <1>1, <1>3
  <2> QED
    BY <1>1, <1>2, <1>3, <2>1, <2>2
<1> QED
  BY <1>1, <1>2, <1>4, <1>5, DivIsMost

(* The faster of two limits refills no less in any time.                   *)
LEMMA FasterRefillsMore ==
  ASSUME NEW l \in Limits, NEW m \in Limits, l.max * m.windowMs <= m.max * l.windowMs,
         NEW t \in Nat
  PROVE  Refill(t, l) <= Refill(t, m)
<1> DEFINE a == l.max
           v == l.windowMs
           b == m.max
           w == m.windowMs
           q == (t * a) \div v
<1>1. a \in Nat /\ v \in Nat \ {0} /\ b \in Nat /\ w \in Nat \ {0} /\ a * w <= b * v
  BY RateLimiterAssumption
<1>2. t * a \in Nat /\ t * b \in Nat
  BY <1>1
<1>3. q \in Nat /\ q * v <= t * a
  BY <1>1, <1>2, DivIs
<1>4. Refill(t, l) = q /\ Refill(t, m) = (t * b) \div w
  BY DEF Refill
<1> HIDE DEF a, v, b, w, q
<1>5. q * w <= t * b
  <2>1. (q * v) * w <= (t * a) * w
    BY <1>1, <1>2, <1>3
  <2>2. t * (a * w) <= t * (b * v)
    BY <1>1
  <2>3. (q * w) * v <= (t * b) * v
    BY <1>1, <1>2, <1>3, <2>1, <2>2
  <2>4. q * w \in Nat
    BY <1>1, <1>3
  <2> HIDE DEF Refill
  <2> SUFFICES ASSUME q * w >= t * b + 1 PROVE FALSE
    BY <1>2, <2>4
  <2>5. PICK r \in Nat : q * w = t * b + 1 + r
    <3>1. q * w - (t * b + 1) \in Nat
      BY <1>2, <2>4
    <3> QED
      BY <1>2, <2>4, <3>1
  <2>6. (t * b + 1 + r) * v = (t * b) * v + v + r * v /\ r * v \in Nat /\ (t * b) * v \in Nat
    BY <1>1, <1>2, <2>5
  <2> QED
    BY <1>1, <2>3, <2>5, <2>6
<1> QED
  BY <1>1, <1>2, <1>3, <1>4, <1>5, DivIsMost

(* A refill is a number of tokens.                                         *)
LEMMA RefillsNat ==
  ASSUME NEW l \in Limits, NEW t \in Nat
  PROVE  Refill(t, l) \in Nat
<1>1. l.max \in Nat /\ l.windowMs \in Nat \ {0}
  BY RateLimiterAssumption
<1>2. t * l.max \in Nat
  BY <1>1
<1> QED
  BY <1>1, <1>2, DivIs DEF Refill

(* Of two limits, one refills no slower than the other.                    *)
LEMMA OneIsFaster ==
  ASSUME NEW l \in Limits, NEW m \in Limits
  PROVE  \E f \in Limits : \A t \in Nat : Refill(t, l) <= Refill(t, f) /\ Refill(t, m) <= Refill(t, f)
<1>1. l.max * m.windowMs \in Nat /\ m.max * l.windowMs \in Nat
  BY RateLimiterAssumption
<1>2. \A t \in Nat : Refill(t, l) \in Nat /\ Refill(t, m) \in Nat
  BY RefillsNat
<1>3. CASE l.max * m.windowMs <= m.max * l.windowMs
  <2>1. \A t \in Nat : Refill(t, l) <= Refill(t, m)
    BY <1>3, FasterRefillsMore
  <2>2. \A t \in Nat : Refill(t, m) <= Refill(t, m)
    BY <1>2
  <2> QED
    BY <2>1, <2>2
<1>4. CASE m.max * l.windowMs <= l.max * m.windowMs
  <2>1. \A t \in Nat : Refill(t, m) <= Refill(t, l)
    BY <1>4, FasterRefillsMore
  <2>2. \A t \in Nat : Refill(t, l) <= Refill(t, l)
    BY <1>2
  <2> QED
    BY <2>1, <2>2
<1> QED
  BY <1>1, <1>3, <1>4

(* A bucket has its shape, is not refilled ahead of time, and has earned   *)
(* what it let pass.                                                       *)
Fair(b) == b \in Buckets /\ b.lastRefill <= now /\ Earned(b)

(* A key without a bucket owes nothing.                                    *)
LEMMA NoBucketFair ==
  ASSUME now \in Nat
  PROVE  Fair(NoBucket)
<1>1. NoBucket \in Buckets /\ NoBucket.lastRefill <= now
  BY DEF NoBucket, Buckets
<1>2. PICK l \in Limits : TRUE
  BY RateLimiterAssumption
<1>3. Refill(0, l) \in Nat
  BY RefillsNat
<1>4. NoBucket.passed = 0 /\ NoBucket.tokens = 0 /\ NoBucket.max = 0
      /\ NoBucket.lastRefill = 0 /\ NoBucket.created = 0
  BY DEF NoBucket
<1> QED
  BY <1>1, <1>3, <1>4 DEF Fair, Earned

(* A new bucket is full, and has let nothing pass.                         *)
LEMMA NewBucketFair ==
  ASSUME now \in Nat, NEW l \in Limits
  PROVE  Fair(NewBucket(l))
<1>1. l.max \in Nat /\ l.windowMs \in Nat
  BY RateLimiterAssumption
<1>2. NewBucket(l) \in Buckets /\ NewBucket(l).lastRefill <= now
  BY <1>1 DEF NewBucket, Buckets
<1>3. Refill(0, l) \in Nat
  BY RefillsNat
<1>4. NewBucket(l).passed = 0 /\ NewBucket(l).tokens = l.max /\ NewBucket(l).max = l.max
      /\ NewBucket(l).lastRefill = now /\ NewBucket(l).created = now
  BY DEF NewBucket
<1>5. now - now = 0 /\ now <= now
  OBVIOUS
<1>6. 0 + l.max <= l.max + Refill(0, l)
  BY <1>1, <1>3
<1> QED
  BY <1>2, <1>4, <1>5, <1>6 DEF Fair, Earned

(* Whichever bucket a request finds is fair.                               *)
LEMMA FoundFair ==
  ASSUME now \in Nat, NEW k \in Keys, Fair(store[k]), NEW l \in Limits
  PROVE  Fair(Found(k, l))
BY NewBucketFair DEF Found

(* What a refill adds to a bucket is at most what the limit allows for the *)
(* time it covers; the faster of two limits has then earned all of it.     *)
LEMMA RefilledFair ==
  ASSUME now \in Nat, NEW b, Fair(b), NEW l \in Limits
  PROVE  /\ Fair(Refilled(b, l))
         /\ Refilled(b, l).count = b.count
         /\ Refilled(b, l).passed = b.passed
<1> DEFINE gain == Refill(now - b.lastRefill, l)
<1>1. b \in Buckets /\ b.lastRefill <= now /\ b.created <= b.lastRefill
  BY DEF Fair, Earned
<1>2. CASE ~(now > b.lastRefill)
  BY <1>2 DEF Refilled
<1>3. CASE now > b.lastRefill
  <2> DEFINE r == Refilled(b, l)
             grown == Smallest(l.max, b.tokens + gain)
  <2>0. b.tokens \in Nat /\ b.lastRefill \in Nat /\ b.created \in Nat /\ b.passed \in Nat
        /\ b.max \in Nat /\ now - b.lastRefill \in Nat /\ b.lastRefill - b.created \in Nat
        /\ now - b.created \in Nat
        /\ now - b.created = (b.lastRefill - b.created) + (now - b.lastRefill)
    BY <1>1 DEF Buckets
  <2>1. gain \in Nat
    BY <2>0, RefillsNat
  <2>2. l.max \in Nat
    BY RateLimiterAssumption
  <2>3. grown \in Nat /\ grown <= b.tokens + gain
    <3> HIDE DEF gain
    <3> QED
      BY <2>0, <2>1, <2>2 DEF Smallest
  <2>4. r = [tokens |-> grown, count |-> b.count, resetTime |-> b.resetTime, lastRefill |-> now,
             created |-> b.created, passed |-> b.passed, max |-> b.max]
    <3>1. r = [b EXCEPT !.tokens = grown, !.lastRefill = now]
      BY <1>3 DEF Refilled, Refill
    <3> HIDE DEF grown, r
    <3> QED
      BY <1>1, <3>1 DEF Buckets
  <2> HIDE DEF r, grown, gain
  <2>5. r \in Buckets /\ r.lastRefill <= now /\ r.created <= r.lastRefill
    BY <1>1, <1>3, <2>0, <2>3, <2>4 DEF Buckets
  <2>6. PICK m \in Limits : b.passed + b.tokens <= b.max + Refill(b.lastRefill - b.created, m)
    BY DEF Fair, Earned
  <2>7. PICK f \in Limits : \A t \in Nat : Refill(t, l) <= Refill(t, f) /\ Refill(t, m) <= Refill(t, f)
    BY OneIsFaster
  <2> DEFINE x == Refill(b.lastRefill - b.created, m)
             y == Refill(b.lastRefill - b.created, f)
             z == Refill(now - b.lastRefill, f)
             u == Refill(now - b.created, f)
  <2>8. x \in Nat /\ y \in Nat /\ z \in Nat /\ u \in Nat
    BY <2>0, RefillsNat
  <2>9. x <= y
    BY <2>0, <2>7
  <2>10. gain <= z
    BY <2>0, <2>7 DEF gain
  <2>11. y + z <= u
    BY <2>0, RefillsAdd
  <2>12. b.passed + b.tokens <= b.max + x
    BY <2>6
  <2>13. u = Refill(now - b.created, f)
    OBVIOUS
  <2> HIDE DEF x, y, z, u
  <2>14. b.passed + grown <= b.max + u
    BY <2>0, <2>1, <2>3, <2>8, <2>9, <2>10, <2>11, <2>12
  <2>15. r.passed = b.passed /\ r.tokens = grown /\ r.max = b.max /\ r.lastRefill = now
         /\ r.created = b.created /\ r.count = b.count
    BY <2>4
  <2>16. Earned(r)
    BY <2>5, <2>13, <2>14, <2>15 DEF Earned
  <2>17. Fair(r)
    BY <2>5, <2>16 DEF Fair
  <2> QED
    BY <2>15, <2>17 DEF r
<1> QED
  BY <1>2, <1>3

LimiterIInv ==
  /\ now \in Nat
  /\ store = [k \in Keys |-> store[k]]
  /\ \A k \in Keys : Fair(store[k])

(* Counting a request, or letting it pass for one token, is fair.          *)
LEMMA CheckedFair ==
  ASSUME now \in Nat, NEW b, Fair(b)
  PROVE  /\ Fair([b EXCEPT !.count = @ + 1])
         /\ b.tokens > 0 => Fair([b EXCEPT !.tokens = @ - 1, !.passed = @ + 1])
<1>1. b \in Buckets /\ b.lastRefill <= now /\ b.created <= b.lastRefill
  BY DEF Fair, Earned
<1>2. PICK m \in Limits : b.passed + b.tokens <= b.max + Refill(b.lastRefill - b.created, m)
  BY DEF Fair, Earned
<1>3. Fair([b EXCEPT !.count = @ + 1])
  <2> DEFINE c == [tokens |-> b.tokens, count |-> b.count + 1, resetTime |-> b.resetTime,
                   lastRefill |-> b.lastRefill, created |-> b.created, passed |-> b.passed,
                   max |-> b.max]
  <2>1. [b EXCEPT !.count = @ + 1] = c
    BY <1>1 DEF Buckets
  <2>2. c \in Buckets
    BY <1>1 DEF Buckets
  <2>3. c.passed = b.passed /\ c.tokens = b.tokens /\ c.max = b.max
        /\ c.lastRefill = b.lastRefill /\ c.created = b.created
    OBVIOUS
  <2> HIDE DEF c
  <2> QED
    BY <1>1, <1>2, <2>1, <2>2, <2>3 DEF Fair, Earned
<1>4. ASSUME b.tokens > 0
      PROVE  Fair([b EXCEPT !.tokens = @ - 1, !.passed = @ + 1])
  <2> DEFINE c == [tokens |-> b.tokens - 1, count |-> b.count, resetTime |-> b.resetTime,
                   lastRefill |-> b.lastRefill, created |-> b.created, passed |-> b.passed + 1,
                   max |-> b.max]
  <2>1. [b EXCEPT !.tokens = @ - 1, !.passed = @ + 1] = c
    <3> DEFINE t == b.tokens - 1
               d == [b EXCEPT !.tokens = t]
    <3>1. d = [tokens |-> t, count |-> b.count, resetTime |-> b.resetTime,
               lastRefill |-> b.lastRefill, created |-> b.created, passed |-> b.passed,
               max |-> b.max]
      <4> HIDE DEF t
      <4> QED
        BY <1>1 DEF Buckets
    <3>2. [b EXCEPT !.tokens = b.tokens - 1, !.passed = b.passed + 1]
            = [d EXCEPT !.passed = b.passed + 1]
      OBVIOUS
    <3>3. [d EXCEPT !.passed = b.passed + 1] = c
      <4> HIDE DEF d
      <4> QED
        BY <3>1
    <3> QED
      BY <3>2, <3>3
  <2>2. c \in Buckets
    BY <1>1, <1>4 DEF Buckets
  <2>3. c.passed + c.tokens = b.passed + b.tokens /\ c.max = b.max
        /\ c.lastRefill = b.lastRefill /\ c.created = b.created
    BY <1>1 DEF Buckets
  <2> HIDE DEF c
  <2> QED
    BY <1>1, <1>2, <2>1, <2>2, <2>3 DEF Fair, Earned
<1> QED
  BY <1>3, <1>4

(* The invariant holds at first, and every request, reset and clean-up     *)
(* keeps it.                                                               *)
LEMMA LimiterStarts == LimiterInit => LimiterIInv
<1> SUFFICES ASSUME LimiterInit PROVE LimiterIInv
  OBVIOUS
<1>1. now \in Nat
  BY DEF LimiterInit
<1>2. Fair(NoBucket)
  BY <1>1, NoBucketFair
<1> QED
  BY <1>1, <1>2 DEF LimiterInit, LimiterIInv

LEMMA LimiterKeeps == LimiterIInv /\ [LimiterNext]_limiterVars => LimiterIInv'
<1> SUFFICES ASSUME LimiterIInv, [LimiterNext]_limiterVars PROVE LimiterIInv'
  OBVIOUS
<1>0. now \in Nat /\ \A k \in Keys : Fair(store[k])
  BY DEF LimiterIInv
<1>b. store = [k \in Keys |-> store[k]]
  BY DEF LimiterIInv
<1>a. ASSUME now' = now, store' = [k \in Keys |-> store'[k]],
             \A k \in Keys : Fair(store'[k])
      PROVE  LimiterIInv'
  <2>1. \A k \in Keys : Fair(store[k])'
    BY <1>a DEF Fair, Earned
  <2>2. now' \in Nat
    BY <1>0, <1>a
  <2> QED
    BY <1>a, <2>1, <2>2 DEF LimiterIInv
<1>1. ASSUME NEW k \in Keys, NEW l \in Limits, _checkLimit(k, l)
      PROVE  LimiterIInv'
  <2> DEFINE b == Refilled(Found(k, l), l)
             d == [b EXCEPT !.count = @ + 1]
             c == IF Admits(k, l) THEN [d EXCEPT !.tokens = @ - 1, !.passed = @ + 1] ELSE d
  <2>1. Fair(b)
    BY <1>0, FoundFair, RefilledFair
  <2>2. Fair(c)
    <3>1. Admits(k, l) <=> b.tokens > 0
      BY DEF Admits
    <3>2. d.tokens = b.tokens
      <4>1. b \in Buckets
        BY <2>1 DEF Fair
      <4> HIDE DEF b
      <4> QED
        BY <4>1 DEF Buckets
    <3>3. Fair(d)
      <4> HIDE DEF b
      <4> QED
        BY <1>0, <2>1, CheckedFair
    <3> HIDE DEF b, d
    <3> QED
      BY <1>0, <3>1, <3>2, <3>3, CheckedFair
  <2>3. store' = [store EXCEPT ![k] = c] /\ now' = now
    BY <1>1 DEF _checkLimit
  <2> HIDE DEF b, c, d
  <2>4. store' = [j \in Keys |-> IF j = k THEN c ELSE store[j]]
    BY <1>b, <2>3
  <2> QED
    BY <1>0, <1>a, <2>2, <2>3, <2>4
<1>2. ASSUME NEW k \in Keys, reset(k) PROVE LimiterIInv'
  <2>1. store' = [j \in Keys |-> IF j = k THEN NoBucket ELSE store[j]] /\ now' = now
    BY <1>b, <1>2 DEF reset
  <2> QED
    BY <1>0, <1>a, <2>1, NoBucketFair
<1>3. ASSUME resetAll PROVE LimiterIInv'
  BY <1>0, <1>3, <1>a, NoBucketFair DEF resetAll
<1>4. ASSUME cleanup PROVE LimiterIInv'
  <2>1. store' = [k \in Keys |-> IF now > store[k].resetTime THEN NoBucket ELSE store[k]]
        /\ now' = now
    BY <1>4 DEF cleanup
  <2>2. \A k \in Keys : Fair(store'[k])
    <3> TAKE k \in Keys
    <3>1. store'[k] = NoBucket \/ store'[k] = store[k]
      BY <2>1
    <3> QED
      BY <1>0, <3>1, NoBucketFair
  <2> QED
    BY <1>a, <2>1, <2>2
<1>5. ASSUME LimiterTick PROVE LimiterIInv'
  <2>1. now' = now + 1 /\ store' = store /\ now' \in Nat
    BY <1>0, <1>5 DEF LimiterTick
  <2>2. \A k \in Keys : Fair(store[k])'
    <3> TAKE k \in Keys
    <3>1. store[k].lastRefill \in Nat
      BY <1>0 DEF Fair, Buckets
    <3>2. store'[k].lastRefill <= now'
      BY <1>0, <2>1, <3>1 DEF Fair
    <3> QED
      BY <1>0, <2>1, <3>2 DEF Fair, Earned
  <2> QED
    BY <1>b, <2>1, <2>2 DEF LimiterIInv
<1>6. CASE UNCHANGED limiterVars
  BY <1>0, <1>b, <1>6, <1>a DEF limiterVars
<1> QED
  BY <1>1, <1>2, <1>3, <1>4, <1>5, <1>6 DEF LimiterNext

(* A fair bucket has kept its rate; and a silence of a window refills at   *)
(* least one token, whatever the bucket held.                              *)
LEMMA LimiterMeans == LimiterIInv => RateKept /\ SilenceForgiven
<1> SUFFICES ASSUME LimiterIInv PROVE RateKept /\ SilenceForgiven
  OBVIOUS
<1>0. now \in Nat /\ \A k \in Keys : Fair(store[k])
  BY DEF LimiterIInv
<1>1. RateKept
  BY <1>0 DEF RateKept, Fair, Earned, Refill
<1>2. SilenceForgiven
  <2> SUFFICES ASSUME NEW k \in Keys, NEW l \in Limits, l.max > 0,
                      now > store[k].lastRefill + l.windowMs
               PROVE  Admits(k, l)
    BY DEF SilenceForgiven
  <2>1. l.max \in Nat \ {0} /\ l.windowMs \in Nat \ {0}
    BY RateLimiterAssumption
  <2>2. CASE ~Current(store[k])
    <3>1. Found(k, l) = NewBucket(l) /\ NewBucket(l).tokens = l.max
          /\ NewBucket(l).lastRefill = now
      BY <2>2 DEF Found, NewBucket
    <3>2. Refilled(Found(k, l), l).tokens = l.max
      BY <1>0, <3>1 DEF Refilled
    <3> QED
      BY <2>1, <3>2 DEF Admits
  <2>3. CASE Current(store[k])
    <3> DEFINE b == store[k]
               elapsed == now - b.lastRefill
               gain == (elapsed * l.max) \div l.windowMs
               grown == Smallest(l.max, b.tokens + gain)
    <3>1. Found(k, l) = b
      BY <2>3 DEF Found
    <3>2. b \in Buckets
      BY <1>0 DEF Fair
    <3>3. b.lastRefill \in Nat /\ b.tokens \in Nat
      BY <3>2 DEF Buckets
    <3>4. elapsed \in Nat /\ elapsed > l.windowMs /\ now > b.lastRefill
      BY <1>0, <2>1, <3>3
    <3>5. gain \in Nat /\ gain >= 1
      <4>1. elapsed * l.max \in Nat /\ elapsed * l.max >= elapsed
        <5> HIDE DEF elapsed
        <5>1. PICK m \in Nat : l.max = 1 + m
          <6>1. l.max - 1 \in Nat /\ l.max = 1 + (l.max - 1)
            BY <2>1
          <6> QED
            BY <6>1
        <5>2. elapsed * (1 + m) = elapsed + elapsed * m /\ elapsed * m \in Nat
          BY <3>4
        <5> QED
          BY <3>4, <5>1, <5>2
      <4> HIDE DEF elapsed
      <4>2. 1 * l.windowMs <= elapsed * l.max
        BY <2>1, <3>4, <4>1
      <4> QED
        BY <2>1, <4>1, <4>2, DivIs, DivIsMost
    <3>6. Refilled(b, l).tokens = grown
      <4>1. Refilled(b, l) = [b EXCEPT !.tokens = grown, !.lastRefill = now]
        BY <3>4 DEF Refilled
      <4> HIDE DEF grown, b
      <4> QED
        BY <3>2, <4>1 DEF Buckets
    <3>7. grown > 0
      <4> HIDE DEF gain, b
      <4> QED
        BY <2>1, <3>3, <3>5 DEF Smallest
    <3> QED
      BY <3>1, <3>6, <3>7 DEF Admits
  <2> QED
    BY <2>2, <2>3
<1> QED
  BY <1>1, <1>2

-----------------------------------------------------------------------------
(* A wrapped function (rate-limiter.js:167): which of two timers fires     *)
(* first.                                                                  *)
Turn(c, d) == timers[c] < timers[d] \/ (timers[c] = timers[d] /\ c <= d)

(* The queue holds the calls whose timers are armed,   *)
(* in the order in which the timers are due.                               *)
WrapTypes ==
  /\ wrapNow \in Nat /\ made \in Nat
  /\ window \in [start : Nat, calls : Nat] /\ window.start <= wrapNow
  /\ queue \in Seq(Nat)
  /\ \A c \in DOMAIN timers : timers[c] \in Nat
Queued ==
  /\ \A i \in 1 .. Len(queue) : queue[i] \in DOMAIN timers
  /\ \A c \in DOMAIN timers : \E i \in 1 .. Len(queue) : queue[i] = c
  /\ \A i, j \in 1 .. Len(queue) :
       i < j => queue[i] < queue[j] /\ timers[queue[i]] <= timers[queue[j]]
Accounted ==
  /\ began \cup DOMAIN timers = 1 .. made /\ began \cap DOMAIN timers = {}
  /\ \A c \in DOMAIN timers :
       timers[c] <= window.start + perInterval \/ timers[c] <= wrapNow + 1

WrapIInv == WrapTypes /\ Queued /\ Accounted

\* The first of the timers is the one of the call that waits longest.
LEMMA FirstIsHead ==
  ASSUME WrapIInv, NEW c \in DOMAIN timers, \A d \in DOMAIN timers : Turn(c, d)
  PROVE  queue # <<>> /\ Head(queue) = c
<1>1. PICK i \in 1 .. Len(queue) : queue[i] = c
  BY DEF WrapIInv, Queued
<1>2. queue \in Seq(Nat) /\ Len(queue) \in Nat /\ queue # <<>> /\ Head(queue) = queue[1]
  BY <1>1 DEF WrapIInv, WrapTypes
<1>3. ASSUME i # 1 PROVE FALSE
  <2>1. 1 \in 1 .. Len(queue) /\ 1 < i
    BY <1>1, <1>2, <1>3
  <2>2. queue[1] < c /\ timers[queue[1]] <= timers[c] /\ queue[1] \in DOMAIN timers
    BY <1>1, <2>1 DEF WrapIInv, Queued
  <2>3. Turn(c, queue[1])
    BY <2>2
  <2>4. timers[queue[1]] \in Nat /\ timers[c] \in Nat /\ queue[1] \in Nat /\ c \in Nat
    BY <1>1, <1>2, <2>1, <2>2 DEF WrapIInv, WrapTypes
  <2> QED
    BY <2>2, <2>3, <2>4 DEF Turn
<1> QED
  BY <1>1, <1>2, <1>3

(* The invariant holds at first, and calls that begin at once, calls that  *)
(* wait, timers and time keep it.                                          *)
LEMMA WrapStarts == WrapInit => WrapIInv
BY DEF WrapInit, WrapIInv, WrapTypes, Queued, Accounted

LEMMA AtOnceKeeps ==
  ASSUME WrapIInv, CallAtOnce
  PROVE  WrapIInv'
<1>1. WindowNow \in [start : Nat, calls : Nat] /\ WindowNow.start <= wrapNow
      /\ window.start <= WindowNow.start
      /\ WindowNow = [start |-> WindowNow.start, calls |-> WindowNow.calls]
  BY DEF WrapIInv, WrapTypes, WindowNow
<1>2. window' = [start |-> WindowNow.start, calls |-> WindowNow.calls + 1]
  BY <1>1 DEF CallAtOnce
<1>3. window'.start = WindowNow.start /\ window' \in [start : Nat, calls : Nat]
  BY <1>1, <1>2
<1>4. /\ made' = made + 1 /\ began' = began \cup {made + 1}
      /\ queue' = queue /\ timers' = timers /\ wrapNow' = wrapNow
  BY DEF CallAtOnce
<1>5. WrapTypes'
  BY <1>1, <1>3, <1>4 DEF WrapIInv, WrapTypes
<1>6. Queued'
  BY <1>4 DEF WrapIInv, Queued
<1>7. Accounted'
  <2>1. made \in Nat /\ DOMAIN timers \subseteq 1 .. made /\ began \subseteq 1 .. made
    BY DEF WrapIInv, WrapTypes, Accounted
  <2>2. 1 .. made' = 1 .. made \cup {made + 1} /\ made + 1 \notin 1 .. made
    BY <1>4, <2>1
  <2>3. (began \cup DOMAIN timers = 1 .. made /\ began \cap DOMAIN timers = {})'
    <3>1. began \cup DOMAIN timers = 1 .. made /\ began \cap DOMAIN timers = {}
      BY DEF WrapIInv, Accounted
    <3> QED
      BY <1>4, <2>1, <2>2, <3>1
  <2>4. \A c \in DOMAIN timers : timers[c] <= WindowNow.start + perInterval \/ timers[c] <= wrapNow + 1
    BY <1>1, RateLimiterAssumption DEF WrapIInv, WrapTypes, Accounted
  <2> QED
    BY <1>3, <1>4, <2>3, <2>4 DEF Accounted
<1> QED
  BY <1>5, <1>6, <1>7 DEF WrapIInv

LEMMA LaterKeeps ==
  ASSUME WrapIInv, CallLater
  PROVE  WrapIInv'
<1> DEFINE n == made + 1
           start == WindowNow.start
           due == IF start + perInterval > wrapNow THEN start + perInterval ELSE wrapNow + 1
<1>0. perInterval \in Nat /\ made \in Nat /\ wrapNow \in Nat /\ queue \in Seq(Nat)
      /\ n \in Nat
  BY RateLimiterAssumption DEF WrapIInv, WrapTypes
<1>1. WindowNow \in [start : Nat, calls : Nat] /\ start <= wrapNow
      /\ window.start <= start /\ start \in Nat /\ window.start \in Nat
  BY DEF WrapIInv, WrapTypes, WindowNow
<1>2. /\ made' = n /\ began' = began /\ window' = WindowNow /\ wrapNow' = wrapNow
      /\ queue' = Append(queue, n)
      /\ timers' = [c \in DOMAIN timers \cup {n} |-> IF c # n THEN timers[c] ELSE due]
  BY DEF CallLater
<1>3. due \in Nat /\ (due <= start + perInterval \/ due <= wrapNow + 1)
      /\ start + perInterval <= due
      /\ (wrapNow + 1 <= due)
  BY <1>0, <1>1
<1> HIDE DEF due
<1>4. n \notin DOMAIN timers /\ n \notin began /\ DOMAIN timers \subseteq 1 .. made
      /\ \A c \in DOMAIN timers : c < n
  BY <1>0 DEF WrapIInv, Accounted
<1>5. DOMAIN timers' = DOMAIN timers \cup {n} /\ timers'[n] = due
      /\ \A c \in DOMAIN timers : timers'[c] = timers[c]
  BY <1>2, <1>4
<1>6. \A c \in DOMAIN timers :
        timers[c] \in Nat /\ timers[c] <= due
        /\ (timers[c] <= start + perInterval \/ timers[c] <= wrapNow + 1)
  <2> TAKE c \in DOMAIN timers
  <2>1. timers[c] \in Nat
    BY DEF WrapIInv, WrapTypes
  <2>2. timers[c] <= window.start + perInterval \/ timers[c] <= wrapNow + 1
    BY DEF WrapIInv, Accounted
  <2> QED
    BY <1>0, <1>1, <1>3, <2>1, <2>2
<1>7. WrapTypes'
  <2>1. queue' \in Seq(Nat)
    BY <1>0, <1>2
  <2>2. \A c \in DOMAIN timers' : timers'[c] \in Nat
    BY <1>3, <1>5, <1>6
  <2> QED
    BY <1>0, <1>1, <1>2, <2>1, <2>2 DEF WrapTypes
<1>8. Queued'
  <2>1. Len(queue') = Len(queue) + 1 /\ Len(queue) \in Nat /\ queue'[Len(queue) + 1] = n
        /\ \A i \in 1 .. Len(queue) : queue'[i] = queue[i] /\ queue'[i] \in DOMAIN timers
    BY <1>0, <1>2 DEF WrapIInv, Queued
  <2>2. \A i \in 1 .. Len(queue') : queue'[i] \in DOMAIN timers'
    BY <1>5, <2>1
  <2>3. \A c \in DOMAIN timers' : \E i \in 1 .. Len(queue') : queue'[i] = c
    <3>1. \A c \in DOMAIN timers : \E i \in 1 .. Len(queue) : queue[i] = c
      BY DEF WrapIInv, Queued
    <3> TAKE c \in DOMAIN timers'
    <3>2. CASE c = n
      BY <2>1, <3>2
    <3>3. CASE c \in DOMAIN timers
      <4>1. PICK i \in 1 .. Len(queue) : queue[i] = c
        BY <3>1, <3>3
      <4>2. i \in 1 .. Len(queue') /\ queue'[i] = c
        BY <2>1, <4>1
      <4> QED
        BY <4>2
    <3> QED
      BY <1>5, <3>2, <3>3
  <2>4. \A i, j \in 1 .. Len(queue') :
          i < j => queue'[i] < queue'[j] /\ timers'[queue'[i]] <= timers'[queue'[j]]
    <3> SUFFICES ASSUME NEW i \in 1 .. Len(queue'), NEW j \in 1 .. Len(queue'), i < j
                 PROVE  queue'[i] < queue'[j] /\ timers'[queue'[i]] <= timers'[queue'[j]]
      OBVIOUS
    <3>1. i \in 1 .. Len(queue) /\ queue'[i] = queue[i] /\ queue[i] \in DOMAIN timers
          /\ timers'[queue'[i]] = timers[queue[i]]
      BY <1>5, <2>1
    <3>2. CASE j = Len(queue) + 1
      BY <1>4, <1>5, <1>6, <2>1, <3>1, <3>2
    <3>3. CASE j \in 1 .. Len(queue)
      <4>1. queue'[j] = queue[j] /\ timers'[queue'[j]] = timers[queue[j]]
        BY <1>5, <2>1, <3>3
      <4>2. queue[i] < queue[j] /\ timers[queue[i]] <= timers[queue[j]]
        BY <3>1, <3>3 DEF WrapIInv, Queued
      <4> QED
        BY <3>1, <4>1, <4>2
    <3> QED
      BY <2>1, <3>2, <3>3
  <2> QED
    BY <2>2, <2>3, <2>4 DEF Queued
<1>9. Accounted'
  <2>1. began \cup DOMAIN timers = 1 .. made /\ began \cap DOMAIN timers = {}
    BY DEF WrapIInv, Accounted
  <2>2. 1 .. n = 1 .. made \cup {n}
    BY <1>0
  <2>3. (began \cup DOMAIN timers = 1 .. made /\ began \cap DOMAIN timers = {})'
    <3> HIDE DEF n
    <3> QED
      BY <1>2, <1>4, <1>5, <2>1, <2>2
  <2>4. \A c \in DOMAIN timers' : timers'[c] <= start + perInterval \/ timers'[c] <= wrapNow + 1
    BY <1>3, <1>5, <1>6
  <2> QED
    BY <1>2, <2>3, <2>4 DEF Accounted
<1> QED
  BY <1>7, <1>8, <1>9 DEF WrapIInv

LEMMA TimerKeeps ==
  ASSUME WrapIInv, NEW c \in DOMAIN timers, QueueTimer(c)
  PROVE  WrapIInv'
<1>0. queue # <<>> /\ Head(queue) = c
  BY FirstIsHead DEF QueueTimer, Turn
<1>1. /\ queue' = Tail(queue) /\ began' = began \cup {c}
      /\ timers' = [d \in DOMAIN timers \ {c} |-> timers[d]]
      /\ window' = window /\ made' = made /\ wrapNow' = wrapNow
  BY <1>0 DEF QueueTimer
<1>2. queue \in Seq(Nat) /\ Len(queue) \in Nat \ {0} /\ queue[1] = c
  BY <1>0 DEF WrapIInv, WrapTypes
<1>3. queue' \in Seq(Nat) /\ Len(queue') = Len(queue) - 1
      /\ \A i \in 1 .. Len(queue') : queue'[i] = queue[i + 1] /\ i + 1 \in 1 .. Len(queue)
  BY <1>0, <1>1, <1>2
<1>4. DOMAIN timers' = DOMAIN timers \ {c} /\ \A d \in DOMAIN timers' : timers'[d] = timers[d]
  BY <1>1
<1>5. \A i \in 1 .. Len(queue) : queue[i] \in DOMAIN timers /\ (i > 1 => queue[i] # c)
  <2> TAKE i \in 1 .. Len(queue)
  <2>1. queue[i] \in DOMAIN timers /\ queue[i] \in Nat /\ i \in Nat
    <3>1. queue[i] \in DOMAIN timers
      BY DEF WrapIInv, Queued
    <3>2. queue[i] \in Nat
      BY <1>2
    <3>3. i \in Nat
      BY <1>2
    <3> QED
      BY <3>1, <3>2, <3>3
  <2>2. ASSUME i > 1 PROVE queue[i] # c
    <3>1. 1 \in 1 .. Len(queue) /\ 1 < i
      BY <1>2, <2>1, <2>2
    <3>2. queue[1] < queue[i]
      BY <3>1 DEF WrapIInv, Queued
    <3> QED
      BY <1>2, <2>1, <3>1, <3>2
  <2> QED
    BY <2>1, <2>2
<1>6. WrapTypes'
  BY <1>1, <1>3, <1>4 DEF WrapIInv, WrapTypes
<1>7. Queued'
  <2>1. \A i \in 1 .. Len(queue') :
          queue'[i] \in DOMAIN timers' /\ timers'[queue'[i]] = timers[queue[i + 1]]
    <3> TAKE i \in 1 .. Len(queue')
    <3>1. queue'[i] = queue[i + 1] /\ i + 1 \in 1 .. Len(queue) /\ i + 1 > 1
      BY <1>2, <1>3
    <3>2. queue[i + 1] \in DOMAIN timers /\ queue[i + 1] # c
      BY <1>5, <3>1
    <3> QED
      BY <1>4, <3>1, <3>2
  <2>2. \A d \in DOMAIN timers' : \E i \in 1 .. Len(queue') : queue'[i] = d
    <3> TAKE d \in DOMAIN timers'
    <3>1. PICK i \in 1 .. Len(queue) : queue[i] = d
      BY <1>4 DEF WrapIInv, Queued
    <3>2. i # 1
      BY <1>2, <1>4, <3>1
    <3>3. i - 1 \in 1 .. Len(queue') /\ queue'[i - 1] = d
      BY <1>2, <1>3, <3>1, <3>2
    <3> QED
      BY <3>3
  <2>3. \A i, j \in 1 .. Len(queue') :
          i < j => queue'[i] < queue'[j] /\ timers'[queue'[i]] <= timers'[queue'[j]]
    <3> SUFFICES ASSUME NEW i \in 1 .. Len(queue'), NEW j \in 1 .. Len(queue'), i < j
                 PROVE  queue'[i] < queue'[j] /\ timers'[queue'[i]] <= timers'[queue'[j]]
      OBVIOUS
    <3>1. queue[i + 1] < queue[j + 1] /\ timers[queue[i + 1]] <= timers[queue[j + 1]]
      <4>1. i + 1 \in 1 .. Len(queue) /\ j + 1 \in 1 .. Len(queue) /\ i + 1 < j + 1
        BY <1>2, <1>3
      <4> QED
        BY <4>1 DEF WrapIInv, Queued
    <3> QED
      BY <1>3, <2>1, <3>1
  <2> QED
    BY <2>1, <2>2, <2>3 DEF Queued
<1>8. Accounted'
  BY <1>1, <1>4 DEF WrapIInv, Accounted
<1> QED
  BY <1>6, <1>7, <1>8 DEF WrapIInv

LEMMA WrapRestKeeps ==
  ASSUME WrapIInv, WrapTick \/ UNCHANGED wrapVars
  PROVE  WrapIInv'
<1>1. wrapNow' \in Nat /\ wrapNow <= wrapNow'
      /\ UNCHANGED <<window, queue, timers, began, made>>
  BY DEF WrapIInv, WrapTypes, WrapTick, wrapVars
<1>2. WrapTypes'
  BY <1>1 DEF WrapIInv, WrapTypes
<1>3. Queued'
  BY <1>1 DEF WrapIInv, Queued
<1>4. Accounted'
  <2>1. \A c \in DOMAIN timers : timers[c] \in Nat
    BY DEF WrapIInv, WrapTypes
  <2>2. \A c \in DOMAIN timers :
          timers[c] <= window.start + perInterval \/ timers[c] <= wrapNow' + 1
    BY <1>1, <2>1 DEF WrapIInv, WrapTypes, Accounted
  <2> QED
    BY <1>1, <2>2 DEF WrapIInv, Accounted
<1> QED
  BY <1>2, <1>3, <1>4 DEF WrapIInv

(* The invariant is what the property needs, and more.                     *)
LEMMA WrapMeans == WrapIInv => CallsServed
<1> SUFFICES ASSUME WrapIInv PROVE CallsServed
  OBVIOUS
<1>1. Len(queue) = 0 <=> DOMAIN timers = {}
  <2>1. Len(queue) \in Nat
    BY DEF WrapIInv, WrapTypes
  <2>2. Len(queue) # 0 => 1 \in 1 .. Len(queue)
    BY <2>1
  <2>3. Len(queue) = 0 => 1 .. Len(queue) = {}
    BY <2>1
  <2> QED
    BY <2>2, <2>3 DEF WrapIInv, Queued
<1>2. \A c \in DOMAIN timers :
        (\A d \in DOMAIN timers : timers[c] < timers[d] \/ (timers[c] = timers[d] /\ c <= d))
          => Head(queue) = c
  BY FirstIsHead DEF Turn
<1> QED
  BY <1>1, <1>2 DEF CallsServed, WrapIInv, Accounted

(* However requests of any middlewares are spread over time, a bucket lets *)
(* no more of them pass than its size and the rate of one of the limits    *)
(* that share it allow, and a key that was silent for a window gets in     *)
(* (rate-limiter.js:11-14); and a wrapped function loses no call           *)
(* (rate-limiter.js:186).                                                  *)
THEOREM LimiterSoundHolds == LimiterSpec /\ WrapSpec => []LimiterSound
<1>1. LimiterIInv /\ WrapIInv => LimiterSound
  BY LimiterMeans, WrapMeans DEF LimiterSound
<1>2. LimiterSpec => []LimiterIInv
  BY LimiterStarts, LimiterKeeps, PTL DEF LimiterSpec
<1>3. WrapSpec => []WrapIInv
  <2>1. WrapIInv /\ [WrapNext]_wrapVars => WrapIInv'
    BY AtOnceKeeps, LaterKeeps, TimerKeeps, WrapRestKeeps DEF WrapNext
  <2> QED
    BY <2>1, WrapStarts, PTL DEF WrapSpec
<1> QED
  BY <1>1, <1>2, <1>3, PTL

-----------------------------------------------------------------------------
(* Access lists.  A verdict is what an entry in date says.                 *)
(* Whether a list has an entry in date for an address.                     *)
Old(e, when) == e[2] # Forever /\ e[2] < when
Answers(e, ip, when) == _ipInRange(ip, e[1]) /\ ~Old(e, when)
Answered(list, ip, when) == \E e \in Elems(list) : Answers(e, ip, when)
DeciderAt(list, ip, when) ==
  LET hits == {n \in DOMAIN list : _ipInRange(ip, list[n][1]) /\ ~Old(list[n], when)}
  IN  IF hits = {} THEN Len(list) + 1 ELSE CHOOSE n \in hits : \A k \in hits : n <= k

LEMMA DeciderIs ==
  ASSUME NEW X, NEW list \in Seq(X), NEW ip, NEW when
  PROVE  DeciderAt(list, ip, when) <= Len(list) <=> Answered(list, ip, when)
<1> DEFINE H == {n \in DOMAIN list : _ipInRange(ip, list[n][1]) /\ ~Old(list[n], when)}
           first == CHOOSE n \in H : \A k \in H : n <= k
<1>1. Len(list) \in Nat /\ DOMAIN list = 1 .. Len(list)
  OBVIOUS
<1>2. H # {} <=> Answered(list, ip, when)
  BY DEF Answered, Answers, Elems
<1>3. DeciderAt(list, ip, when) = IF H = {} THEN Len(list) + 1 ELSE first
  BY DEF DeciderAt
<1>4. \A n \in H : n \in Nat /\ n <= Len(list)
  BY <1>1
<1> HIDE DEF H
<1>5. CASE H = {}
  BY <1>1, <1>2, <1>3, <1>5
<1>6. CASE H # {}
  <2>1. \E n \in H : \A k \in H : n <= k
    BY <1>4, <1>6, LeastOf
  <2>2. first \in H
    BY <2>1
  <2> HIDE DEF first
  <2> QED BY <1>2, <1>3, <1>4, <1>6, <2>2
<1> QED BY <1>5, <1>6

LEMMA WalkedIs ==
  ASSUME NEW X, NEW list \in Seq(X), NEW ip
  PROVE  /\ Walked(list, ip) \in Seq(X)
         /\ \A e \in Elems(Walked(list, ip)) : e \in Elems(list)
         /\ \A e \in Elems(list) : OutOfDate(e) \/ e \in Elems(Walked(list, ip))
<1> DEFINE end == Decider(list, ip)
           gone == {n \in DOMAIN list : n < end /\ _ipInRange(ip, list[n][1]) /\ OutOfDate(list[n])}
           ids == [n \in DOMAIN list |-> n]
           keep == Passing(ids, DOMAIN list \ gone)
           W == [k \in DOMAIN keep |-> list[keep[k]]]
<1>1. DOMAIN list = 1 .. Len(list) /\ Len(list) \in Nat /\ \A n \in DOMAIN list : list[n] \in X
  OBVIOUS
<1>2. ids \in Seq(DOMAIN list) /\ Elems(ids) = DOMAIN list
  BY <1>1 DEF Elems
<1>3. \A n \in gone : OutOfDate(list[n])
  OBVIOUS
<1> HIDE DEF gone, ids
<1>4. keep \in Seq(DOMAIN list) /\ Elems(keep) = DOMAIN list \ gone
  BY <1>2, PassingType, PassingElems
<1>5. Walked(list, ip) = W
  BY DEF Walked, keep, ids, gone
<1> HIDE DEF keep
<1>6. W \in Seq(X) /\ DOMAIN W = DOMAIN keep
  <2>1. DOMAIN keep = 1 .. Len(keep) /\ Len(keep) \in Nat /\ \A k \in DOMAIN keep : keep[k] \in DOMAIN list
    BY <1>4
  <2> QED BY <1>1, <2>1
<1>7. \A e : e \in Elems(W) <=> \E n \in DOMAIN list \ gone : e = list[n]
  <2>1. \A n : n \in DOMAIN list \ gone <=> \E k \in DOMAIN keep : n = keep[k]
    BY <1>4 DEF Elems
  <2>2. \A k \in DOMAIN keep : W[k] = list[keep[k]]
    OBVIOUS
  <2> HIDE DEF W
  <2> QED BY <1>6, <2>1, <2>2 DEF Elems
<1> HIDE DEF W
<1>8. \A e : e \in Elems(list) <=> \E n \in DOMAIN list : e = list[n]
  BY DEF Elems
<1> QED BY <1>3, <1>5, <1>6, <1>7, <1>8

LEMMA WalkedAnswers ==
  ASSUME NEW X, NEW list \in Seq(X), NEW ip, NEW q
  PROVE  Answered(Walked(list, ip), q, accessNow) <=> Answered(list, q, accessNow)
<1>1. \A e : OutOfDate(e) <=> Old(e, accessNow)
  BY DEF OutOfDate, Old
<1> QED BY <1>1, WalkedIs DEF Answered, Answers

LEMMA InDateOnlyIs ==
  ASSUME NEW X, NEW list \in Seq(X)
  PROVE  /\ InDateOnly(list) \in Seq(X)
         /\ \A q : Answered(InDateOnly(list), q, accessNow) <=> Answered(list, q, accessNow)
<1> DEFINE T == {e \in Elems(list) : ~OutOfDate(e)}
<1>1. Passing(list, T) \in Seq(X) /\ Elems(Passing(list, T)) = Elems(list) \cap T
  BY PassingType, PassingElems
<1>2. \A e : OutOfDate(e) <=> Old(e, accessNow)
  BY DEF OutOfDate, Old
<1> QED BY <1>1, <1>2 DEF InDateOnly, Answered, Answers

InDateAt(blocks, ip, when) == \E t \in blocks : t[1] = ip /\ when < t[2]

(* The verdicts, now and after a step.                                     *)
LEMMA VerdictsAre ==
  ASSUME AccessTypeOK, AccessTypeOK', NEW ip
  PROVE  /\ Blocked(ip) <=> InDateAt(tempBlocks, ip, accessNow) \/ Answered(blocklist, ip, accessNow)
         /\ Allowed(ip) <=> Answered(allowlist, ip, accessNow)
         /\ Blocked(ip)' <=> InDateAt(tempBlocks', ip, accessNow') \/ Answered(blocklist', ip, accessNow')
         /\ Allowed(ip)' <=> Answered(allowlist', ip, accessNow')
<1>1. /\ blocklist \in Seq(Listings) /\ blocklist' \in Seq(Listings)
      /\ allowlist \in Seq(Listings) /\ allowlist' \in Seq(Listings)
  BY DEF AccessTypeOK
<1>2. \A list : Decider(list, ip) = DeciderAt(list, ip, accessNow)
  BY DEF Decider, DeciderAt, OutOfDate, Old
<1>3. /\ Decider(blocklist, ip)' = DeciderAt(blocklist', ip, accessNow')
      /\ Decider(allowlist, ip)' = DeciderAt(allowlist', ip, accessNow')
  BY DEF Decider, DeciderAt, OutOfDate, Old
<1>4. InDate(ip) <=> InDateAt(tempBlocks, ip, accessNow)
  BY DEF InDate, InDateAt
<1>5. InDate(ip)' <=> InDateAt(tempBlocks', ip, accessNow')
  BY DEF InDate, InDateAt
<1>6. /\ DeciderAt(blocklist, ip, accessNow) <= Len(blocklist) <=> Answered(blocklist, ip, accessNow)
      /\ DeciderAt(allowlist, ip, accessNow) <= Len(allowlist) <=> Answered(allowlist, ip, accessNow)
      /\ DeciderAt(blocklist', ip, accessNow') <= Len(blocklist') <=> Answered(blocklist', ip, accessNow')
      /\ DeciderAt(allowlist', ip, accessNow') <= Len(allowlist') <=> Answered(allowlist', ip, accessNow')
  BY <1>1, DeciderIs
<1>7. Blocked(ip) <=> InDateAt(tempBlocks, ip, accessNow) \/ Answered(blocklist, ip, accessNow)
  BY <1>2, <1>4, <1>6 DEF Blocked
<1>8. Allowed(ip) <=> Answered(allowlist, ip, accessNow)
  BY <1>2, <1>6 DEF Allowed
<1>9. Blocked(ip)' <=> InDateAt(tempBlocks', ip, accessNow') \/ Answered(blocklist', ip, accessNow')
  BY <1>3, <1>5, <1>6 DEF Blocked
<1>10. Allowed(ip)' <=> Answered(allowlist', ip, accessNow')
  BY <1>3, <1>6 DEF Allowed
<1> QED BY <1>7, <1>8, <1>9, <1>10

LEMMA ListedType ==
  ASSUME NEW list \in Seq(Listings), NEW range \in Ranges, NEW until \in Expiries \cup {Forever}
  PROVE  Listed(list, range, until) \in Seq(Listings) /\ Unlisted(list, range) \in Seq(Listings)
<1>1. <<range, until>> \in Listings
  BY DEF Listings
<1>2. Listed(list, range, until) \in Seq(Listings)
  <2> DEFINE L == [n \in DOMAIN list |-> IF list[n][1] = range THEN <<range, until>> ELSE list[n]]
  <2>1. L \in Seq(Listings)
    <3>1. DOMAIN list = 1 .. Len(list) /\ Len(list) \in Nat /\ \A n \in DOMAIN list : list[n] \in Listings
      OBVIOUS
    <3> QED BY <1>1, <3>1
  <2>2. Append(list, <<range, until>>) \in Seq(Listings)
    BY <1>1
  <2> QED BY <2>1, <2>2 DEF Listed
<1> QED BY <1>2, PassingType DEF Unlisted

LEMMA AccessTypes == AccessSpec => []AccessTypeOK
<1>1. AccessInit => AccessTypeOK
  BY AccessAssumption DEF AccessInit, AccessTypeOK
<1>2. AccessTypeOK /\ [AccessNext]_accessVars => AccessTypeOK'
  <2> SUFFICES ASSUME AccessTypeOK, [AccessNext]_accessVars PROVE AccessTypeOK'
    OBVIOUS
  <2>0. /\ allowlist \in Seq(Listings) /\ blocklist \in Seq(Listings)
        /\ \A t \in tempBlocks : t \in Addresses \X Nat
        /\ accessNow \in 0 .. MaxAccessNow /\ accessNow \in Nat /\ MaxAccessNow \in Nat
    BY AccessAssumption DEF AccessTypeOK
  <2>1. CASE Asking
    <3>1. \A ip : Walked(blocklist, ip) \in Seq(Listings) /\ Walked(allowlist, ip) \in Seq(Listings)
      BY <2>0, WalkedIs
    <3>2. InDateOnly(blocklist) \in Seq(Listings) /\ InDateOnly(allowlist) \in Seq(Listings)
      BY <2>0, InDateOnlyIs
    <3> QED BY <2>0, <2>1, <3>1, <3>2
         DEF AccessTypeOK, Asking, isBlocked, isAllowed, CleanTempBlocks, CleanLists
  <2>2. CASE AccessTick
    BY <2>0, <2>2 DEF AccessTypeOK, AccessTick
  <2>3. CASE importBlocklist
    <3>1. \A n \in DOMAIN blocklist : <<blocklist[n][1], Forever>> \in Listings
      BY <2>0 DEF Listings
    <3>2. [n \in DOMAIN blocklist |-> <<blocklist[n][1], Forever>>] \in Seq(Listings)
      BY <2>0, <3>1
    <3> QED BY <2>0, <2>3, <3>2 DEF AccessTypeOK, importBlocklist
  <2>4. ASSUME NEW range \in Ranges, NEW until \in Expiries,
               addToAllowlist(range, until) \/ addToBlocklist(range, until)
        PROVE  AccessTypeOK'
    BY <2>0, <2>4, ListedType DEF AccessTypeOK, addToAllowlist, addToBlocklist
  <2>5. ASSUME NEW range \in Ranges, removeFromAllowlist(range) \/ removeFromBlocklist(range)
        PROVE  AccessTypeOK'
    BY <2>0, <2>5, ListedType DEF AccessTypeOK, removeFromAllowlist, removeFromBlocklist
  <2>6. ASSUME NEW ip \in Addresses, tempBlock(ip, 1) \/ removeTempBlock(ip)
        PROVE  AccessTypeOK'
    <3>1. <<ip, accessNow + 1>> \in Addresses \X Nat
      BY <2>0
    <3> QED BY <2>0, <2>6, <3>1 DEF AccessTypeOK, tempBlock, removeTempBlock
  <2>7. CASE UNCHANGED accessVars
    BY <2>0, <2>7 DEF AccessTypeOK, accessVars
  <2> QED BY <2>1, <2>2, <2>3, <2>4, <2>5, <2>6, <2>7 DEF AccessNext
<1> QED BY <1>1, <1>2, PTL DEF AccessSpec

LEMMA AskingKeepsVerdicts ==
  ASSUME AccessTypeOK, AccessTypeOK', Asking, NEW ip
  PROVE  Blocked(ip)' = Blocked(ip) /\ Allowed(ip)' = Allowed(ip)
<1>0. /\ allowlist \in Seq(Listings) /\ blocklist \in Seq(Listings) /\ accessNow' = accessNow
  BY DEF AccessTypeOK, Asking, isBlocked, isAllowed, CleanTempBlocks, CleanLists
<1>1. Answered(blocklist', ip, accessNow) <=> Answered(blocklist, ip, accessNow)
  BY <1>0, WalkedAnswers, InDateOnlyIs DEF Asking, isBlocked, isAllowed, CleanTempBlocks, CleanLists
<1>2. Answered(allowlist', ip, accessNow) <=> Answered(allowlist, ip, accessNow)
  BY <1>0, WalkedAnswers, InDateOnlyIs DEF Asking, isBlocked, isAllowed, CleanTempBlocks, CleanLists
<1>3. InDateAt(tempBlocks', ip, accessNow) <=> InDateAt(tempBlocks, ip, accessNow)
  BY DEF InDateAt, InDate, Asking, isBlocked, isAllowed, CleanTempBlocks, CleanLists
<1> QED BY <1>0, <1>1, <1>2, <1>3, VerdictsAre DEF Blocked, Allowed

LEMMA TimeReleases ==
  ASSUME AccessTypeOK, AccessTypeOK', AccessTick, NEW ip
  PROVE  (Blocked(ip)' => Blocked(ip)) /\ (Allowed(ip)' => Allowed(ip))
<1>0. /\ allowlist \in Seq(Listings) /\ blocklist \in Seq(Listings)
      /\ allowlist' = allowlist /\ blocklist' = blocklist /\ tempBlocks' = tempBlocks
      /\ accessNow' = accessNow + 1 /\ accessNow \in Nat
      /\ \A t \in tempBlocks : t[2] \in Nat
  BY AccessAssumption DEF AccessTypeOK, AccessTick
<1>1. \A e \in Listings : Old(e, accessNow) => Old(e, accessNow + 1)
  <2> SUFFICES ASSUME NEW e \in Listings, Old(e, accessNow) PROVE Old(e, accessNow + 1)
    OBVIOUS
  <2>1. e[2] \in Nat /\ e[2] # Forever /\ e[2] < accessNow
    BY AccessAssumption DEF Listings, Old
  <2> QED BY <1>0, <2>1 DEF Old
<1>2. \A list \in Seq(Listings) : Answered(list, ip, accessNow + 1) => Answered(list, ip, accessNow)
  BY <1>1 DEF Answered, Answers, Elems
<1>3. InDateAt(tempBlocks, ip, accessNow + 1) => InDateAt(tempBlocks, ip, accessNow)
  BY <1>0 DEF InDateAt
<1> QED BY <1>0, <1>2, <1>3, VerdictsAre

(* Access lists (ip-whitelist.js): asking about an address and the cleanup *)
(* timers change no verdict although they delete entries, whichever of     *)
(* several overlapping ranges decides; and time alone blocks nobody.       *)
(* Tokens of cards can be used until each expires or is revoked by itself  *)
(* (tokenization.js).                                                      *)
THEOREM VerdictsStableHolds == AccessSpec /\ VaultSpec => VerdictsStable
<1>1. AccessTypeOK /\ AccessTypeOK' =>
        [accessVars' # accessVars /\ Asking => \A ip \in Addresses :
           Blocked(ip)' = Blocked(ip) /\ Allowed(ip)' = Allowed(ip)]_accessVars
  BY AskingKeepsVerdicts
<1>2. AccessTypeOK /\ AccessTypeOK' =>
        [AccessTick => \A ip \in Addresses :
           (Blocked(ip)' => Blocked(ip)) /\ (Allowed(ip)' => Allowed(ip))]_accessVars
  BY TimeReleases
<1>3. VaultTypeOK /\ [VaultNext]_vaultVars =>
        [\A t \in DOMAIN tokenVault :
           /\ t \in DOMAIN tokenVault' /\ tokenVault'[t].card = tokenVault[t].card
           /\ ~Usable(t) => ~Usable(t)'
           /\ (Usable(t) /\ ~Usable(t)' /\ tokenVault'[t].left # 0) =>
                \A u \in DOMAIN tokenVault \ {t} : Usable(u) => Usable(u)']_vaultVars
  BY VaultStep
<1> QED
  BY AccessTypes, VaultInvariance, <1>1, <1>2, <1>3, PTL
     DEF VerdictsStable, AskingChangesNoVerdict, TimeOnlyReleases, TokensIndependent, VaultSpec

-----------------------------------------------------------------------------
(* Alerts (alert-manager.js).                                              *)
\* The state of the judgement of a reading.
Acc == [value : Readings, active : SUBSET RuleIds, history : Seq(AlertEntry),
        entry : Nat, notified : [RuleIds -> [time : Int, entry : Nat]]]

(* What a rule is remembered by at a time: the last entry of a rule is no  *)
(* older than its notification and tells its state; the entry of the       *)
(* notification is in the history or has been cut off it.                  *)
RememberedIn(history, firing, entry, ntf, when, id) ==
  /\ \A i \in LastOf(history, id) :
       history[i].at >= ntf.time /\ (history[i].type = "triggered" <=> id \in firing)
  /\ ntf # NotYet =>
       /\ ntf.time <= when /\ ntf.time >= 0 /\ 1 <= ntf.entry /\ ntf.entry <= entry
       /\ ntf.entry > entry - Len(history) =>
            history[ntf.entry - (entry - Len(history))].ruleId = id

HistoryLength(history, firing, entry) ==
  /\ entry = Len(history) \/ (entry > Len(history) /\ Len(history) >= maxHistorySize)
  /\ Len(history) <= maxHistorySize + Cardinality(RuleIds \ firing)

Tells(a, when) ==
  /\ HistoryLength(a.history, a.active, a.entry)
  /\ \A id \in RuleIds : RememberedIn(a.history, a.active, a.entry, a.notified[id], when, id)

\* A notification and a later one of the same rule.
Apart(old, new) ==
  \/ new = old
  \/ /\ new # NotYet /\ new.time >= old.time /\ new.entry >= old.entry
     /\ \/ old = NotYet
        \/ new.time - old.time >= cooldown
        \/ new.entry - old.entry > maxHistorySize

LEMMA LastAppended ==
  ASSUME NEW h \in Seq(AlertEntry), NEW e \in AlertEntry, NEW id
  PROVE  LastOf(Append(h, e), id) = IF e.ruleId = id THEN {Len(h) + 1} ELSE LastOf(h, id)
<1> DEFINE t == Append(h, e)
           n == Len(h)
<1>1. n \in Nat /\ DOMAIN h = 1 .. n /\ DOMAIN t = 1 .. n + 1 /\ t[n + 1] = e /\ \A i \in 1 .. n : t[i] = h[i]
  OBVIOUS
<1> HIDE DEF t, n
<1>2. OfRule(t, id) = IF e.ruleId = id THEN OfRule(h, id) \cup {n + 1} ELSE OfRule(h, id)
  BY <1>1 DEF OfRule
<1>3. \A i \in OfRule(h, id) : i \in Int /\ i <= n
  BY <1>1 DEF OfRule
<1>4. LastOf(t, id) = IF e.ruleId = id THEN {n + 1} ELSE LastOf(h, id)
  <2>1. CASE e.ruleId = id
    <3>1. n + 1 \in OfRule(t, id) /\ \A j \in OfRule(t, id) : j <= n + 1
      BY <1>1, <1>2, <1>3, <2>1
    <3>2. ASSUME NEW i \in OfRule(t, id), \A j \in OfRule(t, id) : j <= i PROVE i = n + 1
      <4>1. n + 1 <= i /\ i <= n + 1
        BY <3>1, <3>2
      <4>2. i \in Int
        BY <1>1, <1>2, <1>3, <3>2
      <4> QED BY <1>1, <4>1, <4>2
    <3> QED BY <2>1, <3>1, <3>2 DEF LastOf
  <2>2. CASE e.ruleId # id
    BY <1>2, <2>2 DEF LastOf
  <2> QED BY <2>1, <2>2
<1> QED BY <1>4 DEF t, n

(* What is cut off leaves the places of the rest in order.                 *)
LEMMA TrimmedPlaces ==
  ASSUME NEW h \in Seq(AlertEntry)
  PROVE  /\ Trimmed(h) \in Seq(AlertEntry)
         /\ Len(Trimmed(h)) = IF Len(h) > maxHistorySize THEN maxHistorySize ELSE Len(h)
         /\ \A i \in 1 .. Len(Trimmed(h)) : /\ i + (Len(h) - Len(Trimmed(h))) \in 1 .. Len(h)
                                            /\ Trimmed(h)[i] = h[i + (Len(h) - Len(Trimmed(h)))]
<1> maxHistorySize \in Nat /\ maxHistorySize > 0
  BY AlertsAssumption
<1>1. CASE Len(h) > maxHistorySize
  <2> DEFINE d == Len(h) - maxHistorySize
             t == SubSeq(h, d + 1, Len(h))
  <2>1. d \in Nat /\ Len(h) \in Nat /\ d + maxHistorySize = Len(h)
    BY <1>1
  <2>2. t \in Seq(AlertEntry) /\ Len(t) = maxHistorySize
    BY <2>1
  <2>3. \A i \in 1 .. maxHistorySize : i + d \in 1 .. Len(h) /\ t[i] = h[i + d]
    BY <2>1, <2>2
  <2>4. Trimmed(h) = t
    BY <1>1 DEF Trimmed
  <2> QED BY <1>1, <2>2, <2>3, <2>4
<1>2. CASE ~(Len(h) > maxHistorySize)
  BY <1>2 DEF Trimmed
<1> QED BY <1>1, <1>2

LEMMA LastTrimmed ==
  ASSUME NEW h \in Seq(AlertEntry), NEW id, NEW i \in LastOf(Trimmed(h), id)
  PROVE  /\ i + (Len(h) - Len(Trimmed(h))) \in LastOf(h, id)
         /\ Trimmed(h)[i] = h[i + (Len(h) - Len(Trimmed(h)))]
<1> DEFINE t == Trimmed(h)
           d == Len(h) - Len(t)
<1>0. maxHistorySize \in Nat /\ maxHistorySize > 0
  BY AlertsAssumption
<1>1. t \in Seq(AlertEntry) /\ d \in Nat /\ \A j \in 1 .. Len(t) : j + d \in 1 .. Len(h) /\ t[j] = h[j + d]
  BY TrimmedPlaces, <1>0
<1>2. DOMAIN h = 1 .. Len(h) /\ DOMAIN t = 1 .. Len(t) /\ Len(h) \in Nat /\ Len(t) \in Nat /\ Len(h) = Len(t) + d
  BY <1>1
<1> HIDE DEF t, d
<1>3. i \in 1 .. Len(t) /\ t[i].ruleId = id /\ \A j \in 1 .. Len(t) : t[j].ruleId = id => j <= i
  BY <1>2 DEF LastOf, OfRule, t
<1>4. i + d \in OfRule(h, id) /\ t[i] = h[i + d]
  BY <1>1, <1>2, <1>3 DEF OfRule
<1>5. ASSUME NEW j \in OfRule(h, id) PROVE j <= i + d
  <2>1. j \in 1 .. Len(h) /\ h[j].ruleId = id
    BY <1>2 DEF OfRule
  <2>2. CASE j <= d
    BY <1>1, <1>3, <2>1, <2>2
  <2>3. CASE j > d
    <3>1. j - d \in 1 .. Len(t) /\ (j - d) + d = j
      BY <1>1, <1>2, <2>1, <2>3
    <3>2. t[j - d].ruleId = id
      BY <1>1, <2>1, <3>1
    <3> QED BY <1>1, <1>3, <2>1, <3>1, <3>2
  <2> QED BY <1>1, <2>1, <2>2, <2>3
<1> QED BY <1>4, <1>5 DEF LastOf, t, d

-----------------------------------------------------------------------------
(* An entry of another rule, an own entry, a cut: each leaves a rule       *)
(* remembered.                                                             *)
LEMMA OtherEntry ==
  ASSUME NEW h \in Seq(AlertEntry), NEW e \in AlertEntry, NEW A, NEW B, NEW n \in Nat,
         NEW ntf \in [time : Int, entry : Nat], NEW when \in Nat, NEW id,
         RememberedIn(h, A, n, ntf, when, id), e.ruleId # id, id \in A <=> id \in B, Len(h) <= n
  PROVE  RememberedIn(Append(h, e), B, n + 1, ntf, when, id)
<1> DEFINE t == Append(h, e)
<1>1. LastOf(t, id) = LastOf(h, id)
  BY LastAppended
<1>2. Len(t) = Len(h) + 1 /\ Len(h) \in Nat /\ \A i \in 1 .. Len(h) : t[i] = h[i]
  OBVIOUS
<1>3. \A i \in LastOf(h, id) : i \in 1 .. Len(h)
  BY DEF LastOf, OfRule
<1>4. ntf.entry \in Nat /\ ntf.time \in Int
  OBVIOUS
<1> HIDE DEF t
<1>5. ASSUME NEW i \in LastOf(t, id)
      PROVE  t[i].at >= ntf.time /\ (t[i].type = "triggered" <=> id \in B)
  BY <1>1, <1>2, <1>3 DEF RememberedIn
<1>6. ASSUME ntf # NotYet
      PROVE  /\ ntf.time <= when /\ ntf.time >= 0 /\ 1 <= ntf.entry /\ ntf.entry <= n + 1
             /\ ntf.entry > n + 1 - Len(t) => t[ntf.entry - (n + 1 - Len(t))].ruleId = id
  <2>1. /\ ntf.time <= when /\ ntf.time >= 0 /\ 1 <= ntf.entry /\ ntf.entry <= n
        /\ ntf.entry > n - Len(h) => h[ntf.entry - (n - Len(h))].ruleId = id
    BY <1>6 DEF RememberedIn
  <2>2. n + 1 - Len(t) = n - Len(h)
    BY <1>2
  <2>3. ntf.entry > n - Len(h) => ntf.entry - (n - Len(h)) \in 1 .. Len(h)
    BY <1>2, <1>4, <2>1
  <2> QED BY <1>2, <1>4, <2>1, <2>2, <2>3
<1>7. RememberedIn(t, B, n + 1, ntf, when, id)
  BY <1>5, <1>6 DEF RememberedIn
<1> QED BY <1>7 DEF t

LEMMA OwnEntry ==
  ASSUME NEW h \in Seq(AlertEntry), NEW e \in AlertEntry, NEW A, NEW B, NEW n \in Nat,
         NEW ntf \in [time : Int, entry : Nat], NEW when \in Nat, NEW id, NEW new \in [time : Int, entry : Nat],
         RememberedIn(h, A, n, ntf, when, id), e.ruleId = id, e.type = "triggered" <=> id \in B, Len(h) <= n,
         e.at = when, ntf.time <= when, new = ntf \/ new = [time |-> when, entry |-> n + 1]
  PROVE  RememberedIn(Append(h, e), B, n + 1, new, when, id)
<1> DEFINE t == Append(h, e)
<1>1. LastOf(t, id) = {Len(h) + 1}
  BY LastAppended
<1>2. Len(t) = Len(h) + 1 /\ Len(h) \in Nat /\ t[Len(h) + 1] = e /\ \A i \in 1 .. Len(h) : t[i] = h[i]
  OBVIOUS
<1>4. ntf.entry \in Nat /\ ntf.time \in Int /\ new.entry \in Nat /\ new.time \in Int
  OBVIOUS
<1> HIDE DEF t
<1>5. ASSUME NEW i \in LastOf(t, id)
      PROVE  t[i].at >= new.time /\ (t[i].type = "triggered" <=> id \in B)
  BY <1>1, <1>2, <1>4
<1>6. ASSUME new # NotYet
      PROVE  /\ new.time <= when /\ new.time >= 0 /\ 1 <= new.entry /\ new.entry <= n + 1
             /\ new.entry > n + 1 - Len(t) => t[new.entry - (n + 1 - Len(t))].ruleId = id
  <2>1. n + 1 - Len(t) = n - Len(h)
    BY <1>2
  <2>2. CASE new = ntf
    <3>1. /\ ntf.time <= when /\ ntf.time >= 0 /\ 1 <= ntf.entry /\ ntf.entry <= n
          /\ ntf.entry > n - Len(h) => h[ntf.entry - (n - Len(h))].ruleId = id
      BY <1>6, <2>2 DEF RememberedIn
    <3>2. ntf.entry > n - Len(h) => ntf.entry - (n - Len(h)) \in 1 .. Len(h)
      BY <1>2, <1>4, <3>1
    <3> QED BY <1>2, <1>4, <2>1, <2>2, <3>1, <3>2
  <2>3. CASE new = [time |-> when, entry |-> n + 1]
    <3>1. new.time = when /\ new.entry = n + 1
      BY <2>3
    <3>2. new.entry - (n - Len(h)) = Len(h) + 1
      BY <1>2, <3>1
    <3> QED BY <1>2, <2>1, <3>1, <3>2
  <2> QED BY <2>2, <2>3
<1>7. RememberedIn(t, B, n + 1, new, when, id)
  BY <1>5, <1>6 DEF RememberedIn
<1> QED BY <1>7 DEF t

LEMMA CutEntry ==
  ASSUME NEW h \in Seq(AlertEntry), NEW A, NEW n \in Nat, NEW ntf \in [time : Int, entry : Nat],
         NEW when \in Nat, NEW id, RememberedIn(h, A, n, ntf, when, id), Len(h) <= n
  PROVE  RememberedIn(Trimmed(h), A, n, ntf, when, id)
<1> DEFINE t == Trimmed(h)
           d == Len(h) - Len(t)
<1>0. maxHistorySize \in Nat /\ maxHistorySize > 0
  BY AlertsAssumption
<1>1. t \in Seq(AlertEntry) /\ d \in Nat /\ \A j \in 1 .. Len(t) : j + d \in 1 .. Len(h) /\ t[j] = h[j + d]
  BY TrimmedPlaces, <1>0
<1>2. Len(h) \in Nat /\ Len(t) \in Nat /\ Len(h) = Len(t) + d
  BY <1>1
<1>3. \A i \in LastOf(t, id) : i + d \in LastOf(h, id) /\ t[i] = h[i + d]
  BY LastTrimmed
<1>4. ntf.entry \in Nat /\ ntf.time \in Int
  OBVIOUS
<1> HIDE DEF t, d
<1>5. ASSUME NEW i \in LastOf(t, id)
      PROVE  t[i].at >= ntf.time /\ (t[i].type = "triggered" <=> id \in A)
  BY <1>3 DEF RememberedIn
<1>6. ASSUME ntf # NotYet
      PROVE  /\ ntf.time <= when /\ ntf.time >= 0 /\ 1 <= ntf.entry /\ ntf.entry <= n
             /\ ntf.entry > n - Len(t) => t[ntf.entry - (n - Len(t))].ruleId = id
  <2>1. /\ ntf.time <= when /\ ntf.time >= 0 /\ 1 <= ntf.entry /\ ntf.entry <= n
        /\ ntf.entry > n - Len(h) => h[ntf.entry - (n - Len(h))].ruleId = id
    BY <1>6 DEF RememberedIn
  <2>2. ASSUME ntf.entry > n - Len(t) PROVE t[ntf.entry - (n - Len(t))].ruleId = id
    <3> DEFINE i == ntf.entry - (n - Len(t))
    <3>0. ntf.entry \in Int /\ n \in Int /\ d \in Nat /\ ntf.entry <= n
      BY <1>1, <1>4, <2>1
    <3>1. i \in 1 .. Len(t) /\ ntf.entry > n - Len(h) /\ i + d = ntf.entry - (n - Len(h))
      BY <1>2, <2>2, <3>0
    <3> HIDE DEF i
    <3>2. t[i] = h[i + d]
      BY <1>1, <3>1
    <3> QED BY <2>1, <3>1, <3>2 DEF i
  <2> QED BY <2>1, <2>2
<1>7. RememberedIn(t, A, n, ntf, when, id)
  BY <1>5, <1>6 DEF RememberedIn
<1> QED BY <1>7 DEF t

-----------------------------------------------------------------------------
LEMMA SomeLast ==
  ASSUME NEW h \in Seq(AlertEntry), NEW id, LastOf(h, id) = {}
  PROVE  OfRule(h, id) = {}
<1> SUFFICES ASSUME OfRule(h, id) # {} PROVE FALSE
  OBVIOUS
<1>1. Len(h) \in Nat /\ DOMAIN h = 1 .. Len(h)
  OBVIOUS
<1>2. \A i \in OfRule(h, id) : i \in Nat /\ i <= Len(h)
  BY <1>1 DEF OfRule
<1>3. PICK i \in OfRule(h, id) : \A j \in OfRule(h, id) : j <= i
  <2>1. OfRule(h, id) \subseteq 1 .. Len(h)
    BY <1>1 DEF OfRule
  <2>2. IsFiniteSet(1 .. Len(h))
    BY <1>1, FS_Interval
  <2>3. IsFiniteSet(OfRule(h, id)) /\ OfRule(h, id) \subseteq Int
    BY <1>2, <2>1, <2>2, FS_Subset
  <2> QED BY <2>3, GreatestOf
<1> QED BY <1>3 DEF LastOf

LEMMA InactiveCount ==
  ASSUME NEW A
  PROVE  Cardinality(RuleIds \ A) \in Nat
<1>1. IsFiniteSet(RuleIds \ A)
  BY AlertsAssumption, FS_Subset
<1> QED BY <1>1, FS_CardinalityType

LEMMA OneResolved ==
  ASSUME NEW A, NEW r \in RuleIds, r \in A
  PROVE  Cardinality(RuleIds \ (A \ {r})) = Cardinality(RuleIds \ A) + 1
<1>1. RuleIds \ (A \ {r}) = (RuleIds \ A) \cup {r} /\ r \notin RuleIds \ A
  OBVIOUS
<1>2. IsFiniteSet(RuleIds \ A)
  BY AlertsAssumption, FS_Subset
<1> QED BY <1>1, <1>2, FS_AddElement

(* A rule that may notify: its last notification is far enough back.       *)
LEMMA FarEnough ==
  ASSUME NEW h \in Seq(AlertEntry), NEW A, NEW n \in Nat, NEW ntf \in [time : Int, entry : Nat],
         alertNow \in Nat, NEW id, RememberedIn(h, A, n, ntf, alertNow, id), HistoryLength(h, A, n),
         ~CoolingDown(h, id)
  PROVE  Apart(ntf, [time |-> alertNow, entry |-> n + 1])
<1> DEFINE new == [time |-> alertNow, entry |-> n + 1]
<1>0. cooldown \in Nat /\ maxHistorySize \in Nat
  BY AlertsAssumption
<1>1. new.time = alertNow /\ new.entry = n + 1 /\ ntf.time \in Int /\ ntf.entry \in Nat
  OBVIOUS
<1>2. new # NotYet
  BY <1>1 DEF NotYet
<1> HIDE DEF new
<1>3. CASE ntf = NotYet
  <2>1. ntf.time = -1 /\ ntf.entry = 0
    BY <1>3 DEF NotYet
  <2> QED BY <1>1, <1>2, <1>3, <2>1 DEF Apart, new
<1>4. CASE ntf # NotYet
  <2>1. /\ ntf.time <= alertNow /\ ntf.time >= 0 /\ 1 <= ntf.entry /\ ntf.entry <= n
        /\ ntf.entry > n - Len(h) => h[ntf.entry - (n - Len(h))].ruleId = id
    BY <1>4 DEF RememberedIn
  <2>2. new.time >= ntf.time /\ new.entry >= ntf.entry
    BY <1>1, <2>1
  <2>3. CASE LastOf(h, id) # {}
    <3>1. PICK i : i \in LastOf(h, id)
      BY <2>3
    <3>2. i \in 1 .. Len(h) /\ h[i].at >= ntf.time
      BY <3>1 DEF RememberedIn, LastOf, OfRule
    <3>3. h[i] \in AlertEntry
      BY <3>2
    <3>4. h[i].at \in Nat
      BY <3>3 DEF AlertEntry
    <3>5. ~(alertNow - h[i].at < cooldown)
      BY <3>1 DEF CoolingDown
    <3>6. new.time - ntf.time >= cooldown
      BY <1>0, <1>1, <3>2, <3>4, <3>5
    <3> QED BY <1>2, <2>2, <3>6 DEF Apart, new
  <2>4. CASE LastOf(h, id) = {}
    <3>1. OfRule(h, id) = {}
      BY <2>4, SomeLast
    <3>2. Len(h) \in Nat /\ \A j \in 1 .. Len(h) : h[j].ruleId # id
      BY <3>1 DEF OfRule
    <3>3. ~(ntf.entry > n - Len(h))
      <4> SUFFICES ASSUME ntf.entry > n - Len(h) PROVE FALSE
        OBVIOUS
      <4>1. ntf.entry - (n - Len(h)) \in 1 .. Len(h)
        BY <1>1, <2>1, <3>2
      <4> QED BY <2>1, <3>2, <4>1
    <3>4. Len(h) >= maxHistorySize
      BY <1>0, <1>1, <2>1, <3>2, <3>3 DEF HistoryLength
    <3>5. new.entry - ntf.entry > maxHistorySize
      BY <1>0, <1>1, <3>2, <3>3, <3>4
    <3> QED BY <1>2, <2>2, <3>5 DEF Apart, new
  <2> QED BY <2>3, <2>4
<1> QED BY <1>3, <1>4

Steady(a, b) == b \in Acc /\ Tells(b, alertNow) /\ \A id \in RuleIds : Apart(a.notified[id], b.notified[id])

\* What Judge makes of a, field by field.
Fired(a, r) ==
  [value |-> a.value, active |-> a.active \cup {r},
           history |-> Trimmed(Append(a.history, Entry(r, "triggered"))), entry |-> a.entry + 1,
           notified |-> [a.notified EXCEPT ![r] = [time |-> alertNow, entry |-> a.entry + 1]]]
Ended(a, r) ==
  [value |-> a.value, active |-> a.active \ {r},
           history |-> Append(a.history, Entry(r, "resolved")), entry |-> a.entry + 1,
           notified |-> a.notified]

LEMMA TriggerTells ==
  ASSUME NEW a \in Acc, NEW r \in RuleIds, Tells(a, alertNow), alertNow \in Nat,
         r \notin a.active, ~CoolingDown(a.history, r), NEW b, b = Fired(a, r)
  PROVE  Steady(a, b)
<1> DEFINE h == a.history
           A == a.active
           n == a.entry
           N == a.notified
           e == Entry(r, "triggered")
           t == Append(h, e)
           new == [time |-> alertNow, entry |-> n + 1]
<1>0. maxHistorySize \in Nat /\ maxHistorySize > 0
  BY AlertsAssumption
<1>1. h \in Seq(AlertEntry) /\ A \in SUBSET RuleIds /\ n \in Nat /\ N \in [RuleIds -> [time : Int, entry : Nat]]
  BY DEF Acc
<1>2. e \in AlertEntry /\ e.ruleId = r /\ e.type = "triggered" /\ e.at = alertNow
  BY DEF Entry, AlertEntry
<1>3. t \in Seq(AlertEntry) /\ Len(t) = Len(h) + 1 /\ Len(h) \in Nat
  BY <1>1, <1>2
<1>4. new \in [time : Int, entry : Nat]
  BY <1>1
<1>5. /\ b = [value |-> a.value, active |-> A \cup {r}, history |-> Trimmed(t), entry |-> n + 1,
              notified |-> [N EXCEPT ![r] = new]]
      /\ a.value \in Readings
  BY DEF Acc, Fired
<1>6. HistoryLength(h, A, n) /\ \A id \in RuleIds : RememberedIn(h, A, n, N[id], alertNow, id)
  BY DEF Tells
<1> HIDE DEF h, A, n, N, e, t, new
<1>7. /\ b.value = a.value /\ b.active = A \cup {r} /\ b.history = Trimmed(t) /\ b.entry = n + 1
      /\ b.notified = [N EXCEPT ![r] = new]
  BY ONLY <1>5
<1>8. /\ Trimmed(t) \in Seq(AlertEntry)
      /\ Len(Trimmed(t)) = IF Len(t) > maxHistorySize THEN maxHistorySize ELSE Len(t)
  BY <1>3, TrimmedPlaces
<1>9. [N EXCEPT ![r] = new] \in [RuleIds -> [time : Int, entry : Nat]]
  BY <1>1, <1>4
<1>10. b \in Acc
  <2>1. A \cup {r} \in SUBSET RuleIds /\ n + 1 \in Nat
    BY <1>1
  <2> QED BY <1>5, <1>8, <1>9, <2>1 DEF Acc
<1>11. /\ n = Len(h) \/ (n > Len(h) /\ Len(h) >= maxHistorySize)
       /\ Len(h) <= n
  BY <1>1, <1>3, <1>6 DEF HistoryLength
<1>12. Cardinality(RuleIds \ (A \cup {r})) \in Nat
  BY InactiveCount
<1>13. HistoryLength(Trimmed(t), A \cup {r}, n + 1)
  BY <1>0, <1>1, <1>3, <1>8, <1>11, <1>12 DEF HistoryLength
<1>14. Apart(N[r], new)
  BY <1>1, <1>6, FarEnough DEF new, h
<1>15. ASSUME NEW id \in RuleIds
       PROVE  RememberedIn(Trimmed(t), A \cup {r}, n + 1, b.notified[id], alertNow, id)
  <2>0. N[id] \in [time : Int, entry : Nat] /\ RememberedIn(h, A, n, N[id], alertNow, id)
    BY <1>1, <1>6
  <2>1. RememberedIn(t, A \cup {r}, n + 1, b.notified[id], alertNow, id)
    <3>1. CASE id # r
      <4>1. b.notified[id] = N[id] /\ (id \in A <=> id \in A \cup {r})
        BY <1>1, <1>7, <3>1
      <4>2. RememberedIn(t, A \cup {r}, n + 1, N[id], alertNow, id)
        BY <1>1, <1>2, <1>11, <2>0, <3>1, <4>1, OtherEntry DEF t
      <4> QED BY <4>1, <4>2
    <3>2. CASE id = r
      <4>1. b.notified[id] = new
        BY <1>1, <1>7, <3>2
      <4>2. N[id].time <= alertNow
        BY <2>0 DEF RememberedIn, NotYet
      <4>3. e.type = "triggered" <=> id \in A \cup {r}
        BY <1>2, <3>2
      <4>4. new = [time |-> alertNow, entry |-> n + 1]
        BY DEF new
      <4>5. RememberedIn(t, A \cup {r}, n + 1, new, alertNow, id)
        BY <1>1, <1>2, <1>4, <1>11, <2>0, <3>2, <4>2, <4>3, <4>4, OwnEntry DEF t
      <4> QED BY <4>1, <4>5
    <3> QED BY <3>1, <3>2
  <2>2. n + 1 \in Nat /\ Len(t) <= n + 1 /\ b.notified[id] \in [time : Int, entry : Nat]
    <3>1. n + 1 \in Nat /\ Len(t) <= n + 1
      BY <1>1, <1>3, <1>11
    <3>2. b.notified \in [RuleIds -> [time : Int, entry : Nat]]
      BY <1>7, <1>9
    <3> QED BY <3>1, <3>2
  <2> QED BY <1>3, <2>1, <2>2, CutEntry
<1>16. Tells(b, alertNow)
  BY <1>7, <1>13, <1>15 DEF Tells
<1>17. ASSUME NEW id \in RuleIds PROVE Apart(N[id], b.notified[id])
  <2>1. b.notified[id] = IF id = r THEN new ELSE N[id]
    BY <1>1, <1>7
  <2> QED BY <1>14, <2>1 DEF Apart
<1> QED BY <1>10, <1>16, <1>17 DEF Steady, N

LEMMA ResolveTells ==
  ASSUME NEW a \in Acc, NEW r \in RuleIds, Tells(a, alertNow), alertNow \in Nat,
         r \in a.active, NEW b, b = Ended(a, r)
  PROVE  Steady(a, b)
<1> DEFINE h == a.history
           A == a.active
           n == a.entry
           N == a.notified
           e == Entry(r, "resolved")
           t == Append(h, e)
<1>0. maxHistorySize \in Nat /\ maxHistorySize > 0
  BY AlertsAssumption
<1>1. h \in Seq(AlertEntry) /\ A \in SUBSET RuleIds /\ n \in Nat /\ N \in [RuleIds -> [time : Int, entry : Nat]]
  BY DEF Acc
<1>2. e \in AlertEntry /\ e.ruleId = r /\ e.type = "resolved" /\ e.at = alertNow
  BY DEF Entry, AlertEntry
<1>3. t \in Seq(AlertEntry) /\ Len(t) = Len(h) + 1 /\ Len(h) \in Nat
  BY <1>1, <1>2
<1>5. /\ b = [value |-> a.value, active |-> A \ {r}, history |-> t, entry |-> n + 1, notified |-> N]
      /\ a.value \in Readings
  BY DEF Acc, Ended
<1>6. HistoryLength(h, A, n) /\ \A id \in RuleIds : RememberedIn(h, A, n, N[id], alertNow, id)
  BY DEF Tells
<1>6a. r \in A
  OBVIOUS
<1> HIDE DEF h, A, n, N, e, t
<1>7. b.value = a.value /\ b.active = A \ {r} /\ b.history = t /\ b.entry = n + 1 /\ b.notified = N
  BY ONLY <1>5
<1>10. b \in Acc
  BY <1>1, <1>3, <1>5 DEF Acc
<1>11. /\ n = Len(h) \/ (n > Len(h) /\ Len(h) >= maxHistorySize)
       /\ Len(h) <= n /\ Len(h) <= maxHistorySize + Cardinality(RuleIds \ A)
  BY <1>1, <1>3, <1>6 DEF HistoryLength
<1>12. Cardinality(RuleIds \ A) \in Nat /\ Cardinality(RuleIds \ (A \ {r})) = Cardinality(RuleIds \ A) + 1
  BY <1>6a, InactiveCount, OneResolved
<1>13. HistoryLength(t, A \ {r}, n + 1)
  BY <1>0, <1>1, <1>3, <1>11, <1>12 DEF HistoryLength
<1>15. ASSUME NEW id \in RuleIds
       PROVE  RememberedIn(t, A \ {r}, n + 1, N[id], alertNow, id)
  <2>0. N[id] \in [time : Int, entry : Nat] /\ RememberedIn(h, A, n, N[id], alertNow, id)
    BY <1>1, <1>6
  <2>1. CASE id # r
    <3>1. id \in A <=> id \in A \ {r}
      BY <2>1
    <3> QED BY <1>1, <1>2, <1>11, <2>0, <2>1, <3>1, OtherEntry DEF t
  <2>2. CASE id = r
    <3>1. N[id].time <= alertNow
      BY <2>0 DEF RememberedIn, NotYet
    <3>2. e.type = "triggered" <=> id \in A \ {r}
      BY <1>2, <2>2
    <3> QED BY <1>1, <1>2, <1>11, <2>0, <2>2, <3>1, <3>2, OwnEntry DEF t
  <2> QED BY <2>1, <2>2
<1>16. Tells(b, alertNow)
  BY <1>7, <1>13, <1>15 DEF Tells
<1>17. ASSUME NEW id \in RuleIds PROVE Apart(N[id], b.notified[id])
  BY <1>7 DEF Apart
<1> QED BY <1>10, <1>16, <1>17 DEF Steady, N

LEMMA JudgedSteady ==
  ASSUME NEW a \in Acc, NEW rule \in AlertRule, Tells(a, alertNow), alertNow \in Nat
  PROVE  Steady(a, Judge(a, rule))
<1> DEFINE b == Judge(a, rule)
           r == rule.id
<1>1. r \in RuleIds
  BY DEF AlertRule
<1>2. \A id \in RuleIds : Apart(a.notified[id], a.notified[id])
  BY DEF Apart
<1>3. Steady(a, a)
  BY <1>2 DEF Steady
<1>4. a = [value |-> a.value, active |-> a.active, history |-> a.history, entry |-> a.entry,
           notified |-> a.notified]
  BY DEF Acc
<1>5. CASE a.value >= rule.threshold /\ ~(rule.id \in a.active \/ CoolingDown(a.history, rule.id))
  <2>1. b = [a EXCEPT !.active = @ \cup {r},
                      !.history = Trimmed(Append(@, Entry(r, "triggered"))),
                      !.entry = @ + 1,
                      !.notified[r] = [time |-> alertNow, entry |-> a.entry + 1]]
    BY <1>5 DEF Judge
  <2>2. b = Fired(a, r)
    BY <1>4, <2>1 DEF Fired
  <2> HIDE DEF b, r
  <2>3. r \notin a.active /\ ~CoolingDown(a.history, r)
    BY <1>5 DEF r
  <2>4. Steady(a, b)
    BY <1>1, <2>2, <2>3, TriggerTells
  <2> QED BY <2>4 DEF b
<1>6. CASE ~(a.value >= rule.threshold) /\ rule.id \in a.active
  <2>1. b = [a EXCEPT !.active = @ \ {r}, !.history = Append(@, Entry(r, "resolved")), !.entry = @ + 1]
    BY <1>6 DEF Judge
  <2>2. b = Ended(a, r)
    BY <1>4, <2>1 DEF Ended
  <2> HIDE DEF b, r
  <2>3. r \in a.active
    BY <1>6 DEF r
  <2>4. Steady(a, b)
    BY <1>1, <2>2, <2>3, ResolveTells
  <2> QED BY <2>4 DEF b
<1>7. CASE \/ a.value >= rule.threshold /\ (rule.id \in a.active \/ CoolingDown(a.history, rule.id))
           \/ ~(a.value >= rule.threshold) /\ rule.id \notin a.active
  <2>1. b = a
    BY <1>7 DEF Judge
  <2> QED BY <1>3, <2>1
<1> QED BY <1>5, <1>6, <1>7

(* What is apart from what is apart is apart.                              *)
LEMMA ApartTwice ==
  ASSUME NEW x \in [time : Int, entry : Nat], NEW y \in [time : Int, entry : Nat],
         NEW z \in [time : Int, entry : Nat], Apart(x, y), Apart(y, z)
  PROVE  Apart(x, z)
<1>0. cooldown \in Nat /\ maxHistorySize \in Nat
  BY AlertsAssumption
<1>1. x.time \in Int /\ y.time \in Int /\ z.time \in Int /\ x.entry \in Nat /\ y.entry \in Nat /\ z.entry \in Nat
  OBVIOUS
<1>2. CASE x = y \/ y = z
  BY <1>2
<1>3. CASE x # y /\ y # z
  <2>1. y # NotYet /\ y.time >= x.time /\ y.entry >= x.entry
        /\ (x = NotYet \/ y.time - x.time >= cooldown \/ y.entry - x.entry > maxHistorySize)
    BY <1>3 DEF Apart
  <2>2. z # NotYet /\ z.time >= y.time /\ z.entry >= y.entry
    BY <1>3 DEF Apart
  <2>3. z.time >= x.time /\ z.entry >= x.entry
        /\ (x = NotYet \/ z.time - x.time >= cooldown \/ z.entry - x.entry > maxHistorySize)
    BY <1>0, <1>1, <2>1, <2>2
  <2> QED BY <2>2, <2>3 DEF Apart
<1> QED BY <1>2, <1>3

LEMMA SteadyTwice ==
  ASSUME NEW a \in Acc, NEW b, NEW c, Steady(a, b), Steady(b, c)
  PROVE  Steady(a, c)
<1>1. b \in Acc /\ c \in Acc /\ Tells(c, alertNow)
  BY DEF Steady
<1>2. ASSUME NEW id \in RuleIds PROVE Apart(a.notified[id], c.notified[id])
  <2>1. /\ a.notified[id] \in [time : Int, entry : Nat] /\ b.notified[id] \in [time : Int, entry : Nat]
        /\ c.notified[id] \in [time : Int, entry : Nat]
    BY <1>1 DEF Acc
  <2>2. Apart(a.notified[id], b.notified[id]) /\ Apart(b.notified[id], c.notified[id])
    BY DEF Steady
  <2> QED BY <2>1, <2>2, ApartTwice
<1> QED BY <1>1, <1>2 DEF Steady

\* What the recursion of evaluate() computes.
Judging(f, a, metric) ==
  /\ f[0] = a
  /\ \A n \in 1 .. Len(rules) :
       f[n] = IF rules[n].enabled /\ rules[n].metric = metric THEN Judge(f[n - 1], rules[n]) ELSE f[n - 1]

Before(value) == [value |-> value, active |-> activeAlerts, history |-> alertHistory,
                  entry |-> entries, notified |-> notified]

LEMMA JudgingEnds ==
  ASSUME NEW f, NEW a \in Acc, NEW metric, AlertsTypeOK, Tells(a, alertNow), Judging(f, a, metric)
  PROVE  Steady(a, f[Len(rules)])
<1> DEFINE U == {n \in 0 .. Len(rules) : Steady(a, f[n])}
<1>0. Len(rules) \in Nat /\ alertNow \in Nat /\ \A n \in 1 .. Len(rules) : rules[n] \in AlertRule
  BY DEF AlertsTypeOK
<1>1. 0 \in U
  <2>1. \A id \in RuleIds : Apart(a.notified[id], a.notified[id])
    BY DEF Apart
  <2> QED BY <1>0, <2>1 DEF Judging, Steady
<1>2. ASSUME NEW n \in 0 .. Len(rules), n < Len(rules), n \in U PROVE n + 1 \in U
  <2>1. n + 1 \in 1 .. Len(rules) /\ (n + 1) - 1 = n
    BY <1>0, <1>2
  <2>2. f[n + 1] = IF rules[n + 1].enabled /\ rules[n + 1].metric = metric
                   THEN Judge(f[n], rules[n + 1]) ELSE f[n]
    BY <2>1 DEF Judging
  <2>3. Steady(a, f[n]) /\ f[n] \in Acc /\ Tells(f[n], alertNow)
    BY <1>2 DEF Steady
  <2>4. Steady(f[n], Judge(f[n], rules[n + 1]))
    BY <1>0, <2>1, <2>3, JudgedSteady
  <2>5. Steady(a, Judge(f[n], rules[n + 1]))
    BY <2>3, <2>4, SteadyTwice
  <2> QED BY <2>1, <2>2, <2>3, <2>5
<1> HIDE DEF U
<1>3. \A n \in 0 .. Len(rules) : n \in U
  BY <1>0, <1>1, <1>2, UpTo, Zenon
<1>4. Len(rules) \in U
  BY <1>0, <1>3
<1> QED BY <1>4 DEF U

(* The recursion has a solution: a step maps judgements to judgements.     *)
LEMMA EvaluatedJudges ==
  ASSUME NEW metric, NEW value \in Readings, AlertsTypeOK, Tells(Before(value), alertNow)
  PROVE  Steady(Before(value), Evaluated(metric, value))
<1> DEFINE N == Len(rules)
           a == Before(value)
           Good == {x \in Acc : Tells(x, alertNow)}
           st == [n \in 1 .. N |-> [x \in Good |->
                    IF rules[n].enabled /\ rules[n].metric = metric THEN Judge(x, rules[n]) ELSE x]]
           Body(judged) == [n \in 0 .. N |-> IF n = 0 THEN a
                              ELSE IF rules[n].enabled /\ rules[n].metric = metric
                              THEN Judge(judged[n - 1], rules[n]) ELSE judged[n - 1]]
<1>0. N \in Nat /\ alertNow \in Nat /\ \A n \in 1 .. N : rules[n] \in AlertRule
  BY DEF AlertsTypeOK
<1>1. a \in Good /\ a \in Acc
  BY DEF AlertsTypeOK, Acc, Before
<1>2. \A x \in Good, n \in 1 .. N : Judge(x, rules[n]) \in Good
  BY <1>0, JudgedSteady DEF Steady
<1>3. st \in [1 .. N -> [Good -> Good]]
  BY <1>2
<1>4. \A n \in 1 .. N, x \in Good :
        st[n][x] = IF rules[n].enabled /\ rules[n].metric = metric THEN Judge(x, rules[n]) ELSE x
  OBVIOUS
<1>5. Evaluated(metric, value) = (CHOOSE judged : judged = Body(judged))[N]
  BY DEF Evaluated, Before
<1> HIDE DEF N, a, Good, st
<1>6. \E f \in [0 .. N -> Good] : Solves(f, N, a, st)
  BY <1>0, <1>1, <1>3, Recursion, Zenon
<1>7. PICK f \in [0 .. N -> Good] : f[0] = a /\ \A n \in 1 .. N : f[n] = st[n][f[n - 1]]
  BY <1>6 DEF Solves
<1>8. f = Body(f)
  <2>1. \A n \in 1 .. N : n - 1 \in 0 .. N /\ f[n - 1] \in Good
    BY <1>0, <1>7
  <2>2. \A n \in 1 .. N : f[n] = IF rules[n].enabled /\ rules[n].metric = metric
                                 THEN Judge(f[n - 1], rules[n]) ELSE f[n - 1]
    BY <1>4, <1>7, <2>1
  <2>3. \A n \in 0 .. N : n = 0 \/ n \in 1 .. N
    BY <1>0
  <2>4. \A n \in 0 .. N : f[n] = Body(f)[n]
    BY <1>7, <2>2, <2>3
  <2> QED BY <1>7, <2>4
<1> DEFINE h == CHOOSE judged : judged = Body(judged)
<1>9. h = Body(h)
  BY <1>8
<1> HIDE DEF h
<1>10. Judging(h, a, metric)
  <2>1. 0 \in 0 .. N /\ \A n \in 1 .. N : n \in 0 .. N /\ n # 0
    BY <1>0
  <2>2. h[0] = Body(h)[0] /\ \A n \in 1 .. N : h[n] = Body(h)[n]
    BY <1>9
  <2>3. Body(h)[0] = a /\ \A n \in 1 .. N : Body(h)[n] =
          IF rules[n].enabled /\ rules[n].metric = metric THEN Judge(h[n - 1], rules[n]) ELSE h[n - 1]
    BY <2>1
  <2> HIDE DEF Body
  <2>4. h[0] = a /\ \A n \in 1 .. N : h[n] =
          IF rules[n].enabled /\ rules[n].metric = metric THEN Judge(h[n - 1], rules[n]) ELSE h[n - 1]
    BY <2>2, <2>3
  <2> QED BY <2>4 DEF Judging, N
<1> HIDE DEF Body
<1>11. Steady(a, h[N])
  BY <1>1, <1>10, JudgingEnds DEF N, Good, a
<1> QED BY <1>5, <1>11 DEF h, a

----------------------------------------------------------------
-----------------------------------------------------------------------------
AlertsInv ==
  /\ AlertsTypeOK /\ HistoryLength(alertHistory, activeAlerts, entries)
  /\ \A id \in RuleIds :
       RememberedIn(alertHistory, activeAlerts, entries, notified[id], alertNow, id)

LEMMA AlertsStart == AlertsInit => AlertsInv
<1> SUFFICES ASSUME AlertsInit PROVE AlertsInv
  OBVIOUS
<1>1. AlertsTypeOK
  BY DEF AlertsInit, AlertsTypeOK, NotYet
<1>2. alertHistory = <<>> /\ entries = 0 /\ alertNow = 0 /\ activeAlerts = {}
  BY DEF AlertsInit
<1>3. maxHistorySize \in Nat /\ Cardinality(RuleIds \ {}) \in Nat
  BY AlertsAssumption, InactiveCount
<1>4. HistoryLength(alertHistory, activeAlerts, entries)
  BY <1>2, <1>3 DEF HistoryLength
<1>5. ASSUME NEW id \in RuleIds
      PROVE  RememberedIn(alertHistory, activeAlerts, entries, notified[id], alertNow, id)
  <2>1. notified[id] = NotYet
    BY DEF AlertsInit
  <2>2. LastOf(alertHistory, id) = {}
    BY <1>2 DEF LastOf, OfRule
  <2> QED BY <2>1, <2>2 DEF RememberedIn
<1> QED BY <1>1, <1>4, <1>5 DEF AlertsInv

(* A reading: the judgement of evaluate() keeps what rules are remembered  *)
(* by, and notifies no rule too early.                                     *)
LEMMA ReadingSteady ==
  ASSUME AlertsInv, NEW m \in AlertMetrics, NEW v \in Readings, evaluate(m, v)
  PROVE  AlertsInv' /\ \A id \in RuleIds : Apart(notified[id], notified'[id])
<1> DEFINE a == Before(v)
<1>1. /\ a.active = activeAlerts /\ a.history = alertHistory
      /\ a.entry = entries /\ a.notified = notified
  BY DEF Before
<1>2. Tells(a, alertNow)
  BY <1>1 DEF AlertsInv, Tells
<1> HIDE DEF a
<1>3. PICK c : c = Evaluated(m, v)
  OBVIOUS
<1>4. Steady(a, c)
  BY <1>2, <1>3, EvaluatedJudges DEF AlertsInv, a
<1>5. /\ activeAlerts' = c.active /\ alertHistory' = c.history
      /\ entries' = c.entry /\ notified' = c.notified
      /\ rules' = rules /\ alertNow' = alertNow
  BY <1>3 DEF evaluate
<1>6. c \in Acc /\ Tells(c, alertNow) /\ \A id \in RuleIds : Apart(a.notified[id], c.notified[id])
  BY <1>4 DEF Steady
<1>7. AlertsTypeOK'
  BY <1>5, <1>6 DEF Acc, AlertsInv, AlertsTypeOK
<1>8. /\ HistoryLength(c.history, c.active, c.entry)
      /\ \A id \in RuleIds : RememberedIn(c.history, c.active, c.entry, c.notified[id], alertNow, id)
  BY <1>6 DEF Tells
<1>9. HistoryLength(alertHistory, activeAlerts, entries)'
  BY <1>5, <1>8 DEF HistoryLength
<1>10. ASSUME NEW id \in RuleIds
       PROVE  RememberedIn(alertHistory, activeAlerts, entries, notified[id], alertNow, id)'
  BY <1>5, <1>8 DEF RememberedIn, LastOf, OfRule
<1> QED BY <1>1, <1>5, <1>6, <1>7, <1>9, <1>10 DEF AlertsInv

LEMMA AlertsStep ==
  ASSUME AlertsInv, [AlertsNext]_alertVars
  PROVE  AlertsInv' /\ \A id \in RuleIds : Apart(notified[id], notified'[id])
<1>1. \A id \in RuleIds : Apart(notified[id], notified[id])
  BY DEF Apart
<1>2. ASSUME NEW id \in RuleIds, NEW m \in AlertMetrics, NEW t \in Thresholds, NEW on \in BOOLEAN,
             addRule(id, m, t, on)
      PROVE  AlertsInv' /\ \A r \in RuleIds : Apart(notified[r], notified'[r])
  <2>1. /\ activeAlerts' = activeAlerts /\ alertHistory' = alertHistory /\ alertNow' = alertNow
        /\ notified' = notified /\ entries' = entries
    BY <1>2 DEF addRule
  <2>2. PICK rule \in AlertRule :
          rules' = IF id \in Ids THEN [i \in DOMAIN rules |-> IF rules[i].id = id THEN rule ELSE rules[i]]
                   ELSE Append(rules, rule)
    BY <1>2 DEF addRule, AlertRule
  <2>3. rules' \in Seq(AlertRule)
    BY <2>2 DEF AlertsInv, AlertsTypeOK
  <2>4. AlertsTypeOK'
    BY <2>1, <2>3 DEF AlertsInv, AlertsTypeOK
  <2>5. HistoryLength(alertHistory, activeAlerts, entries)'
    BY <2>1 DEF AlertsInv, HistoryLength
  <2>6. ASSUME NEW r \in RuleIds
        PROVE  RememberedIn(alertHistory, activeAlerts, entries, notified[r], alertNow, r)'
    BY <2>1 DEF AlertsInv, RememberedIn, LastOf, OfRule
  <2> QED BY <1>1, <2>1, <2>4, <2>5, <2>6 DEF AlertsInv
<1>3. ASSUME NEW m \in AlertMetrics, NEW v \in Readings, evaluate(m, v)
      PROVE  AlertsInv' /\ \A id \in RuleIds : Apart(notified[id], notified'[id])
  BY <1>3, ReadingSteady
<1>4. ASSUME AlertTick
      PROVE  AlertsInv' /\ \A id \in RuleIds : Apart(notified[id], notified'[id])
  <2>1. /\ rules' = rules /\ activeAlerts' = activeAlerts /\ alertHistory' = alertHistory
        /\ notified' = notified /\ entries' = entries /\ alertNow' = alertNow + 1
    BY <1>4 DEF AlertTick
  <2>4. AlertsTypeOK'
    BY <2>1 DEF AlertsInv, AlertsTypeOK
  <2>5. HistoryLength(alertHistory, activeAlerts, entries)'
    BY <2>1 DEF AlertsInv, HistoryLength
  <2>6. ASSUME NEW r \in RuleIds
        PROVE  RememberedIn(alertHistory, activeAlerts, entries, notified[r], alertNow, r)'
    <3>1. RememberedIn(alertHistory, activeAlerts, entries, notified[r], alertNow, r)
      BY DEF AlertsInv
    <3>2. notified[r].time \in Int /\ alertNow \in Nat
      BY DEF AlertsInv, AlertsTypeOK
    <3>3. notified[r].time <= alertNow => notified[r].time <= alertNow + 1
      BY <3>2
    <3> QED BY <2>1, <3>1, <3>3 DEF RememberedIn, LastOf, OfRule
  <2> QED BY <1>1, <2>1, <2>4, <2>5, <2>6 DEF AlertsInv
<1>5. ASSUME UNCHANGED alertVars
      PROVE  AlertsInv' /\ \A id \in RuleIds : Apart(notified[id], notified'[id])
  <2>1. /\ rules' = rules /\ activeAlerts' = activeAlerts /\ alertHistory' = alertHistory
        /\ notified' = notified /\ entries' = entries /\ alertNow' = alertNow
    BY <1>5 DEF alertVars
  <2>4. AlertsTypeOK'
    BY <2>1 DEF AlertsInv, AlertsTypeOK
  <2>5. HistoryLength(alertHistory, activeAlerts, entries)'
    BY <2>1 DEF AlertsInv, HistoryLength
  <2>6. ASSUME NEW r \in RuleIds
        PROVE  RememberedIn(alertHistory, activeAlerts, entries, notified[r], alertNow, r)'
    BY <2>1 DEF AlertsInv, RememberedIn, LastOf, OfRule
  <2> QED BY <1>1, <2>1, <2>4, <2>5, <2>6 DEF AlertsInv
<1> QED BY <1>2, <1>3, <1>4, <1>5 DEF AlertsNext

LEMMA HistoryTellsFromInv == ASSUME AlertsInv PROVE HistoryTells
<1>1. /\ Cardinality(RuleIds) \in Nat
      /\ Cardinality(RuleIds \ activeAlerts) \in Nat
      /\ Cardinality(RuleIds \ activeAlerts) <= Cardinality(RuleIds)
  <2>1. RuleIds \ activeAlerts \subseteq RuleIds
    OBVIOUS
  <2> QED BY <2>1, AlertsAssumption, FS_Subset, FS_CardinalityType
<1>2. Len(alertHistory) <= maxHistorySize + Cardinality(RuleIds \ activeAlerts)
  BY DEF AlertsInv, HistoryLength
<1>3. maxHistorySize \in Nat /\ Len(alertHistory) \in Nat
  BY AlertsAssumption DEF AlertsInv, AlertsTypeOK
<1>4. Len(alertHistory) <= maxHistorySize + Cardinality(RuleIds)
  BY <1>1, <1>2, <1>3
<1>5. \A id \in RuleIds : \A i \in LastOf(alertHistory, id) :
        alertHistory[i].type = "triggered" <=> id \in activeAlerts
  BY DEF AlertsInv, RememberedIn
<1> QED BY <1>4, <1>5 DEF HistoryTells

(* Alerts (alert-manager.js:46, :86): whatever rules are added or changed, *)
(* whatever readings come and when, a rule notifies again a cooldown after *)
(* it last did, unless more entries than the history holds came between,   *)
(* and the history that is left tells which alerts are active.             *)
THEOREM AlertsSoundHolds == AlertsSpec => AlertsSound
<1>1. AlertsInit => AlertsInv
  BY AlertsStart
<1>2. AlertsInv /\ [AlertsNext]_alertVars => AlertsInv'
  BY AlertsStep
<1>3. AlertsInv => HistoryTells
  BY HistoryTellsFromInv
<1>4. AlertsInv /\ [AlertsNext]_alertVars =>
        [\A id \in RuleIds : notified'[id] # notified[id] =>
           \/ notified[id] = NotYet
           \/ notified'[id].time - notified[id].time >= cooldown
           \/ notified'[id].entry - notified[id].entry > maxHistorySize]_alertVars
  BY AlertsStep DEF Apart
<1> QED BY <1>1, <1>2, <1>3, <1>4, PTL DEF AlertsSpec, AlertsSound, NotificationsSpaced

-----------------------------------------------------------------------------
(* Risk scores (fraud-detection.js).                                       *)
Events == EventTypes \X Nat
Endings == RiskUsers \X EventTypes \X Nat
Reading == [busy : {TRUE}, user : RiskUsers, began : Nat, after : Nat, count : Nat]

RiskTypeOK ==
  /\ riskNow \in Nat
  /\ recentEvents \in [RiskUsers -> Seq(Events)]
  /\ finished \in Seq(Endings)
  /\ \A a \in Analyses : analyzing[a] = Idle \/ (analyzing[a] \in Reading /\ analyzing[a].after <= Len(finished))

\* Events of a type after t, and those of a user.
Since(type, t) == {e \in Events : e[1] = type /\ e[2] > t}
SinceOf(u, type, t) == {e \in Endings : e[1] = u /\ e[2] = type /\ e[3] > t}

\* The stored events of a user are as many as have ended, of any type and
\* within any span that is not longer than the retention.
SameCount(events, ended, u, type, t) ==
  Len(Passing(events, Since(type, t))) = Len(Passing(ended, SinceOf(u, type, t)))
StoredAgree ==
  \A u \in RiskUsers, type \in EventTypes, t \in Int :
    t >= riskNow - EventRetention => SameCount(recentEvents[u], finished, u, type, t)

RiskIInv == RiskTypeOK /\ StoredAgree /\ VelocityCountsFinished

(* Appending one event to both keeps the counts equal.                     *)
LEMMA SameCountAppend ==
  ASSUME NEW events \in Seq(Events), NEW ended \in Seq(Endings), NEW moment \in Nat,
         NEW u \in RiskUsers, NEW kind \in EventTypes,
         NEW v \in RiskUsers, NEW type \in EventTypes, NEW t \in Int,
         SameCount(events, ended, v, type, t)
  PROVE  /\ v = u => SameCount(Append(events, <<kind, moment>>), Append(ended, <<u, kind, moment>>), v, type, t)
         /\ v # u => SameCount(events, Append(ended, <<u, kind, moment>>), v, type, t)
<1> DEFINE e == <<kind, moment>>
           f == <<u, kind, moment>>
           A == Passing(events, Since(type, t))
           B == Passing(ended, SinceOf(v, type, t))
<1>1. e \in Events /\ f \in Endings
  BY DEF Events, Endings
<1>2. e \in Since(type, t) <=> kind = type /\ moment > t
  BY <1>1 DEF Since
<1>3. f \in SinceOf(v, type, t) <=> u = v /\ kind = type /\ moment > t
  BY <1>1 DEF SinceOf
<1>4. A \in Seq(Events) /\ B \in Seq(Endings) /\ Len(A) = Len(B)
  BY PassingType DEF SameCount
<1>5. Passing(Append(events, e), Since(type, t)) = IF e \in Since(type, t) THEN Append(A, e) ELSE A
  BY <1>1, PassingAppend
<1>6. Passing(Append(ended, f), SinceOf(v, type, t)) = IF f \in SinceOf(v, type, t) THEN Append(B, f) ELSE B
  BY <1>1, PassingAppend
<1> HIDE DEF e, f, A, B
<1>7. Len(Append(A, e)) = Len(A) + 1 /\ Len(Append(B, f)) = Len(B) + 1
  BY <1>1, <1>4
<1>8. ASSUME v = u PROVE SameCount(Append(events, e), Append(ended, f), v, type, t)
  BY <1>2, <1>3, <1>4, <1>5, <1>6, <1>7, <1>8 DEF SameCount
<1>9. ASSUME v # u PROVE SameCount(events, Append(ended, f), v, type, t)
  BY <1>3, <1>4, <1>6, <1>9 DEF SameCount, A, B
<1> QED BY <1>8, <1>9 DEF e, f

(* What is dropped is too old to be counted.                               *)
LEMMA StoredCounts ==
  ASSUME NEW events \in Seq(Events), NEW t \in Int, NEW old \in Int, t >= old, NEW type \in EventTypes
  PROVE  Passing(Passing(events, NotBefore(old)), Since(type, t)) = Passing(events, Since(type, t))
<1>1. NotBefore(old) \cap Since(type, t) = Since(type, t)
  <2>1. \A e \in Since(type, t) : e \in NotBefore(old)
    <3> SUFFICES ASSUME NEW e \in Since(type, t) PROVE e \in NotBefore(old)
      OBVIOUS
    <3>1. e \in EventTypes \X Nat /\ e[2] > t /\ e[2] \in Nat
      BY DEF Since, Events
    <3>2. e[2] >= old /\ e[2] \in Int
      BY <3>1
    <3> QED BY <3>1, <3>2 DEF NotBefore
  <2> QED BY <2>1
<1> QED BY <1>1, PassingTwice

LEMMA StoreAgrees ==
  ASSUME RiskTypeOK, StoredAgree, NEW u \in RiskUsers, NEW kind \in EventTypes, Store(u, kind),
         riskNow' = riskNow
  PROVE  /\ recentEvents' \in [RiskUsers -> Seq(Events)] /\ finished' \in Seq(Endings)
         /\ Len(finished') = Len(finished) + 1 /\ \A n \in 1 .. Len(finished) : finished'[n] = finished[n]
         /\ StoredAgree'
<1> DEFINE e == <<kind, riskNow>>
           f == <<u, kind, riskNow>>
           old == riskNow - EventRetention
<1>1. /\ riskNow \in Nat /\ recentEvents \in [RiskUsers -> Seq(Events)] /\ finished \in Seq(Endings)
      /\ old \in Int /\ e \in Events /\ f \in Endings
  BY RiskAssumption DEF RiskTypeOK, Events, Endings
<1>2. /\ recentEvents' = [recentEvents EXCEPT ![u] = Passing(Append(recentEvents[u], e), NotBefore(old))]
      /\ finished' = Append(finished, f)
  BY DEF Store, Stored
<1>3. recentEvents[u] \in Seq(Events) /\ Append(recentEvents[u], e) \in Seq(Events)
  BY <1>1
<1>4. Passing(Append(recentEvents[u], e), NotBefore(old)) \in Seq(Events)
  BY <1>3, PassingType
<1>5. recentEvents' \in [RiskUsers -> Seq(Events)]
  BY <1>1, <1>2, <1>4
<1>6. finished' \in Seq(Endings) /\ Len(finished') = Len(finished) + 1
      /\ \A n \in 1 .. Len(finished) : finished'[n] = finished[n]
  BY <1>1, <1>2
<1>7. StoredAgree'
  <2> SUFFICES ASSUME NEW v \in RiskUsers, NEW type \in EventTypes, NEW t \in Int, t >= old
               PROVE  SameCount(recentEvents'[v], finished', v, type, t)
    BY DEF StoredAgree
  <2>1. SameCount(recentEvents[v], finished, v, type, t) /\ recentEvents[v] \in Seq(Events)
    BY <1>1 DEF StoredAgree
  <2>2. CASE v = u
    <3>1. SameCount(Append(recentEvents[v], e), Append(finished, f), v, type, t)
      BY <1>1, <2>1, <2>2, SameCountAppend
    <3>2. Passing(Passing(Append(recentEvents[u], e), NotBefore(old)), Since(type, t))
          = Passing(Append(recentEvents[u], e), Since(type, t))
      BY <1>1, <1>3, StoredCounts
    <3>3. recentEvents'[v] = Passing(Append(recentEvents[v], e), NotBefore(old))
      BY <1>1, <1>2, <2>2
    <3> HIDE DEF e, f, old
    <3> QED BY <1>2, <2>2, <3>1, <3>2, <3>3 DEF SameCount
  <2>3. CASE v # u
    <3>1. SameCount(recentEvents[v], Append(finished, f), v, type, t)
      BY <1>1, <2>1, <2>3, SameCountAppend
    <3>2. recentEvents'[v] = recentEvents[v]
      BY <1>1, <1>2, <2>3
    <3> QED BY <1>2, <3>1, <3>2
  <2> QED BY <2>2, <2>3
<1> QED BY <1>5, <1>6, <1>7

\* The transactions an analysis of u that began at b should count.
Counting(ended, k, u, b) ==
  {n \in 1 .. k : /\ ended[n][1] = u /\ ended[n][2] = "transaction"
                  /\ ended[n][3] > b - TxnWindow}

LEMMA VelocityRight ==
  ASSUME RiskTypeOK, StoredAgree, NEW u \in RiskUsers
  PROVE  /\ _getRecentEventCount(u, "transaction", TxnWindow)
            = Cardinality(Counting(finished, Len(finished), u, riskNow))
         /\ _getRecentEventCount(u, "transaction", TxnWindow) \in Nat
<1> DEFINE t == riskNow - TxnWindow
           R == recentEvents[u]
<1>1. /\ riskNow \in Nat /\ R \in Seq(Events) /\ finished \in Seq(Endings) /\ t \in Int
      /\ t >= riskNow - EventRetention /\ "transaction" \in EventTypes
  BY RiskAssumption DEF RiskTypeOK, EventTypes
<1>2. SameCount(R, finished, u, "transaction", t)
  BY <1>1 DEF StoredAgree
<1>3. {n \in DOMAIN R : R[n][1] = "transaction" /\ R[n][2] > t} = PlacesIn(R, Since("transaction", t))
  <2>1. DOMAIN R = 1 .. Len(R) /\ \A n \in DOMAIN R : R[n] \in Events
    BY <1>1
  <2> QED BY <2>1 DEF PlacesIn, Since
<1>4. Counting(finished, Len(finished), u, riskNow) = PlacesIn(finished, SinceOf(u, "transaction", t))
  <2>1. \A n \in 1 .. Len(finished) : finished[n] \in Endings
    BY <1>1
  <2> QED BY <2>1 DEF PlacesIn, SinceOf, Counting
<1>5. /\ Len(Passing(R, Since("transaction", t))) = Cardinality(PlacesIn(R, Since("transaction", t)))
      /\ Len(Passing(finished, SinceOf(u, "transaction", t)))
         = Cardinality(PlacesIn(finished, SinceOf(u, "transaction", t)))
      /\ IsFiniteSet(PlacesIn(R, Since("transaction", t)))
  BY <1>1, PassingCount
<1>6. Cardinality(PlacesIn(R, Since("transaction", t))) \in Nat
  BY <1>5, FS_CardinalityType
<1> HIDE DEF R
<1>7. _getRecentEventCount(u, "transaction", TxnWindow)
      = Cardinality(PlacesIn(R, Since("transaction", t)))
  BY <1>3 DEF _getRecentEventCount, R
<1> QED BY <1>2, <1>4, <1>5, <1>6, <1>7 DEF SameCount

\* One analysis and what it goes by.
CountRight(r, ended) ==
  r.busy => r.count = Cardinality(Counting(ended, r.after, r.user, r.began))

LEMMA CountLater ==
  ASSUME NEW r \in Reading, NEW ended, NEW later, \A n \in 1 .. r.after : later[n] = ended[n],
         CountRight(r, ended)
  PROVE  CountRight(r, later)
<1>1. Counting(later, r.after, r.user, r.began) = Counting(ended, r.after, r.user, r.began)
  BY DEF Counting
<1> QED BY <1>1 DEF CountRight

LEMMA VelocitiesAre == VelocityCountsFinished <=> \A a \in Analyses : CountRight(analyzing[a], finished)
BY DEF VelocityCountsFinished, CountRight, Counting

LEMMA VelocitiesHold == RiskSpec => []VelocityCountsFinished
<1>1. RiskInit => RiskIInv
  <2> SUFFICES ASSUME RiskInit PROVE RiskIInv
    OBVIOUS
  <2>1. RiskTypeOK
    <3>1. recentEvents \in [RiskUsers -> Seq(Events)]
      BY DEF RiskInit
    <3> QED BY <3>1 DEF RiskInit, RiskTypeOK
  <2>2. StoredAgree
    <3>1. \A T : Passing(<<>>, T) = <<>>
      BY PassingNone
    <3> QED BY <3>1 DEF RiskInit, StoredAgree, SameCount
  <2>3. VelocityCountsFinished
    BY DEF RiskInit, VelocityCountsFinished, Idle
  <2> QED BY <2>1, <2>2, <2>3 DEF RiskIInv
<1>2. RiskIInv /\ [RiskNext]_riskVars => RiskIInv'
  <2> SUFFICES ASSUME RiskIInv, [RiskNext]_riskVars PROVE RiskIInv'
    OBVIOUS
  <2>0. RiskTypeOK /\ StoredAgree /\ (\A a \in Analyses : CountRight(analyzing[a], finished))
    BY VelocitiesAre DEF RiskIInv
  <2>1. /\ riskNow \in Nat /\ recentEvents \in [RiskUsers -> Seq(Events)] /\ finished \in Seq(Endings)
        /\ Len(finished) \in Nat /\ {"transaction", "login"} \subseteq EventTypes
    BY <2>0 DEF RiskTypeOK, EventTypes
  <2>2. SUFFICES RiskTypeOK' /\ StoredAgree' /\ \A a \in Analyses : CountRight(analyzing'[a], finished')
    <3>1. VelocityCountsFinished' <=> \A a \in Analyses : CountRight(analyzing'[a], finished')
      BY DEF VelocityCountsFinished, CountRight, Counting
    <3> QED BY <3>1 DEF RiskIInv
  <2>3. ASSUME NEW a \in Analyses, NEW u \in RiskUsers, beginTransaction(a, u)
        PROVE  RiskTypeOK' /\ StoredAgree' /\ \A b \in Analyses : CountRight(analyzing'[b], finished')
    <3> DEFINE r == [busy |-> TRUE, user |-> u, began |-> riskNow, after |-> Len(finished),
                     count |-> _getRecentEventCount(u, "transaction", TxnWindow)]
    <3>1. /\ riskNow' = riskNow /\ recentEvents' = recentEvents /\ finished' = finished
          /\ analyzing' = [analyzing EXCEPT ![a] = r]
      BY <2>3 DEF beginTransaction
    <3>2. /\ _getRecentEventCount(u, "transaction", TxnWindow)
             = Cardinality(Counting(finished, Len(finished), u, riskNow))
          /\ _getRecentEventCount(u, "transaction", TxnWindow) \in Nat
      BY <2>0, VelocityRight
    <3>3. r \in Reading /\ r.after = Len(finished)
      BY <2>1, <3>2 DEF Reading
    <3>4. CountRight(r, finished)
      BY <3>2 DEF CountRight
    <3> HIDE DEF r
    <3>5. \A b \in Analyses : analyzing'[b] = analyzing[b] \/ analyzing'[b] = r
      BY <3>1
    <3>6. RiskTypeOK'
      BY <2>0, <2>1, <3>1, <3>3, <3>5 DEF RiskTypeOK
    <3>7. StoredAgree'
      BY <2>0, <3>1 DEF StoredAgree
    <3>8. \A b \in Analyses : CountRight(analyzing'[b], finished')
      BY <2>0, <3>1, <3>4, <3>5
    <3> QED BY <3>6, <3>7, <3>8
  <2>4. ASSUME NEW u \in RiskUsers, NEW kind \in EventTypes, Store(u, kind), riskNow' = riskNow,
               \A b \in Analyses : analyzing'[b] = analyzing[b] \/ analyzing'[b] = Idle
        PROVE  RiskTypeOK' /\ StoredAgree' /\ \A b \in Analyses : CountRight(analyzing'[b], finished')
    <3>1. /\ recentEvents' \in [RiskUsers -> Seq(Events)] /\ finished' \in Seq(Endings)
          /\ Len(finished') = Len(finished) + 1 /\ \A n \in 1 .. Len(finished) : finished'[n] = finished[n]
          /\ StoredAgree'
      BY <2>0, <2>4, StoreAgrees
    <3>2. ASSUME NEW b \in Analyses
          PROVE  /\ analyzing'[b] = Idle
                    \/ (analyzing'[b] \in Reading /\ analyzing'[b].after <= Len(finished'))
                 /\ CountRight(analyzing'[b], finished')
      <4>1. CASE analyzing'[b] = Idle
        BY <4>1 DEF CountRight, Idle
      <4>2. CASE analyzing'[b] = analyzing[b] /\ analyzing[b] # Idle
        <5>1. analyzing[b] \in Reading /\ analyzing[b].after <= Len(finished)
          BY <2>0, <4>2 DEF RiskTypeOK
        <5>2. analyzing[b].after \in Nat
          BY <5>1 DEF Reading
        <5>3. analyzing[b].after <= Len(finished')
          BY <2>1, <3>1, <5>1, <5>2
        <5>4. \A n \in 1 .. analyzing[b].after : finished'[n] = finished[n]
          BY <2>1, <3>1, <5>1, <5>2
        <5>5. CountRight(analyzing[b], finished')
          BY <2>0, <5>1, <5>4, CountLater
        <5> QED BY <4>2, <5>1, <5>3, <5>5
      <4> QED BY <2>4, <4>1, <4>2
    <3>3. RiskTypeOK'
      BY <2>1, <2>4, <3>1, <3>2 DEF RiskTypeOK
    <3> QED BY <3>1, <3>2, <3>3
  <2>5. ASSUME NEW a \in Analyses, finishTransaction(a)
        PROVE  RiskTypeOK' /\ StoredAgree' /\ \A b \in Analyses : CountRight(analyzing'[b], finished')
    <3>1. analyzing[a].user \in RiskUsers
      <4>1. analyzing[a].busy
        BY <2>5 DEF finishTransaction
      <4>2. analyzing[a] # Idle
        BY <4>1 DEF Idle
      <4>3. analyzing[a] \in Reading
        BY <2>0, <4>2 DEF RiskTypeOK
      <4> QED BY <4>3 DEF Reading
    <3>2. \A b \in Analyses : analyzing'[b] = analyzing[b] \/ analyzing'[b] = Idle
      BY <2>5 DEF finishTransaction
    <3> QED BY <2>1, <2>4, <2>5, <3>1, <3>2 DEF finishTransaction
  <2>6. ASSUME NEW u \in RiskUsers, analyzeLogin(u)
        PROVE  RiskTypeOK' /\ StoredAgree' /\ \A b \in Analyses : CountRight(analyzing'[b], finished')
    BY <2>1, <2>4, <2>6 DEF analyzeLogin
  <2>7. CASE RiskTick \/ UNCHANGED riskVars
    <3>1. /\ recentEvents' = recentEvents /\ finished' = finished /\ analyzing' = analyzing
          /\ riskNow' \in Nat /\ riskNow' >= riskNow
      BY <2>1, <2>7 DEF RiskTick, riskVars
    <3>2. RiskTypeOK'
      BY <2>0, <2>1, <3>1 DEF RiskTypeOK
    <3>3. \A t \in Int : t >= riskNow' - EventRetention => t >= riskNow - EventRetention
      <4>1. EventRetention \in Nat
        BY RiskAssumption
      <4>2. \A moment, later \in Nat : later >= moment =>
              \A t \in Int : t >= later - EventRetention => t >= moment - EventRetention
        BY <4>1
      <4> QED BY <2>1, <3>1, <4>2
    <3>4. StoredAgree'
      BY <2>0, <3>1, <3>3 DEF StoredAgree
    <3> QED BY <2>0, <3>1, <3>2, <3>4
  <2> QED BY <2>3, <2>5, <2>6, <2>7 DEF RiskNext
<1>3. RiskIInv => VelocityCountsFinished
  BY DEF RiskIInv
<1> QED BY <1>1, <1>2, <1>3, PTL DEF RiskSpec

-----------------------------------------------------------------------------
(* Behaviour anomalies (anomaly-detector.js).                              *)
Activities == Actions \X Places \X Int
Kind(action) == {a \in Activities : a[1] = action}
HowMany(acts, action) == Len(Passing(acts, Kind(action)))

Baseline ==
  [known : {TRUE}, created : Nat, logins : Nat, perHour : Nat \X Int, usualIPs : SUBSET IPs,
   txns : Nat, n : Nat, sum : Nat, squares : Nat, usualCurrencies : SUBSET Currencies,
   exports : Nat, volume : Nat \X Nat, calls : Nat]

\* What a baseline says comes from at least the actions that are kept.
Learnt(b, acts) ==
  /\ HowMany(acts, "login") <= b.logins
  /\ HowMany(acts, "transaction") <= b.txns
  /\ HowMany(acts, "data_export") <= b.exports
  /\ HowMany(acts, "api_call") <= b.calls

\* Nothing is usual before anything has happened.
Unprejudiced(b) ==
  /\ b.logins = 0 => b.usualIPs = {}
  /\ b.txns = 0 => b.n = 0 /\ b.usualCurrencies = {}
  /\ b.exports = 0 => b.volume[1] = 0

Watching(b, acts) ==
  /\ acts \in Seq(Activities)
  /\ \/ b = NoBaseline /\ acts = <<>>
     \/ b \in Baseline /\ Learnt(b, acts) /\ Unprejudiced(b)

AnomalyIInv ==
  /\ seenNow \in Nat /\ DOMAIN baselines = Watched /\ DOMAIN recentActivities = Watched
  /\ \A u \in Watched : Watching(baselines[u], recentActivities[u])
  /\ FirstIsNormal

LEMMA AnomalyConstants == /\ ManyTxns \in Nat /\ ManyTxns >= 1 /\ ManyExports \in Nat /\ ManyExports >= 1
                          /\ ManyCalls \in Nat /\ ManyCalls >= 1
                          /\ \A x \in Spent : x \in Nat
                          /\ \A x \in Volumes : x \in Nat
<1>1. {ManyTxns, ManyExports, ManyCalls} \subseteq Nat \ {0}
  BY AnomalyAssumption
<1>2. Spent \subseteq Nat /\ Volumes \subseteq Nat
  BY AnomalyAssumption
<1> QED BY <1>1, <1>2

LEMMA HowManyType ==
  ASSUME NEW acts \in Seq(Activities), NEW kind
  PROVE  HowMany(acts, kind) \in Nat
<1>1. Passing(acts, Kind(kind)) \in Seq(Activities)
  BY PassingType
<1> QED BY <1>1 DEF HowMany

LEMMA HowManyNone == \A kind : HowMany(<<>>, kind) = 0
<1>1. \A T : Passing(<<>>, T) = <<>>
  BY PassingNone
<1> QED BY <1>1 DEF HowMany

LEMMA HowManyAppend ==
  ASSUME NEW acts \in Seq(Activities), NEW action \in Actions, NEW place \in Places, NEW moment \in Nat
  PROVE  LET later == Append(acts, <<action, place, moment>>)
         IN  /\ later \in Seq(Activities)
             /\ \A kind : HowMany(later, kind) = IF kind = action THEN HowMany(acts, kind) + 1
                                                 ELSE HowMany(acts, kind)
<1> DEFINE a == <<action, place, moment>>
<1>1. a \in Activities /\ a[1] = action
  BY DEF Activities
<1> HIDE DEF a
<1>2. Append(acts, a) \in Seq(Activities)
  BY <1>1
<1>3. ASSUME NEW kind
      PROVE  HowMany(Append(acts, a), kind) = IF kind = action THEN HowMany(acts, kind) + 1
                                              ELSE HowMany(acts, kind)
  <2> DEFINE P == Passing(acts, Kind(kind))
  <2>1. a \in Kind(kind) <=> kind = action
    BY <1>1 DEF Kind
  <2>2. P \in Seq(Activities)
        /\ Passing(Append(acts, a), Kind(kind)) = IF a \in Kind(kind) THEN Append(P, a) ELSE P
    BY <1>1, PassingType, PassingAppend
  <2> HIDE DEF P
  <2>3. Len(Append(P, a)) = Len(P) + 1
    BY <1>1, <2>2
  <2> QED BY <2>1, <2>2, <2>3 DEF HowMany, P
<1> QED BY <1>2, <1>3 DEF a

(* No more is recent than is kept.                                         *)
LEMMA RecentIsKept ==
  ASSUME NEW acts \in Seq(Activities), NEW action \in Actions, NEW span
  PROVE  /\ Len(_getRecentActivities(acts, action, span)) \in Nat
         /\ Len(_getRecentActivities(acts, action, span)) <= HowMany(acts, action)
<1>1. After({action}, seenNow - span) \subseteq Kind(action)
  BY DEF After, Kind, Activities
<1>2. Len(Passing(acts, After({action}, seenNow - span))) <= Len(Passing(acts, Kind(action)))
  BY <1>1, PassingFewer
<1>3. Passing(acts, After({action}, seenNow - span)) \in Seq(Activities)
  BY PassingType
<1> QED BY <1>2, <1>3 DEF _getRecentActivities, HowMany

(* A clean-up keeps no more than there was.                                *)
LEMMA CleanedLearnt ==
  ASSUME NEW acts \in Seq(Activities), NEW b, NEW T, Watching(b, acts)
  PROVE  Watching(b, Passing(acts, T))
<1>1. Passing(acts, T) \in Seq(Activities) /\ (acts = <<>> => Passing(acts, T) = <<>>)
  BY PassingType, PassingNone
<1>2. ASSUME NEW kind PROVE HowMany(Passing(acts, T), kind) <= HowMany(acts, kind)
  <2>1. Passing(Passing(acts, T), Kind(kind)) = Passing(acts, T \cap Kind(kind))
    BY PassingTwice
  <2>2. Len(Passing(acts, T \cap Kind(kind))) <= Len(Passing(acts, Kind(kind)))
    BY PassingFewer
  <2> QED BY <2>1, <2>2 DEF HowMany
<1>3. ASSUME b \in Baseline, Learnt(b, acts) PROVE Learnt(b, Passing(acts, T))
  <2>1. \A kind : HowMany(acts, kind) \in Nat /\ HowMany(Passing(acts, T), kind) \in Nat
    BY <1>1, HowManyType
  <2>2. b.logins \in Nat /\ b.txns \in Nat /\ b.exports \in Nat /\ b.calls \in Nat
    BY <1>3 DEF Baseline
  <2> QED BY <1>2, <1>3, <2>1, <2>2 DEF Learnt
<1> QED BY <1>1, <1>3 DEF Watching

(* The baseline an analysis works with.                                    *)
LEMMA BaselineKnown ==
  ASSUME NEW u \in Watched, seenNow \in Nat, Watching(baselines[u], recentActivities[u])
  PROVE  /\ BaselineOf(u) \in Baseline /\ recentActivities[u] \in Seq(Activities)
         /\ Learnt(BaselineOf(u), recentActivities[u]) /\ Unprejudiced(BaselineOf(u))
<1>1. CASE baselines[u] = NoBaseline
  <2>1. BaselineOf(u) = NewBaseline /\ recentActivities[u] = <<>>
    <3>1. ~NoBaseline.known
      BY DEF NoBaseline
    <3>2. \A b \in Baseline : b.known
      BY DEF Baseline
    <3>3. NoBaseline \notin Baseline
      BY <3>1, <3>2
    <3> QED BY <1>1, <3>1, <3>3 DEF BaselineOf, Watching
  <2>2. NewBaseline \in Baseline /\ Unprejudiced(NewBaseline)
    BY DEF NewBaseline, Baseline, Unprejudiced
  <2>3. Learnt(NewBaseline, <<>>)
    BY HowManyNone DEF Learnt, NewBaseline
  <2> QED BY <2>1, <2>2, <2>3 DEF Watching
<1>2. CASE baselines[u] # NoBaseline
  <2>1. baselines[u] \in Baseline
    BY <1>2 DEF Watching
  <2>2. baselines[u].known
    BY <2>1 DEF Baseline
  <2> QED BY <1>2, <2>2 DEF Watching, BaselineOf
<1> QED BY <1>1, <1>2

\* A baseline that has learnt one more action of a kind.
OneMore(kind, action) == IF kind = action THEN 1 ELSE 0
Counts(new, b, action) ==
  /\ b.logins \in Nat /\ b.txns \in Nat /\ b.exports \in Nat /\ b.calls \in Nat
  /\ new.logins = b.logins + OneMore("login", action)
  /\ new.txns = b.txns + OneMore("transaction", action)
  /\ new.exports = b.exports + OneMore("data_export", action)
  /\ new.calls = b.calls + OneMore("api_call", action)

LEMMA LearntAppend ==
  ASSUME NEW u \in Watched, NEW action \in Actions, NEW place \in Places, seenNow \in Nat,
         recentActivities[u] \in Seq(Activities), NEW b, NEW new,
         Learnt(b, recentActivities[u]), Counts(new, b, action)
  PROVE  /\ Recorded(u, action, place) \in Seq(Activities)
         /\ Learnt(new, Recorded(u, action, place))
         /\ HowMany(Recorded(u, action, place), action) = HowMany(recentActivities[u], action) + 1
         /\ HowMany(recentActivities[u], action) \in Nat
<1> DEFINE acts == recentActivities[u]
           later == Recorded(u, action, place)
<1>1. /\ later \in Seq(Activities)
      /\ \A kind : HowMany(later, kind) = IF kind = action THEN HowMany(acts, kind) + 1
                                          ELSE HowMany(acts, kind)
  BY HowManyAppend DEF Recorded
<1>2. \A kind : HowMany(acts, kind) \in Nat
  BY HowManyType
<1> HIDE DEF acts, later
<1>3. ASSUME NEW kind, NEW k \in Nat, HowMany(acts, kind) <= k
      PROVE  HowMany(later, kind) <= k + OneMore(kind, action)
  BY <1>1, <1>2, <1>3 DEF OneMore
<1>4. Learnt(new, later)
  <2>1. HowMany(later, "login") <= b.logins + OneMore("login", action)
    BY <1>3 DEF Learnt, Counts, acts
  <2>2. HowMany(later, "transaction") <= b.txns + OneMore("transaction", action)
    BY <1>3 DEF Learnt, Counts, acts
  <2>3. HowMany(later, "data_export") <= b.exports + OneMore("data_export", action)
    BY <1>3 DEF Learnt, Counts, acts
  <2>4. HowMany(later, "api_call") <= b.calls + OneMore("api_call", action)
    BY <1>3 DEF Learnt, Counts, acts
  <2> QED BY <2>1, <2>2, <2>3, <2>4 DEF Learnt, Counts
<1> QED BY <1>1, <1>2, <1>4 DEF acts, later

\* What is to be shown of an analysis.
Judged(u, action, place, score, first, new) ==
  /\ Watching(new, Recorded(u, action, place))
  /\ first => score < 50

LEMMA LoginJudged ==
  ASSUME AnomalyIInv, NEW u \in Watched, NEW ip \in Given(IPs), NEW place \in Places
  PROVE  Judged(u, "login", place,
           _analyzeLoginAnomaly(BaselineOf(u), Recorded(u, "login", place), ip, place),
           BaselineOf(u).logins = 0, LoginLearnt(BaselineOf(u), ip))
<1> DEFINE b == BaselineOf(u)
           later == Recorded(u, "login", place)
           new == LoginLearnt(b, ip)
           l == b.logins + 1
           i == b.usualIPs \cup ip
           p == <<b.logins + 1, seenNow - b.created>>
<1>1. /\ b \in Baseline /\ recentActivities[u] \in Seq(Activities)
      /\ Learnt(b, recentActivities[u]) /\ Unprejudiced(b) /\ seenNow \in Nat
  BY BaselineKnown DEF AnomalyIInv
<1>2. new = [b EXCEPT !.logins = l, !.usualIPs = i, !.perHour = p]
  BY DEF LoginLearnt
<1> HIDE DEF b, later, new
<1>3. l \in Nat /\ i \in SUBSET IPs /\ p \in Nat \X Int
  <2>1. ip \in SUBSET IPs
    BY DEF Given
  <2> QED BY <1>1, <2>1 DEF Baseline
<1> HIDE DEF l, i, p
<1>4. /\ new \in Baseline /\ new.logins = l /\ new.txns = b.txns /\ new.n = b.n
      /\ new.exports = b.exports /\ new.calls = b.calls /\ new.usualCurrencies = b.usualCurrencies /\ new.volume = b.volume
  BY <1>1, <1>2, <1>3 DEF Baseline
<1>5. Counts(new, b, "login")
  <2>1. b.logins \in Nat /\ b.txns \in Nat /\ b.exports \in Nat /\ b.calls \in Nat
    BY <1>1 DEF Baseline
  <2>2. \A kind : OneMore(kind, "login") = IF kind = "login" THEN 1 ELSE 0
    BY DEF OneMore
  <2> QED BY <1>4, <2>1, <2>2 DEF Counts, l
<1>6. /\ later \in Seq(Activities) /\ Learnt(new, later)
      /\ HowMany(later, "login") = HowMany(recentActivities[u], "login") + 1
      /\ HowMany(recentActivities[u], "login") \in Nat
  BY <1>1, <1>5, LearntAppend DEF later, Actions
<1>7. Unprejudiced(new)
  BY <1>1, <1>4 DEF Unprejudiced, l, Baseline
<1>8. ASSUME b.logins = 0 PROVE _analyzeLoginAnomaly(b, later, ip, place) < 50
  <2>1. HowMany(later, "login") = 1
    BY <1>1, <1>6, <1>8 DEF Learnt
  <2>2. /\ Len(_getRecentActivities(later, "login", Hour)) \in Nat
        /\ Len(_getRecentActivities(later, "login", Hour)) <= HowMany(later, "login")
    BY <1>6, RecentIsKept DEF Actions
  <2>3. ~(Len(_getRecentActivities(later, "login", Hour)) >= 2)
    BY <2>1, <2>2
  <2>4. ~FastTravel(later, place) /\ ~FrequentLogins(b, later)
    BY <1>8, <2>3 DEF FastTravel, FrequentLogins
  <2> QED BY <2>4 DEF _analyzeLoginAnomaly
<1> QED BY <1>4, <1>6, <1>7, <1>8 DEF Judged, Watching, b, later, new

LEMMA TransactionJudged ==
  ASSUME AnomalyIInv, NEW u \in Watched, NEW amount \in Spent, NEW currency \in Given(Currencies)
  PROVE  Judged(u, "transaction", "none",
           _analyzeTransactionAnomaly(BaselineOf(u), Recorded(u, "transaction", "none"), amount, currency),
           BaselineOf(u).txns = 0, AmountLearnt(BaselineOf(u), amount, currency))
<1> DEFINE b == BaselineOf(u)
           later == Recorded(u, "transaction", "none")
           new == AmountLearnt(b, amount, currency)
           k == b.txns + 1
           m == b.n + (IF amount > 0 THEN 1 ELSE 0)
           s == b.sum + amount
           q == b.squares + amount * amount
           c == b.usualCurrencies \cup currency
<1>1. /\ b \in Baseline /\ recentActivities[u] \in Seq(Activities)
      /\ Learnt(b, recentActivities[u]) /\ Unprejudiced(b) /\ seenNow \in Nat
  BY BaselineKnown DEF AnomalyIInv
<1>2. new = [b EXCEPT !.txns = k, !.n = m, !.sum = s, !.squares = q, !.usualCurrencies = c]
  BY DEF AmountLearnt
<1> HIDE DEF b, later, new
<1>3. k \in Nat /\ m \in Nat /\ s \in Nat /\ q \in Nat /\ c \in SUBSET Currencies
  <2> DEFINE square == amount * amount
  <2>1. amount \in Nat /\ square \in Nat
    BY AnomalyConstants
  <2>2. b.txns \in Nat /\ b.n \in Nat /\ b.sum \in Nat /\ b.squares \in Nat /\ b.usualCurrencies \in SUBSET Currencies
    BY <1>1 DEF Baseline
  <2> HIDE DEF square
  <2>3. b.squares + square \in Nat
    BY <2>1, <2>2
  <2>4. currency \in SUBSET Currencies
    BY DEF Given
  <2> QED BY <2>1, <2>2, <2>3, <2>4 DEF square
<1> HIDE DEF k, m, s, q, c
<1>4. /\ new \in Baseline /\ new.logins = b.logins /\ new.txns = k /\ new.exports = b.exports
      /\ new.calls = b.calls /\ new.usualIPs = b.usualIPs /\ new.volume = b.volume
  BY <1>1, <1>2, <1>3 DEF Baseline
<1>5. Counts(new, b, "transaction")
  <2>1. b.logins \in Nat /\ b.txns \in Nat /\ b.exports \in Nat /\ b.calls \in Nat
    BY <1>1 DEF Baseline
  <2>2. \A kind : OneMore(kind, "transaction") = IF kind = "transaction" THEN 1 ELSE 0
    BY DEF OneMore
  <2> QED BY <1>4, <2>1, <2>2 DEF Counts, k
<1>6. /\ later \in Seq(Activities) /\ Learnt(new, later)
      /\ HowMany(later, "transaction") = HowMany(recentActivities[u], "transaction") + 1
      /\ HowMany(recentActivities[u], "transaction") \in Nat
  BY <1>1, <1>5, LearntAppend DEF later, Actions, Places
<1>7. Unprejudiced(new)
  <2>1. b.txns \in Nat
    BY <1>1 DEF Baseline
  <2>2. k # 0
    BY <2>1 DEF k
  <2> QED BY <1>1, <1>4, <2>2 DEF Unprejudiced
<1>8. ASSUME b.txns = 0 PROVE _analyzeTransactionAnomaly(b, later, amount, currency) < 50
  <2>1. b.n = 0 /\ HowMany(later, "transaction") = 1
    BY <1>1, <1>6, <1>8 DEF Unprejudiced, Learnt
  <2>2. /\ Len(_getRecentActivities(later, "transaction", TxnMinutes)) \in Nat
        /\ Len(_getRecentActivities(later, "transaction", TxnMinutes)) <= HowMany(later, "transaction")
    BY <1>6, RecentIsKept DEF Actions
  <2>3. ~(Len(_getRecentActivities(later, "transaction", TxnMinutes)) > ManyTxns)
    BY <2>1, <2>2, AnomalyConstants
  <2>4. ~Unusual(b, amount)
    BY <2>1 DEF Unusual
  <2> QED BY <2>3, <2>4 DEF _analyzeTransactionAnomaly
<1> QED BY <1>4, <1>6, <1>7, <1>8 DEF Judged, Watching, b, later, new

LEMMA ExportJudged ==
  ASSUME AnomalyIInv, NEW u \in Watched, NEW records \in Volumes
  PROVE  Judged(u, "data_export", "none",
           _analyzeDataExportAnomaly(BaselineOf(u), Recorded(u, "data_export", "none"), records),
           BaselineOf(u).exports = 0, ExportLearnt(BaselineOf(u), records))
<1> DEFINE b == BaselineOf(u)
           later == Recorded(u, "data_export", "none")
           new == ExportLearnt(b, records)
           k == b.exports + 1
           v == Averaged(b, records)
<1>1. /\ b \in Baseline /\ recentActivities[u] \in Seq(Activities)
      /\ Learnt(b, recentActivities[u]) /\ Unprejudiced(b) /\ seenNow \in Nat
  BY BaselineKnown DEF AnomalyIInv
<1>2. new = [b EXCEPT !.exports = k, !.volume = v]
  BY DEF ExportLearnt
<1> HIDE DEF b, later, new
<1>3. k \in Nat /\ v \in Nat \X Nat
  <2> DEFINE weighed == b.volume[1] * b.exports
             added == records * b.volume[2]
             shared == b.volume[2] * (b.exports + 1)
  <2>1. b.volume \in Nat \X Nat /\ b.volume[1] \in Nat /\ b.volume[2] \in Nat /\ b.exports \in Nat
    BY <1>1 DEF Baseline
  <2>2. records \in Nat /\ b.exports + 1 \in Nat
    BY <2>1, AnomalyConstants
  <2>3. weighed \in Nat /\ added \in Nat /\ shared \in Nat
    BY <2>1, <2>2
  <2>4. v = IF records = 0 THEN b.volume ELSE <<weighed + added, shared>>
    BY DEF Averaged
  <2> HIDE DEF weighed, added, shared, v
  <2>5. v \in Nat \X Nat
    BY <2>1, <2>3, <2>4
  <2> QED BY <2>2, <2>5
<1> HIDE DEF k, v
<1>4. /\ new \in Baseline /\ new.logins = b.logins /\ new.txns = b.txns /\ new.n = b.n /\ new.exports = k
      /\ new.calls = b.calls /\ new.usualIPs = b.usualIPs /\ new.usualCurrencies = b.usualCurrencies
  BY <1>1, <1>2, <1>3 DEF Baseline
<1>5. Counts(new, b, "data_export")
  <2>1. b.logins \in Nat /\ b.txns \in Nat /\ b.exports \in Nat /\ b.calls \in Nat
    BY <1>1 DEF Baseline
  <2>2. \A kind : OneMore(kind, "data_export") = IF kind = "data_export" THEN 1 ELSE 0
    BY DEF OneMore
  <2> QED BY <1>4, <2>1, <2>2 DEF Counts, k
<1>6. /\ later \in Seq(Activities) /\ Learnt(new, later)
      /\ HowMany(later, "data_export") = HowMany(recentActivities[u], "data_export") + 1
      /\ HowMany(recentActivities[u], "data_export") \in Nat
  BY <1>1, <1>5, LearntAppend DEF later, Actions, Places
<1>7. Unprejudiced(new)
  <2>1. b.exports \in Nat
    BY <1>1 DEF Baseline
  <2>2. k # 0
    BY <2>1 DEF k
  <2> QED BY <1>1, <1>4, <2>2 DEF Unprejudiced
<1>8. ASSUME b.exports = 0 PROVE _analyzeDataExportAnomaly(b, later, records) < 50
  <2>1. b.volume[1] = 0 /\ HowMany(later, "data_export") = 1
    BY <1>1, <1>6, <1>8 DEF Unprejudiced, Learnt
  <2>2. /\ Len(_getRecentActivities(later, "data_export", TxnMinutes)) \in Nat
        /\ Len(_getRecentActivities(later, "data_export", TxnMinutes)) <= HowMany(later, "data_export")
    BY <1>6, RecentIsKept DEF Actions
  <2>3. ~(Len(_getRecentActivities(later, "data_export", TxnMinutes)) > ManyExports)
    BY <2>1, <2>2, AnomalyConstants
  <2>4. ~(b.volume[1] > 0)
    BY <2>1
  <2> QED BY <2>3, <2>4 DEF _analyzeDataExportAnomaly
<1> QED BY <1>4, <1>6, <1>7, <1>8 DEF Judged, Watching, b, later, new

LEMMA CallJudged ==
  ASSUME AnomalyIInv, NEW u \in Watched, NEW suspicious \in BOOLEAN
  PROVE  Judged(u, "api_call", "none",
           _analyzeApiCallAnomaly(Recorded(u, "api_call", "none"), suspicious),
           BaselineOf(u).calls = 0, CallLearnt(BaselineOf(u)))
<1> DEFINE b == BaselineOf(u)
           later == Recorded(u, "api_call", "none")
           new == CallLearnt(b)
           k == b.calls + 1
<1>1. /\ b \in Baseline /\ recentActivities[u] \in Seq(Activities)
      /\ Learnt(b, recentActivities[u]) /\ Unprejudiced(b) /\ seenNow \in Nat
  BY BaselineKnown DEF AnomalyIInv
<1>2. new = [b EXCEPT !.calls = k]
  BY DEF CallLearnt
<1> HIDE DEF b, later, new
<1>3. k \in Nat
  BY <1>1 DEF Baseline
<1> HIDE DEF k
<1>4. /\ new \in Baseline /\ new.logins = b.logins /\ new.txns = b.txns /\ new.n = b.n
      /\ new.exports = b.exports /\ new.calls = k /\ new.usualIPs = b.usualIPs /\ new.usualCurrencies = b.usualCurrencies
      /\ new.volume = b.volume
  BY <1>1, <1>2, <1>3 DEF Baseline
<1>5. Counts(new, b, "api_call")
  <2>1. b.logins \in Nat /\ b.txns \in Nat /\ b.exports \in Nat /\ b.calls \in Nat
    BY <1>1 DEF Baseline
  <2>2. \A kind : OneMore(kind, "api_call") = IF kind = "api_call" THEN 1 ELSE 0
    BY DEF OneMore
  <2> QED BY <1>4, <2>1, <2>2 DEF Counts, k
<1>6. /\ later \in Seq(Activities) /\ Learnt(new, later)
      /\ HowMany(later, "api_call") = HowMany(recentActivities[u], "api_call") + 1
      /\ HowMany(recentActivities[u], "api_call") \in Nat
  BY <1>1, <1>5, LearntAppend DEF later, Actions, Places
<1>7. Unprejudiced(new)
  BY <1>1, <1>4 DEF Unprejudiced
<1>8. ASSUME b.calls = 0 PROVE _analyzeApiCallAnomaly(later, suspicious) < 50
  <2>1. HowMany(later, "api_call") = 1
    BY <1>1, <1>6, <1>8 DEF Learnt
  <2>2. /\ Len(_getRecentActivities(later, "api_call", CallMinute)) \in Nat
        /\ Len(_getRecentActivities(later, "api_call", CallMinute)) <= HowMany(later, "api_call")
    BY <1>6, RecentIsKept DEF Actions
  <2>3. ~(Len(_getRecentActivities(later, "api_call", CallMinute)) > ManyCalls)
    BY <2>1, <2>2, AnomalyConstants
  <2> QED BY <2>3 DEF _analyzeApiCallAnomaly
<1> QED BY <1>4, <1>6, <1>7, <1>8 DEF Judged, Watching, b, later, new

LEMMA AnalyzedKeeps ==
  ASSUME AnomalyIInv, NEW u \in Watched, NEW action, NEW place, NEW score, NEW first, NEW new,
         Analyzed(u, action, place, score, first, new), Judged(u, action, place, score, first, new)
  PROVE  AnomalyIInv'
<1>1. /\ seenNow' = seenNow
      /\ recentActivities' = [recentActivities EXCEPT ![u] = Recorded(u, action, place)]
      /\ baselines' = [baselines EXCEPT ![u] = new]
      /\ lastVerdict' = [user |-> u, score |-> score, first |-> first]
  BY DEF Analyzed
<1>2. DOMAIN baselines' = Watched /\ DOMAIN recentActivities' = Watched
  BY <1>1 DEF AnomalyIInv
<1>3. ASSUME NEW v \in Watched PROVE Watching(baselines'[v], recentActivities'[v])
  <2>1. CASE v = u
    <3>1. baselines'[v] = new /\ recentActivities'[v] = Recorded(u, action, place)
      BY <1>1, <2>1 DEF AnomalyIInv
    <3> QED BY <3>1 DEF Judged
  <2>2. CASE v # u
    <3>1. baselines'[v] = baselines[v] /\ recentActivities'[v] = recentActivities[v]
      BY <1>1, <2>2 DEF AnomalyIInv
    <3> QED BY <3>1 DEF AnomalyIInv
  <2> QED BY <2>1, <2>2
<1>4. FirstIsNormal'
  BY <1>1 DEF FirstIsNormal, Judged
<1> QED BY <1>1, <1>2, <1>3, <1>4 DEF AnomalyIInv

(* The kept activities of a kind, counted by their places.                 *)
LEMMA WatchingLearnt ==
  ASSUME NEW u \in Watched, AnomalyIInv
  PROVE  LET b == BaselineOf(u)
             recent(action) == Cardinality({n \in DOMAIN recentActivities[u] :
                                              recentActivities[u][n][1] = action})
         IN  /\ recent("login") <= b.logins /\ recent("transaction") <= b.txns
             /\ recent("data_export") <= b.exports /\ recent("api_call") <= b.calls
<1> DEFINE b == BaselineOf(u)
           acts == recentActivities[u]
           Of(action) == {n \in DOMAIN acts : acts[n][1] = action}
<1>1. acts \in Seq(Activities) /\ Learnt(b, acts)
  BY BaselineKnown DEF AnomalyIInv
<1> HIDE DEF b, acts
<1>2. ASSUME NEW action PROVE Cardinality(Of(action)) = HowMany(acts, action)
  <2>1. DOMAIN acts = 1 .. Len(acts) /\ \A n \in DOMAIN acts : acts[n] \in Activities
    BY <1>1
  <2>2. Of(action) = PlacesIn(acts, Kind(action))
    BY <2>1 DEF PlacesIn, Kind
  <2>3. Len(Passing(acts, Kind(action))) = Cardinality(PlacesIn(acts, Kind(action)))
    BY <1>1, PassingCount
  <2> QED BY <2>2, <2>3 DEF HowMany
<1> HIDE DEF Of
<1>3. /\ Cardinality(Of("login")) <= b.logins /\ Cardinality(Of("transaction")) <= b.txns
      /\ Cardinality(Of("data_export")) <= b.exports /\ Cardinality(Of("api_call")) <= b.calls
  BY <1>1, <1>2 DEF Learnt
<1> QED BY <1>3 DEF Of, b, acts

LEMMA AnomaliesHold == AnomalySpec => [](FirstIsNormal /\ RecentIsLearnt)
<1>1. AnomalyInit => AnomalyIInv
  <2>1. <<>> \in Seq(Activities)
    OBVIOUS
  <2> QED BY <2>1 DEF AnomalyInit, AnomalyIInv, Watching, FirstIsNormal, NoVerdict
<1>2. AnomalyIInv /\ [AnomalyNext]_anomalyVars => AnomalyIInv'
  <2> SUFFICES ASSUME AnomalyIInv, [AnomalyNext]_anomalyVars PROVE AnomalyIInv'
    OBVIOUS
  <2>1. ASSUME NEW u \in Watched, NEW ip \in Given(IPs), NEW place \in Places, login(u, ip, place)
        PROVE  AnomalyIInv'
    BY <2>1, LoginJudged, AnalyzedKeeps DEF login
  <2>2. ASSUME NEW u \in Watched, NEW amount \in Spent, NEW currency \in Given(Currencies),
               transaction(u, amount, currency)
        PROVE  AnomalyIInv'
    BY <2>2, TransactionJudged, AnalyzedKeeps DEF transaction
  <2>3. ASSUME NEW u \in Watched, NEW records \in Volumes, dataExport(u, records)
        PROVE  AnomalyIInv'
    BY <2>3, ExportJudged, AnalyzedKeeps DEF dataExport
  <2>4. ASSUME NEW u \in Watched, NEW suspicious \in BOOLEAN, apiCall(u, suspicious)
        PROVE  AnomalyIInv'
    BY <2>4, CallJudged, AnalyzedKeeps DEF apiCall
  <2>5. ASSUME NEW u \in Watched, resetBaseline(u)
        PROVE  AnomalyIInv'
    <3>1. /\ seenNow' = seenNow /\ lastVerdict' = NoVerdict
          /\ recentActivities' = [recentActivities EXCEPT ![u] = <<>>]
          /\ baselines' = [baselines EXCEPT ![u] = NoBaseline]
      BY <2>5 DEF resetBaseline
    <3>2. Watching(NoBaseline, <<>>)
      BY DEF Watching
    <3>3. ASSUME NEW v \in Watched PROVE Watching(baselines'[v], recentActivities'[v])
      <4>1. CASE v = u
        <5>1. baselines'[v] = NoBaseline /\ recentActivities'[v] = <<>>
          BY <3>1, <4>1 DEF AnomalyIInv
        <5> QED BY <3>2, <5>1
      <4>2. CASE v # u
        <5>1. baselines'[v] = baselines[v] /\ recentActivities'[v] = recentActivities[v]
          BY <3>1, <4>2 DEF AnomalyIInv
        <5> QED BY <5>1 DEF AnomalyIInv
      <4> QED BY <4>1, <4>2
    <3>4. FirstIsNormal'
      BY <3>1 DEF FirstIsNormal, NoVerdict
    <3> QED BY <3>1, <3>3, <3>4 DEF AnomalyIInv
  <2>6. CASE CleanActivities
    <3>1. \A v \in Watched : Watching(baselines'[v], recentActivities'[v])
      <4> TAKE v \in Watched
      <4>1. /\ baselines'[v] = baselines[v]
            /\ recentActivities'[v] = Passing(recentActivities[v], After(Actions, seenNow - Day))
        BY <2>6 DEF CleanActivities
      <4>2. Watching(baselines[v], recentActivities[v]) /\ recentActivities[v] \in Seq(Activities)
        BY DEF AnomalyIInv, Watching
      <4> QED BY <4>1, <4>2, CleanedLearnt
    <3> QED BY <2>6, <3>1 DEF AnomalyIInv, CleanActivities, FirstIsNormal
  <2>7. CASE AnomalyTick \/ UNCHANGED anomalyVars
    BY <2>7 DEF AnomalyTick, anomalyVars, AnomalyIInv, FirstIsNormal
  <2> QED BY <2>1, <2>2, <2>3, <2>4, <2>5, <2>6, <2>7 DEF AnomalyNext
<1>3. AnomalyIInv => FirstIsNormal /\ RecentIsLearnt
  <2> SUFFICES ASSUME AnomalyIInv PROVE FirstIsNormal /\ RecentIsLearnt
    OBVIOUS
  <2>1. FirstIsNormal
    BY DEF AnomalyIInv
  <2>2. RecentIsLearnt
    BY WatchingLearnt DEF RecentIsLearnt
  <2> QED BY <2>1, <2>2
<1> QED BY <1>1, <1>2, <1>3, PTL DEF AnomalySpec

(* User agents (user-agent-validator.js).  The score of a user agent is at *)
(* least what each counted feature adds.                                   *)
LEMMA FeaturesFinite == IsFiniteSet(Features)
<1> DEFINE A == {"short", "long"}
           B == A \cup {"control", "bot"}
           C == B \cup {"goodBot", "automation"}
           D == C \cup {"outdated", "odd"}
<1>1. \A x, y : IsFiniteSet({x, y})
  <2> TAKE x, y
  <2>1. IsFiniteSet({x}) /\ IsFiniteSet({y}) /\ {x, y} = {x} \cup {y}
    BY FS_Singleton
  <2> QED BY <2>1, FS_Union
<1>2. IsFiniteSet(A) /\ IsFiniteSet({"control", "bot"}) /\ IsFiniteSet({"goodBot", "automation"})
      /\ IsFiniteSet({"outdated", "odd"})
  BY <1>1
<1> HIDE DEF A
<1>3. IsFiniteSet(B)
  BY <1>2, FS_Union
<1> HIDE DEF B
<1>4. IsFiniteSet(C)
  BY <1>2, <1>3, FS_Union
<1> HIDE DEF C
<1>5. IsFiniteSet(D)
  BY <1>2, <1>4, FS_Union
<1>6. D = Features
  BY DEF A, B, C, Features
<1> QED BY <1>5, <1>6

LEMMA ScoreOf ==
  ASSUME NEW ua \in SUBSET Features, NEW f \in Counted(ua)
  PROVE  validateScore(ua) \in Nat /\ validateScore(ua) >= Penalty(f)
<1> DEFINE p == [g \in Features |-> Penalty(g)]
           S == Counted(ua)
<1>1. S \subseteq Features /\ f \in S
  BY DEF Counted
<1>2. IsFiniteSet(S)
  BY <1>1, FeaturesFinite, FS_Subset
<1>3. \A g \in S : p[g] = Penalty(g) /\ p[g] \in Nat
  BY <1>1 DEF Penalty
<1> HIDE DEF p, S
<1>4. IsFiniteSet(S \ {f}) /\ SumOver(p, S) = SumOver(p, S \ {f}) + p[f]
  BY <1>1, <1>2, <1>3, SumWithout
<1>5. SumOver(p, S \ {f}) \in Nat
  BY <1>3, <1>4, SumType
<1>6. SumOver(p, S) \in Nat /\ SumOver(p, S) >= Penalty(f)
  BY <1>1, <1>3, <1>4, <1>5
<1> QED BY <1>6 DEF validateScore, p, S

LEMMA ScoreNone ==
  ASSUME NEW ua \in SUBSET Features, \A f \in Counted(ua) : Penalty(f) = 0
  PROVE  validateScore(ua) = 0
<1> DEFINE p == [g \in Features |-> Penalty(g)]
           S == Counted(ua)
<1>1. \A f \in S : f \in Features /\ p[f] = 0
  BY DEF Counted
<1> HIDE DEF p, S
<1>2. \A x : x \notin UnitsOf(p, S)
  <2> SUFFICES ASSUME NEW x \in UnitsOf(p, S) PROVE FALSE
    OBVIOUS
  <2>1. PICK f \in S : \E n \in 1 .. p[f] : x = <<f, n>>
    BY UnitsIn
  <2> QED BY <1>1, <2>1
<1>3. UnitsOf(p, S) = {}
  BY <1>2
<1>4. SumOver(p, S) = 0
  BY <1>3, FS_EmptySet DEF SumOver
<1> QED BY <1>4 DEF validateScore, p, S

LEMMA MeritHolds == RefusedOnMerit
<1> SUFFICES ASSUME NEW ua \in SUBSET Features
             PROVE  /\ "automation" \in ua => validateScore(ua) >= 70
                    /\ (validateScore(ua) >= 70 /\ ~middlewareRefuses(ua))
                         => ua \cap {"short", "long", "control", "outdated", "odd"} # {}
  BY DEF RefusedOnMerit
<1>1. ASSUME "automation" \in ua PROVE validateScore(ua) >= 70
  <2>1. "automation" \in Counted(ua)
    BY <1>1 DEF Counted
  <2>2. validateScore(ua) \in Nat /\ validateScore(ua) >= Penalty("automation")
    BY <2>1, ScoreOf
  <2>3. Penalty("automation") = 80
    BY DEF Penalty
  <2> QED BY <2>2, <2>3
<1>2. ASSUME validateScore(ua) >= 70, ~middlewareRefuses(ua),
             ua \cap {"short", "long", "control", "outdated", "odd"} = {}
      PROVE  FALSE
  <2>1. "automation" \notin ua /\ ("bot" \in ua => Forgiven(ua))
    BY <1>2 DEF middlewareRefuses
  <2>2. Counted(ua) \subseteq {"goodBot"}
    BY <1>2, <2>1 DEF Counted, Features
  <2>3. \A f \in Counted(ua) : Penalty(f) = 0
    BY <2>2 DEF Penalty
  <2>4. validateScore(ua) = 0
    BY <2>3, ScoreNone
  <2> QED BY <1>2, <2>4
<1> QED BY <1>1, <1>2

(* Risk scores: the velocity of a transaction counts exactly the user's    *)
(* transactions of the window whose analyses had ended when it began,      *)
(* although other analyses, logins and the pruning of old events run       *)
(* between its reading and its storing (fraud-detection.js); the first     *)
(* action of a kind is never anomalous and a baseline has counted all that *)
(* is kept of a user (anomaly-detector.js); and a user agent is refused    *)
(* for what it is (user-agent-validator.js).                               *)
THEOREM RisksSoundHolds == RiskSpec /\ AnomalySpec => []RisksSound
<1>1. VelocityCountsFinished /\ (FirstIsNormal /\ RecentIsLearnt) => RisksSound
  BY MeritHolds DEF RisksSound
<1> QED BY VelocitiesHold, AnomaliesHold, <1>1, PTL
=============================================================================
