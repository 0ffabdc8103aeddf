--------------------------- MODULE ReferralNetwork ---------------------------
(***************************************************************************)
(* The referral tree of referral/multi-level-commissions.js: who referred  *)
(* whom, and what the people above a purchaser earn from a purchase.       *)
(*                                                                         *)
(* Amounts are whole cents and rates whole percents.  An unset rate is 0:  *)
(* both pay nothing for the level.                                         *)
(***************************************************************************)
EXTENDS Integers, FiniteSets, Collections, TLAPS

CONSTANTS
  People,
  Nobody,               \* no referrer
  maxDepth,
  maxTotalCommission,   \* percent of a purchase
  minPurchaseAmount,
  Rates,                \* rates setLevelRate() is called with
  DefaultRates,         \* levelRates of the constructor
  NetworkPurchases      \* amounts of purchases, in cents

ASSUME NetworkAssumption ==
  /\ Nobody \notin People
  /\ maxDepth \in Nat /\ maxTotalCommission \in Nat
  /\ Rates \subseteq Int
  /\ DefaultRates \in [1 .. maxDepth -> 0 .. 100]
  /\ NetworkPurchases \subseteq Nat

VARIABLES
  network,      \* network[u]: who referred u
  levelRates

networkVars == <<network, levelRates>>

Levels == 1 .. maxDepth

NetworkTypeOK ==
  /\ network \in [People -> People \cup {Nobody}]
  /\ levelRates \in [Levels -> 0 .. 100]

NetworkInit ==
  /\ network = [u \in People |-> Nobody]
  /\ levelRates = DefaultRates

-----------------------------------------------------------------------------
\* Sets that contain the referrer of everybody in them.
UpwardClosed(S) == \A v \in S : network[v] # Nobody => network[v] \in S

\* Mutant: only the referrer's own referrer is looked at.
_wouldCreateCycle_Shallow(referrer, referred) ==
  referrer = referred \/ network[referrer] = referred

\* The walk from the referrer upwards meets the referred user: it visits the
\* smallest upward closed set around the referrer.
_wouldCreateCycle(referrer, referred) ==
  \A S \in SUBSET People : referrer \in S /\ UpwardClosed(S) => referred \in S

addRelationship(referrer, referred) ==
  /\ ~_wouldCreateCycle(referrer, referred)
  /\ network[referred] = Nobody
  /\ network' = [network EXCEPT ![referred] = referrer]
  /\ UNCHANGED levelRates

Clamped(rate) == IF rate < 0 THEN 0 ELSE IF rate > 100 THEN 100 ELSE rate

setLevelRate(level, rate) ==
  /\ levelRates' = [levelRates EXCEPT ![level] = Clamped(rate)]
  /\ UNCHANGED network

NetworkNext ==
  \/ \E referrer, referred \in People : addRelationship(referrer, referred)
  \/ \E level \in Levels, rate \in Rates : setLevelRate(level, rate)

NetworkSpec == NetworkInit /\ [][NetworkNext]_networkVars

-----------------------------------------------------------------------------
\* getUpline(): the user k levels above u.
Upline(u) ==
  LET up[k \in 0 .. maxDepth] ==
        IF k = 0 THEN u
        ELSE IF up[k - 1] = Nobody THEN Nobody ELSE network[up[k - 1]]
  IN  up

\* getDownline(): the users k levels below u, whom the code only counts.
Downline(u) ==
  LET down[k \in 0 .. maxDepth] ==
        IF k = 0 THEN {u} ELSE {c \in People : network[c] \in down[k - 1]}
  IN  down

\* Mutant: the limit is compared before the rate is added.
PayLevel_Over(w, k, earner) ==
  IF ~w.on \/ w.percent >= maxTotalCommission \/ earner = Nobody
  THEN [w EXCEPT !.on = FALSE]
  ELSE IF levelRates[k] = 0 THEN w
  ELSE [on |-> TRUE, percent |-> w.percent + levelRates[k], paid |-> w.paid \cup {k}]

\* One turn of the loop of calculateNetworkCommissions().  It stops where the
\* network ends and at the first level that would exceed the maximum.
PayLevel(w, k, earner) ==
  IF ~w.on \/ w.percent >= maxTotalCommission \/ earner = Nobody
  THEN [w EXCEPT !.on = FALSE]
  ELSE IF levelRates[k] = 0 THEN w
  ELSE IF w.percent + levelRates[k] > maxTotalCommission
  THEN [w EXCEPT !.on = FALSE]
  ELSE [on |-> TRUE, percent |-> w.percent + levelRates[k], paid |-> w.paid \cup {k}]

\* The levels that are paid, and the percentage they add up to.
Traversal(u) ==
  LET walk[k \in 0 .. maxDepth] ==
        IF k = 0 THEN [on |-> TRUE, percent |-> 0, paid |-> {}]
        ELSE PayLevel(walk[k - 1], k, Upline(u)[k])
  IN  walk[maxDepth]

\* A rate of an amount, rounded to a cent: Math.round().
Cents(rate, amount) == (rate * amount + 50) \div 100

\* Commissions of a purchase: who earns what, by level.
calculateNetworkCommissions(u, amount) ==
  IF amount < minPurchaseAmount THEN {}
  ELSE {[referrerId |-> Upline(u)[k], level |-> k,
         amount |-> Cents(levelRates[k], amount)] : k \in Traversal(u).paid}

-----------------------------------------------------------------------------
(* "Prevent circular references" (multi-level-commissions.js:64): whatever *)
(* the order in which people are related, every group of them has a member *)
(* whose referrer is outside of it, so no walk up the network runs in a    *)
(* circle and none lasts forever.                                          *)
Acyclic ==
  \A S \in SUBSET People : S # {} => \E u \in S : network[u] \notin S

(* "Maximum total commission per purchase" (multi-level-commissions.js:19):*)
(* a purchase pays each earner once and never the purchaser, and all of    *)
(* them together no more than the maximum, up to half a cent a level, at   *)
(* any rates.                                                              *)
CommissionsSound ==
  \A u \in People, amount \in NetworkPurchases :
    LET earned == calculateNetworkCommissions(u, amount)
    IN  /\ \A e \in earned : e.referrerId \in People \ {u}
        /\ \A e, f \in earned : e.referrerId = f.referrerId => e = f
        /\ 100 * SumOver([e \in earned |-> e.amount], earned)
             <= maxTotalCommission * amount + 50 * Cardinality(earned)

(* A user is k levels above another one exactly when the other is counted  *)
(* k levels below: network statistics count whom commissions come from.    *)
UpAndDownAgree ==
  \A u, v \in People, k \in Levels : Upline(v)[k] = u <=> v \in Downline(u)[k]

(* Commissions (multi-level-commissions.js:100): from the first referral   *)
(* on, what purchases pay keeps its bounds, and the network counted from   *)
(* above and from below is the same one.                                   *)
PayoutsFair ==
  (\E u \in People : network[u] # Nobody) => CommissionsSound /\ UpAndDownAgree

-----------------------------------------------------------------------------
(* Proofs: the network has no circle, for any number of people and any    *)
(* order of relationships.                                                 *)
NetworkIInv == NetworkTypeOK /\ Acyclic

LEMMA NetworkInitIInv == NetworkInit => NetworkIInv
BY NetworkAssumption DEF NetworkInit, NetworkIInv, NetworkTypeOK, Acyclic, Levels

(* Suppose a group were closed under the new network.  It contains the new *)
(* relationship, for the old network has no closed group.  The walk up     *)
(* from the referrer misses the referred user, so the members it visits    *)
(* form a group that was closed before: there is none.                     *)
LEMMA AddKeepsAcyclic ==
  ASSUME NetworkIInv, NEW p \in People, NEW c \in People, addRelationship(p, c)
  PROVE  Acyclic'
<1>1. /\ network' = [network EXCEPT ![c] = p]
      /\ network[c] = Nobody /\ ~_wouldCreateCycle(p, c)
  BY DEF addRelationship
<1>2. PICK U \in SUBSET People : p \in U /\ UpwardClosed(U) /\ c \notin U
  BY <1>1 DEF _wouldCreateCycle
<1>3. SUFFICES ASSUME NEW S \in SUBSET People, S # {},
                      \A u \in S : network'[u] \in S
               PROVE  FALSE
  BY DEF Acyclic
<1>4. \A u \in S : u # c => network[u] \in S
  BY <1>1, <1>3 DEF NetworkIInv, NetworkTypeOK
<1>5. CASE c \notin S
  <2>1. \A u \in S : network[u] \in S
    BY <1>4, <1>5
  <2> QED
    BY <1>3, <2>1 DEF NetworkIInv, Acyclic
<1>6. CASE c \in S
  <2>1. p \in S
    BY <1>1, <1>3, <1>6 DEF NetworkIInv, NetworkTypeOK
  <2>2. \A u \in S \cap U : network[u] \in S \cap U
    BY <1>2, <1>4, NetworkAssumption DEF UpwardClosed
  <2>3. S \cap U # {} /\ S \cap U \in SUBSET People
    BY <1>2, <2>1
  <2> QED
    BY <2>2, <2>3 DEF NetworkIInv, Acyclic
<1> QED
  BY <1>5, <1>6

LEMMA NetworkStepKeeps == NetworkIInv /\ [NetworkNext]_networkVars => NetworkIInv'
<1> SUFFICES ASSUME NetworkIInv, [NetworkNext]_networkVars PROVE NetworkIInv'
  OBVIOUS
<1>1. ASSUME NEW p \in People, NEW c \in People, addRelationship(p, c)
      PROVE  NetworkIInv'
  <2>1. NetworkTypeOK'
    BY <1>1 DEF NetworkIInv, NetworkTypeOK, addRelationship
  <2> QED
    BY <1>1, <2>1, AddKeepsAcyclic DEF NetworkIInv
<1>2. ASSUME NEW level \in Levels, NEW rate \in Rates, setLevelRate(level, rate)
      PROVE  NetworkIInv'
  <2>1. Clamped(rate) \in 0 .. 100
    BY NetworkAssumption DEF Clamped
  <2> QED
    BY <1>2, <2>1 DEF NetworkIInv, NetworkTypeOK, Acyclic, setLevelRate
<1>3. CASE UNCHANGED networkVars
  BY <1>3 DEF NetworkIInv, NetworkTypeOK, Acyclic, networkVars
<1> QED
  BY <1>1, <1>2, <1>3 DEF NetworkNext

(* No order of referrals makes the network circular, however many people   *)
(* it has, so walking up from anybody ends.                                *)
THEOREM AcyclicHolds == NetworkSpec => []Acyclic
<1>1. NetworkIInv => Acyclic
  BY DEF NetworkIInv
<1> QED
  BY <1>1, NetworkInitIInv, NetworkStepKeeps, PTL DEF NetworkSpec

(* Rates stay percentages, whatever setLevelRate() is called with.         *)
THEOREM NetworkTypeCorrect == NetworkSpec => []NetworkTypeOK
<1>1. NetworkIInv => NetworkTypeOK
  BY DEF NetworkIInv
<1> QED
  BY <1>1, NetworkInitIInv, NetworkStepKeeps, PTL DEF NetworkSpec
=============================================================================
