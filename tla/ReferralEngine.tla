--------------------------- MODULE ReferralEngine ---------------------------
(***************************************************************************)
(* The referral programs of shared-utils/src/referral: the engine          *)
(* (referral-engine.js) with the commission calculator, the code generator *)
(* and the event tracker it calls.  All of them are singletons that keep   *)
(* their state in memory.                                                  *)
(*                                                                         *)
(* A referral is known by its place in creation order, the order in which  *)
(* the code walks its Map.  Time is counted in days.                       *)
(***************************************************************************)
EXTENDS Integers, Sequences, FiniteSetsExt, SequencesExt

-----------------------------------------------------------------------------
(***************************************************************************)
(* referral/commission-calculator.js: what a reward pays for a qualifying  *)
(* action.  Amounts are whole cents and rates whole percents, so that      *)
(* rounding to two decimals is rounding to a whole cent; an absent bound   *)
(* is 0, as in the code's defaults.                                        *)
(***************************************************************************)
\* Math.round() of n / 100.
Percent(rate, amount) == (rate * amount + 50) \div 100

Pays(tier, amount) ==
  IF tier.type = "percent" THEN Percent(tier.amount, amount) ELSE tier.amount

\* The tier with the highest threshold that the action reaches.
Highest(reached) == CHOOSE t \in reached : \A s \in reached : s.threshold <= t.threshold

_calculateTiered(tiers, amount) ==
  LET reached == {t \in tiers : amount >= t.threshold}
  IN  IF reached = {} THEN 0 ELSE Pays(Highest(reached), amount)

Unbounded(reward, amount) ==
  CASE reward.type = "percent" -> Percent(reward.amount, amount)
    [] reward.type = "tiered"  -> _calculateTiered(reward.tiers, amount)
    [] reward.type = "hybrid"  -> reward.fixedAmount + Percent(reward.percentAmount, amount)
    [] OTHER                   -> reward.amount

calculate(reward, amount) ==
  LET commission == Unbounded(reward, amount)
      raised == IF reward.minAmount > 0 /\ commission < reward.minAmount
                THEN reward.minAmount ELSE commission
  IN  IF reward.maxAmount > 0 /\ raised > reward.maxAmount THEN reward.maxAmount ELSE raised

-----------------------------------------------------------------------------
(* A reward keeps its maximum, whatever its type and whatever its minimum, *)
(* and a larger purchase never earns the referrer less, as long as the     *)
(* tiers pay no less the higher they are (calculate(), line 47, applies    *)
(* the bounds after all four kinds of reward).                             *)
CommissionFair(rewards, amounts) ==
  \A r \in rewards, a, b \in amounts :
    /\ r.maxAmount > 0 => calculate(r, a) <= r.maxAmount
    /\ a <= b => calculate(r, a) <= calculate(r, b)

-----------------------------------------------------------------------------
CONSTANTS
  Users,
  Codes,          \* codes the generator can draw
  Chosen,         \* codes callers pass as options.code, which it may also draw
  Programs,       \* program identifiers
  Default,        \* the program 'default'
  NoProgram,      \* not created
  Configs,        \* configurations createProgram() is called with
  DefaultConfig,
  Purchases,      \* amounts of qualifying actions
  maxEvents,      \* maxEventsPerReferral of the tracker
  MaxReferrals, MaxConversions, MaxEarned, MaxDays   \* bounds of the model

\* The rewards and configurations a program may have.  No reward takes
\* anything from the referrer.
Tier == [threshold : Int, type : {"fixed", "percent"}, amount : Nat]
Rewards ==
  [type : {"fixed", "percent", "tiered", "hybrid"}, amount : Nat, minAmount : Nat,
   maxAmount : Nat, tiers : SUBSET Tier, fixedAmount : Nat, percentAmount : Nat]

\* Tiers that pay no less the higher they are: what is paid below a threshold
\* is no more than what is paid at it.
Rising(tiers) ==
  \A s, t \in tiers : s.threshold < t.threshold =>
    \A amount \in Nat : amount < t.threshold => Pays(s, amount) <= Pays(t, t.threshold)
ProgramConfig ==
  [isActive : BOOLEAN, maxReferralsPerUser : Nat, referralExpiryDays : Nat,
   minPurchaseAmount : Nat, fraudDetectionEnabled : BOOLEAN, referrerReward : Rewards]

ASSUME EngineAssumption ==
  /\ Default \in Programs
  /\ NoProgram \notin Configs
  /\ Configs \subseteq ProgramConfig
  /\ \A c \in Configs : IsFiniteSet(c.referrerReward.tiers)
  /\ Purchases \subseteq Nat
  /\ {MaxReferrals, MaxConversions, MaxEarned, MaxDays} \subseteq Nat
  /\ DefaultConfig \in Configs /\ DefaultConfig.isActive
  /\ maxEvents \in Nat \ {0}

VARIABLES
  programs,
  referrals,
  usedCodes,    \* of the code generator
  events,       \* events[i]: what the tracker holds of referral i
  today,
  loose         \* history: the referrals whose code the generator was not told
                \* of, or was told to forget while they were active

engineVars == <<programs, referrals, usedCodes, events, today, loose>>

EventTypes == {"created", "converted", "commission_earned", "deactivated"}

Referral ==
  [referrerId : Users, programId : Programs, code : Codes \cup Chosen,
   status : {"active", "deactivated"}, expiresAt : Nat,
   conversions : 0 .. MaxConversions, totalEarned : 0 .. MaxEarned]
Event == [type : EventTypes, amount : Nat]

EngineTypeOK ==
  /\ programs \in [Programs -> Configs \cup {NoProgram}]
  /\ referrals \in Seq(Referral)
  /\ \A i \in DOMAIN referrals : programs[referrals[i].programId] # NoProgram
  /\ usedCodes \subseteq Codes
  /\ events \in Seq(Seq(Event)) /\ Len(events) = Len(referrals)
  /\ \A i \in DOMAIN events : Len(events[i]) \in 1 .. maxEvents
  /\ today \in 0 .. MaxDays
  /\ loose \subseteq DOMAIN referrals

EngineInit ==
  /\ programs = [p \in Programs |-> NoProgram]
  /\ referrals = <<>>
  /\ usedCodes = {}
  /\ events = <<>>
  /\ today = 0
  /\ loose = {}

-----------------------------------------------------------------------------
\* A log after an event.  A second conversion or commission counts as a
\* duplicate of the first: userId, which the comparison reads, is in no
\* event of the engine.  The oldest event makes room.
trackEvent(log, type, amount) ==
  IF type \in {"converted", "commission_earned"} /\ \E e \in Range(log) : e.type = type
  THEN log
  ELSE SubSeq(Append(log, [type |-> type, amount |-> amount]),
              IF Len(log) = maxEvents THEN 2 ELSE 1, Len(log) + 1)

Log(i, type, amount) == events' = [events EXCEPT ![i] = trackEvent(@, type, amount)]

\* Mutant: codes in use are drawn again.
generate_Any == Codes

\* The codes generate() may return.
generate == Codes \ usedCodes

_getUserReferrals(u, p) ==
  {i \in DOMAIN referrals : referrals[i].referrerId = u /\ referrals[i].programId = p}

\* The first active referral with a code; 0 if there is none.
_findByCode(code) ==
  LET found == {i \in DOMAIN referrals :
                  referrals[i].code = code /\ referrals[i].status = "active"}
  IN  IF found = {} THEN 0 ELSE Min(found)

Expired(i) == referrals[i].expiresAt < today

\* The comparisons with the devices and addresses of earlier conversions
\* read fields the tracker keeps one level deeper, and never match.
_performFraudCheck(i, user) == referrals[i].referrerId # user

-----------------------------------------------------------------------------
createProgram(p, config) ==
  /\ programs' = [programs EXCEPT ![p] = config]
  /\ UNCHANGED <<referrals, usedCodes, events, today, loose>>

\* The program createReferral() works with; it creates the default one.
ProgramFor(p) ==
  IF programs[p] = NoProgram /\ p = Default THEN DefaultConfig ELSE programs[p]

\* The code is drawn, or the caller's choice, of which the generator learns
\* nothing.
createReferral(u, p, code, drawn) ==
  LET program == ProgramFor(p)
  IN  /\ Len(referrals) < MaxReferrals
      /\ program # NoProgram
      /\ program.isActive
      /\ Cardinality(_getUserReferrals(u, p)) < program.maxReferralsPerUser
      /\ code \in IF drawn THEN generate ELSE Chosen
      /\ programs' = [programs EXCEPT ![p] = program]
      /\ usedCodes' = IF drawn THEN usedCodes \cup {code} ELSE usedCodes
      /\ loose' = IF drawn THEN loose ELSE loose \cup {Len(referrals) + 1}
      /\ referrals' = Append(referrals,
           [referrerId |-> u, programId |-> p, code |-> code, status |-> "active",
            expiresAt |-> today + program.referralExpiryDays,
            conversions |-> 0, totalEarned |-> 0])
      /\ events' = Append(events, trackEvent(<<>>, "created", 0))
      /\ UNCHANGED today

\* All attempts to draw a code fail: the default program is there by then.
createReferralFails(u) ==
  /\ programs[Default] = NoProgram
  /\ programs' = [programs EXCEPT ![Default] = DefaultConfig]
  /\ UNCHANGED <<referrals, usedCodes, events, today, loose>>

trackConversion(code, user) ==
  LET i == _findByCode(code)
  IN  /\ i # 0 /\ ~Expired(i)
      /\ programs[referrals[i].programId].fraudDetectionEnabled
           => _performFraudCheck(i, user)
      /\ referrals[i].conversions < MaxConversions
      /\ Log(i, "converted", 0)
      /\ referrals' = [referrals EXCEPT ![i].conversions = @ + 1]
      /\ UNCHANGED <<programs, usedCodes, today, loose>>

processCommission(i, amount) ==
  LET program == programs[referrals[i].programId]
      commission == calculate(program.referrerReward, amount)
  IN  /\ amount >= program.minPurchaseAmount
      /\ referrals[i].totalEarned + commission <= MaxEarned
      /\ Log(i, "commission_earned", commission)
      /\ referrals' = [referrals EXCEPT ![i].totalEarned = @ + commission]
      /\ UNCHANGED <<programs, usedCodes, today, loose>>

deactivateReferral(i) ==
  /\ referrals' = [referrals EXCEPT ![i].status = "deactivated"]
  /\ Log(i, "deactivated", 0)
  /\ UNCHANGED <<programs, usedCodes, today, loose>>

\* The generator forgets a code, whether or not a referral still has it.
releaseCode(code) ==
  /\ usedCodes' = usedCodes \ {code}
  /\ loose' = loose \cup {i \in DOMAIN referrals :
                            referrals[i].code = code /\ referrals[i].status = "active"}
  /\ UNCHANGED <<programs, referrals, events, today>>

NextDay ==
  /\ today < MaxDays
  /\ today' = today + 1
  /\ UNCHANGED <<programs, referrals, usedCodes, events, loose>>

EngineNext ==
  \/ \E p \in Programs, config \in Configs : createProgram(p, config)
  \/ \E u \in Users, p \in Programs, code \in Codes \cup Chosen, drawn \in BOOLEAN :
       createReferral(u, p, code, drawn)
  \/ \E u \in Users : createReferralFails(u)
  \/ \E code \in Codes \cup Chosen, user \in Users : trackConversion(code, user)
  \/ \E i \in DOMAIN referrals, amount \in Purchases : processCommission(i, amount)
  \/ \E i \in DOMAIN referrals : deactivateReferral(i)
  \/ \E code \in Codes \cup Chosen : releaseCode(code)
  \/ NextDay

EngineSpec == EngineInit /\ [][EngineNext]_engineVars

-----------------------------------------------------------------------------
(* "Duplicate prevention" (referral-code-generator.js:10) is what leads a  *)
(* conversion to its referrer.  The code of an active referral leads to    *)
(* this referral, however codes are drawn, given back and drawn again: two *)
(* active referrals share a code only if the generator knew nothing of one *)
(* of them, because its caller had chosen the code (referral-engine.js:    *)
(* 135) or had it released while the referral was active.                  *)
OwnersFound ==
  \A i \in DOMAIN referrals :
    referrals[i].status = "active" =>
      LET found == _findByCode(referrals[i].code)
      IN  found = i \/ {found, i} \cap loose # {}

\* Where the log of a referral has an event of a type.
Recorded(i, type) == {k \in DOMAIN events[i] : events[i][k].type = type}

(* What the tracker reports never exceeds what the engine counts, and as   *)
(* long as a log was not trimmed (it begins with the creation) it shows    *)
(* whether there was a conversion, and a deactivation.  It does not show   *)
(* how many: of several conversions or commissions it keeps the first.     *)
LogsWitnessCounters ==
  \A i \in DOMAIN referrals :
    LET r == referrals[i]
        logged(type) == Cardinality(Recorded(i, type))
    IN  /\ logged("converted") <= r.conversions
        /\ \A k \in Recorded(i, "commission_earned") : events[i][k].amount <= r.totalEarned
        /\ events[i][1].type = "created" =>
             /\ r.conversions > 0 <=> logged("converted") > 0
             /\ r.status = "deactivated" <=> logged("deactivated") > 0

(* The referral engine (referral-engine.js:165, :291): an owner is found   *)
(* by code, and nothing is in a log that the counters do not confirm.      *)
EngineSound == OwnersFound /\ LogsWitnessCounters
=============================================================================
