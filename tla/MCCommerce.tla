----------------------------- MODULE MCCommerce -----------------------------
(***************************************************************************)
(* The business services: a referral network of four people, a referral    *)
(* engine with two referrals, the refund policies of a shop, the routes a  *)
(* refund takes, the menu sessions of two phones, a phone that walks       *)
(* through menus while they are edited, and two traders under the limits   *)
(* of one client.  They share nothing, so each behaviour exercises one of  *)
(* them and the state spaces add up.                                       *)
(***************************************************************************)
EXTENDS ReferralNetwork, ReferralEngine, Refunds, RefundAmounts,
        UssdSession, UssdMenus, FxLimits

CONSTANT default

\* Percents of levels 1 to 3, as in the constructor.
MCDefaultRates == <<10, 5, 2>>
MCRates == {-5, 15, 150}

Reward(type, amount) ==
  [type |-> type, amount |-> amount, minAmount |-> 0, maxAmount |-> 0,
   tiers |-> {}, fixedAmount |-> 0, percentAmount |-> 0]
MCTiers == {[threshold |-> 100, type |-> "fixed", amount |-> 5],
            [threshold |-> 200, type |-> "percent", amount |-> 10]}
MCRewards ==
  {Reward("fixed", 2), Reward("percent", 10),
   [Reward("tiered", 0) EXCEPT !.tiers = MCTiers],
   [Reward("percent", 50) EXCEPT !.minAmount = 3, !.maxAmount = 60],
   [Reward("hybrid", 0) EXCEPT !.fixedAmount = 7, !.percentAmount = 5, !.maxAmount = 15]}
MCAmounts == {0, 5, 99, 100, 150, 199, 200, 1000}

Config(max, minimum, fraud) ==
  [isActive |-> TRUE, maxReferralsPerUser |-> max, referralExpiryDays |-> 1,
   minPurchaseAmount |-> minimum, fraudDetectionEnabled |-> fraud,
   referrerReward |-> Reward("percent", 50)]
MCDefaultConfig == Config(1, 0, TRUE)
MCConfigs == {MCDefaultConfig, [Config(1, 9, FALSE) EXCEPT !.isActive = FALSE]}

-----------------------------------------------------------------------------
Item(status, category, policy, facts) ==
  [refundStatus |-> status, category |-> category, policy |-> policy, facts |-> facts, price |-> 250]
NoPolicy == <<>>
MCItems ==
  {Item("none", "furniture", NoPolicy, {}),
   Item("none", "furniture", NoPolicy, {"damaged"}),
   Item("none", "clothing", NoPolicy, {"sale"}),
   Item("none", "toys", [returnWindow |-> 15], {"opened"}),
   Item("none", "gift_cards", NoPolicy, {"unauthorized"}),
   Item("pending", "clothing", NoPolicy, {})}
MCMerchants == {NoPolicy, [returnWindow |-> 2]}
MCOrders ==
  {[status |-> s, dates |-> d, merchant |-> m] :
     s \in {"pending", "delivered", "cancelled"}, m \in MCMerchants,
     d \in {<<>>, [created |-> 1], [created |-> 0, delivered |-> 2]}}
MCCustomPolicies == {[returnWindow |-> 1], [condition |-> "sealed", requiresApproval |-> TRUE]}
RouteTo(method, priority) == [method |-> method, priority |-> priority]
MCRouteLists ==
  {<<>>, <<RouteTo("wallet_credit", 2), RouteTo("card_refund", 1)>>,
   <<RouteTo("card_refund", 2), RouteTo("bank_transfer", 2), RouteTo("card_refund", 1)>>}

\* Orders of up to two items, none with a discount above its subtotal.
BasketItems == [price : {1, 999, 5000}, quantity : {1, 3}, taxRate : {0, 15}]
MCBaskets ==
  {o \in {[items |-> items, shippingCost |-> s, discount |-> d] :
             items \in {<<p>> : p \in BasketItems} \cup {<<p, q>> : p, q \in BasketItems},
             s \in {0, 499}, d \in {0, 301}} : o.discount <= Subtotal(o)}

\* A main menu; one below it with a list and a hidden item; one that checks
\* numbers and leads back to the main menu; one that asks for a text, at
\* which the dialog may end; and one that takes it without a handler.
MenuShape(parent, back, items, hidden, dynamic, inputType, validator, handler) ==
  [parent |-> parent, backAction |-> back, items |-> items, hidden |-> hidden,
   dynamic |-> dynamic, inputType |-> inputType, validator |-> validator, handler |-> handler]
Leads(n, target) == [k \in {n} |-> target]
MCShapes ==
  {MenuShape(NoMenu, "parent", Leads("1", "send"), {}, FALSE, "selection", FALSE, FALSE),
   MenuShape(Home, "parent", [n \in {"1", "2"} |-> IF n = "1" THEN Home ELSE "transfer"], {"2"},
             TRUE, "selection", FALSE, FALSE),
   MenuShape("send", "main", Leads("2", "send"), {}, TRUE, "selection", TRUE, FALSE),
   MenuShape("send", "end", Leads("1", Home), {}, FALSE, "text", FALSE, TRUE),
   MenuShape(NoMenu, "end", Leads("1", Home), {}, FALSE, "text", FALSE, FALSE)}
MCListings == {Leads("1", "send"), [n \in {"2", "3"} |-> IF n = "2" THEN "transfer" ELSE "end"]}

\* Two trades of 2 fit into a day, one more does into a month; 0 would be
\* no limit.
MCTerms == [maxTrade |-> 2, minTrade |-> 1, daily |-> 3, monthly |-> 5, annual |-> 6,
            positions |-> 2, notional |-> 4]

\* Messages of up to four lines of these lengths.
MCTexts == UNION {[1 .. n -> {0, 3, 5, 9}] : n \in 1 .. 4}

-----------------------------------------------------------------------------
VARIABLE part

MCVars == <<part, networkVars, engineVars, refundsVars, ussdVars, menuVars, fxVars>>

MCInit ==
  /\ part \in {"network", "engine", "policies", "routes", "ussd", "menus", "fx"}
  /\ NetworkInit /\ EngineInit /\ RefundsInit /\ UssdInit /\ MenuInit
  /\ FxInit
  /\ part # "fx" => ~limits["currency_pair"].configured /\ ~limits["all_currencies"].configured
  /\ part # "menus" => listing = Leads("1", "send") /\ menus[Home].inputType = "selection"

MCNext ==
  /\ UNCHANGED part
  /\ \/ /\ part = "network" /\ NetworkNext
        /\ UNCHANGED <<engineVars, refundsVars, ussdVars, menuVars, fxVars>>
     \/ /\ part = "engine" /\ EngineNext
        /\ UNCHANGED <<networkVars, refundsVars, ussdVars, menuVars, fxVars>>
     \/ /\ \/ part = "policies" /\ PolicyNext
           \/ part = "routes" /\ RoutingNext
        /\ UNCHANGED <<networkVars, engineVars, ussdVars, menuVars, fxVars>>
     \/ /\ part = "ussd" /\ UssdNext
        /\ UNCHANGED <<networkVars, engineVars, refundsVars, menuVars, fxVars>>
     \/ /\ part = "menus" /\ MenuNext
        /\ UNCHANGED <<networkVars, engineVars, refundsVars, ussdVars, fxVars>>
     \/ /\ part = "fx" /\ FxNext
        /\ UNCHANGED <<networkVars, engineVars, refundsVars, ussdVars, menuVars>>

MCSpec == MCInit /\ [][MCNext]_MCVars

\* Nothing but their number matters of users and phones.
UserSymmetry == Permutations(Users) \cup Permutations(Phones)

-----------------------------------------------------------------------------
(* Refunded amounts (refund-amount-calculator.js:44, partial-refund-       *)
(* calculator.js:32): the calculators pay back what was paid and agree     *)
(* with each other; proration, fees and processing times keep their bounds.*)
AmountsSound ==
  /\ OrderRefundExact(MCBaskets)
  /\ CalculatorsAgree(MCBaskets)
  /\ ProratedFair({0, 999, 5000}, 0 .. 31)
  /\ FeesCapped({5, 15, 30}, {10, 50}, {1, 333, 1000})
  /\ TimelineClose(0 .. 15)

(* What depends on no state (refund-amount-calculator.js:44, commission-   *)
(* calculator.js:86, response-formatter.js): refunded amounts are right,   *)
(* rewards keep their bounds and never fall, and the pages of a text lose  *)
(* nothing.                                                                *)
CalculatorsSound ==
  /\ part = "routes" /\ routingMap = RoutingDefaults => AmountsSound
  /\ part = "network" /\ levelRates = DefaultRates => CommissionFair(MCRewards, MCAmounts)
  /\ part = "menus" /\ DOMAIN menus = {Home} =>
       PagesComplete(MCTexts, 10) /\ CutKeepsLimit(MCTexts, 12)

(* Dialogs (session-manager.js:12, menu-builder.js:95, :162): sessions of  *)
(* phones stay coherent, and a number leads where the screen said although *)
(* menus and lists are edited.                                             *)
DialogsSound == SessionsCoherent /\ ShownIsChosen
=============================================================================
