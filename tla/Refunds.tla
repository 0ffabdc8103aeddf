------------------------------ MODULE Refunds -------------------------------
(***************************************************************************)
(* Whether an item may be refunded, on which terms and by which route:     *)
(* refund-policy-engine.js, refund-eligibility-checker.js, refund-method-  *)
(* router.js.  The engine and the router are singletons whose tables can   *)
(* be changed while refunds are being asked for.                           *)
(*                                                                         *)
(* A policy is a function on the fields it sets; an item is what the       *)
(* checker reads of it, its condition being the set of facts that deviate  *)
(* from "as new"; an order has the day of each of its milestones.  Wording *)
(* is left out of the answers, and so are fields nothing decides on.       *)
(***************************************************************************)
EXTENDS Integers, Sequences, FiniteSets, TLC

CONSTANTS
  Items,            \* items asked about: [refundStatus, category, policy, facts, price]
  Orders,           \* [status, dates, merchant], of days in -1 .. MaxDay + 1
  Updatable,        \* the categories setCategoryPolicy() is called for
  CustomPolicies,   \* what setCategoryPolicy() is called with
  RouteLists,       \* what setRoutes() is called with
  MaxDay            \* bound on the days that pass

Methods == {"card_refund", "wallet_credit", "store_credit", "bank_transfer"}
RouteType == [method : Methods, priority : Nat]

ASSUME RefundsAssumption ==
  /\ MaxDay \in Nat
  /\ \A routes \in RouteLists : routes \in Seq(RouteType)
  /\ \A order \in Orders : \A m \in DOMAIN order.dates : order.dates[m] \in Int

VARIABLES
  categoryPolicies,
  routingMap,
  date

refundsVars == <<categoryPolicies, routingMap, date>>

-----------------------------------------------------------------------------
\* A threshold of 0 stands for none: both are falsy.
DefaultPolicy ==
  [returnWindow |-> 14, condition |-> "good_condition", restockingFee |-> 0,
   requiresOriginalPackaging |-> FALSE, requiresApproval |-> FALSE,
   approvalThreshold |-> 0, exceptions |-> <<>>]

\* Four of the twelve categories of _defineCategoryDefaults(), one of each kind.
CategoryDefaults ==
  LET Terms(window, condition, fee, packaging, approval, exceptions) ==
        [returnWindow |-> window, condition |-> condition, restockingFee |-> fee,
         requiresOriginalPackaging |-> packaging, requiresApproval |-> approval,
         exceptions |-> exceptions]
      Allow(type) == [type |-> type, override |-> TRUE]
      Deny(type) == [type |-> type, override |-> FALSE]
  IN  [furniture |-> Terms(7, "unused", 15, TRUE, TRUE, <<Allow("defective"), Deny("assembled")>>)
                       @@ [approvalThreshold |-> 200],
       clothing |-> Terms(30, "unworn_with_tags", 0, FALSE, FALSE, <<Deny("sale_item")>>),
       gift_cards |-> Terms(0, "non_refundable", 0, FALSE, FALSE, <<Allow("unauthorized_purchase")>>),
       default |-> Terms(14, "good_condition", 0, FALSE, FALSE, <<>>)]

RoutingDefaults ==
  LET R(method, priority) == [method |-> method, priority |-> priority]
  IN  [card |-> <<R("card_refund", 1), R("wallet_credit", 2), R("store_credit", 3)>>,
       bank_transfer |-> <<R("bank_transfer", 1), R("wallet_credit", 2)>>]

-----------------------------------------------------------------------------
_getCategoryPolicy(category) ==
  categoryPolicies[IF category \in DOMAIN categoryPolicies THEN category ELSE "default"]

\* {...under, ...upper}: a field of both is the upper one's.
Over(upper, under) ==
  [f \in DOMAIN upper \cup DOMAIN under |-> IF f \in DOMAIN upper THEN upper[f] ELSE under[f]]

\* The layers of a product, highest priority first.
policyStack(product, merchant, category) ==
  <<product, merchant, _getCategoryPolicy(category), DefaultPolicy>>

\* Each layer is spread over the ones before it, so the last one wins.
_mergePolicies(stack) == Over(stack[4], Over(stack[3], Over(stack[2], Over(stack[1], DefaultPolicy))))

\* The facts each condition excludes; an unopened_or_defective item may have
\* any of them once it is damaged.
Excluded ==
  [unopened_or_defective |-> {"opened", "noPackaging"}, unopened |-> {"opened"},
   unworn_with_tags |-> {"damaged", "noTags"}, sealed |-> {"opened"},
   unused |-> {"damaged"}, good_condition |-> {"damaged"},
   case_by_case |-> {}, prorated |-> {}]

_checkConditionRequirements(condition, facts) ==
  /\ condition # "non_refundable"
  /\ \/ condition \notin DOMAIN Excluded
     \/ condition = "unopened_or_defective" /\ "damaged" \in facts
     \/ Excluded[condition] \cap facts = {}

\* Mutant: the window is open from its last day on.
WindowOver_Inverted(policy, days) == days < policy.returnWindow

WindowOver(policy, days) == days > policy.returnWindow

\* The facts by which an exception is known to apply.
ExceptionFacts ==
  [defective |-> {"damaged"}, sale_item |-> {"sale"}, opened |-> {"opened"},
   assembled |-> {"assembled"}, unauthorized_purchase |-> {"unauthorized"}]

_exceptionMatches(exception, facts) ==
  exception.type \in DOMAIN ExceptionFacts /\ ExceptionFacts[exception.type] \subseteq facts

\* _checkExceptions(): the first exception that matches decides.
Decides(policy, facts) ==
  SelectSeq(policy.exceptions, LAMBDA e : _exceptionMatches(e, facts))

_calculateRestockingFee(policy, facts) ==
  LET opened == IF "opened" \in facts /\ policy.restockingFee = 0 THEN 5
                ELSE policy.restockingFee
  IN  IF "noPackaging" \in facts /\ policy.requiresOriginalPackaging /\ opened < 10
      THEN 10 ELSE opened

_checkApprovalRequired(policy, price) ==
  /\ policy.requiresApproval
  /\ policy.approvalThreshold # 0 => price > policy.approvalThreshold

Denied(code) == [eligible |-> FALSE, code |-> code]

\* evaluate(): an exception is looked at once nothing else speaks against the
\* refund, and carries neither a fee nor a need for approval.
evaluate(policy, days, facts, price) ==
  LET deciding == Decides(policy, facts)
  IN  IF policy.returnWindow = 0 \/ policy.condition = "non_refundable"
      THEN Denied("NON_REFUNDABLE")
      ELSE IF WindowOver(policy, days) THEN Denied("EXPIRED")
      ELSE IF ~_checkConditionRequirements(policy.condition, facts) THEN Denied("CONDITION")
      ELSE IF deciding # <<>>
      THEN [eligible |-> Head(deciding).override, code |-> "EXCEPTION"]
      ELSE [eligible |-> TRUE, code |-> "ELIGIBLE",
            restockingFee |-> _calculateRestockingFee(policy, facts),
            requiresApproval |-> _checkApprovalRequired(policy, price)]

-----------------------------------------------------------------------------
refundableStatuses == {"completed", "delivered", "partially_delivered"}
cancellableStatuses == {"pending", "confirmed", "processing"}
maxRefundAttempts == 3

\* _getReferenceDate(): the latest milestone an order has reached.
Milestones == <<"delivered", "completed", "shipped", "created">>
Reached(order) == {i \in DOMAIN Milestones : Milestones[i] \in DOMAIN order.dates}
_getReferenceDate(order) ==
  order.dates[Milestones[CHOOSE i \in Reached(order) : \A j \in Reached(order) : i <= j]]

\* check(), for the item, the number of refunds asked for so far and whether
\* the caller is the owner, or the recipient of a gift who may return it.
check(item, order, previous, authorized) ==
  LET days == date - _getReferenceDate(order)
  IN  IF item.refundStatus = "fully_refunded" THEN Denied("ALREADY_REFUNDED")
      ELSE IF item.refundStatus \in {"pending", "processing"} THEN Denied("REFUND_IN_PROGRESS")
      ELSE IF previous >= maxRefundAttempts THEN Denied("MAX_ATTEMPTS_REACHED")
      ELSE IF order.status \notin refundableStatuses \cup cancellableStatuses
      THEN Denied("INVALID_STATUS")
      ELSE IF Reached(order) = {} THEN Denied("NO_REFERENCE_DATE")
      ELSE IF days < 0 THEN Denied("INVALID_DATE")
      ELSE IF ~authorized THEN Denied("UNAUTHORIZED")
      ELSE evaluate(_mergePolicies(policyStack(item.policy, order.merchant, item.category)),
                    days, item.facts, item.price)

-----------------------------------------------------------------------------
\* A request for a route: what was paid with, the methods the policy allows,
\* if it limits them, and the method that is preferred, if any.
PaymentMethods == DOMAIN RoutingDefaults
NoPreference == "none"
Requests ==
  [paidBy : PaymentMethods, allowed : SUBSET Methods, preferred : Methods \cup {NoPreference}]
Manual == [method |-> "manual", priority |-> 0]

\* The places of the routes a request is answered from, and of those that
\* are preferred.
Available(table, r) ==
  {i \in DOMAIN table[r.paidBy] : r.allowed # {} => table[r.paidBy][i].method \in r.allowed}
Preferred(table, r) == {i \in Available(table, r) : table[r.paidBy][i].method = r.preferred}

\* Array.prototype.sort() is stable.
Earlier(routes, i, j) ==
  \/ routes[i].priority < routes[j].priority
  \/ routes[i].priority = routes[j].priority /\ i < j

\* Mutant: a list is taken to be in order as it is.
FirstByPriority_Unsorted(routes, places) == {i \in places : \A j \in places : i <= j}

\* The place that comes first, if there is any.
FirstByPriority(routes, places) ==
  {i \in places : \A j \in places \ {i} : Earlier(routes, i, j)}

ByPriority(routes) ==
  LET Rank(i) == 1 + Cardinality({j \in DOMAIN routes : Earlier(routes, j, i)})
  IN  [n \in DOMAIN routes |-> routes[CHOOSE i \in DOMAIN routes : Rank(i) = n]]

\* route(): the answer.  The preferred route is found, not sorted.
Route(table, r) ==
  LET preferred == Preferred(table, r)
      chosen == IF preferred # {} THEN {i \in preferred : \A j \in preferred : i <= j}
                ELSE FirstByPriority(table[r.paidBy], Available(table, r))
  IN  IF chosen = {} THEN Manual ELSE table[r.paidBy][CHOOSE i \in chosen : TRUE]

\* route(): what it does to the table, which it sorts in place unless a
\* filter made a new list.
Sorted(table, r) ==
  IF r.allowed # {} \/ Preferred(table, r) # {} THEN table
  ELSE [table EXCEPT ![r.paidBy] = ByPriority(@)]

-----------------------------------------------------------------------------
RefundsInit ==
  /\ categoryPolicies = CategoryDefaults
  /\ routingMap = RoutingDefaults
  /\ date = 0

\* The fields of the policy, over those the category had, if it had any.
Updated(category, policy) ==
  IF category \in DOMAIN categoryPolicies THEN Over(policy, categoryPolicies[category]) ELSE policy

setCategoryPolicy(category, policy) ==
  /\ categoryPolicies' = Over(category :> Updated(category, policy), categoryPolicies)
  /\ UNCHANGED <<routingMap, date>>

setRoutes(paymentMethod, routes) ==
  /\ routingMap' = [routingMap EXCEPT ![paymentMethod] = routes]
  /\ UNCHANGED <<categoryPolicies, date>>

route(r) ==
  /\ routingMap' = Sorted(routingMap, r)
  /\ UNCHANGED <<categoryPolicies, date>>

\* A day passes.
DayPasses ==
  /\ date < MaxDay
  /\ date' = date + 1
  /\ UNCHANGED <<categoryPolicies, routingMap>>

PolicyNext ==
  (\E c \in Updatable, p \in CustomPolicies : setCategoryPolicy(c, p)) \/ DayPasses

RoutingNext ==
  \/ \E m \in PaymentMethods, routes \in RouteLists : setRoutes(m, routes)
  \/ \E r \in Requests : route(r)

RefundsNext == PolicyNext \/ RoutingNext

RefundsSpec == RefundsInit /\ [][RefundsNext]_refundsVars

-----------------------------------------------------------------------------
Fields == DOMAIN DefaultPolicy

(* However they are updated, the built-in categories keep a complete       *)
(* policy, and so does every item of a category nobody defined; the router *)
(* keeps its payment methods (refund-policy-engine.js:236).                *)
RefundsTypeOK ==
  /\ DOMAIN CategoryDefaults \subseteq DOMAIN categoryPolicies
  /\ \A c \in DOMAIN CategoryDefaults :
       DOMAIN CategoryDefaults[c] \subseteq DOMAIN categoryPolicies[c]
  /\ routingMap \in [PaymentMethods -> Seq(RouteType)]
  /\ date \in 0 .. MaxDay

Eligible(item, order, previous) == check(item, order, previous, TRUE).eligible

(* A request that comes too late stays too late: while time passes, and    *)
(* nothing else happens to the order, a refund that was refused is not     *)
(* granted later, unless the order is dated in the future; and with every  *)
(* attempt already made the chances only fall                              *)
(* (refund-eligibility-checker.js:52-185).                                 *)
NeverReopens ==
  [][date' # date =>
       \A item \in Items, order \in Orders, n \in 0 .. maxRefundAttempts :
         /\ /\ ~Eligible(item, order, n)
            /\ check(item, order, n, TRUE).code # "INVALID_DATE"
            => ~Eligible(item, order, n)'
         /\ n > 0 /\ Eligible(item, order, n) => Eligible(item, order, n - 1)]_refundsVars

(* "Routes refund to the correct payment method" (refund-method-router.js: *)
(* 6): whatever lists of routes were set, a route is one the policy allows *)
(* and the preferred one if it can be had, or else none that is allowed    *)
(* comes before it.                                                        *)
RouteIsBest ==
  \A r \in Requests :
    LET chosen == Route(routingMap, r)
        usable == {i \in DOMAIN routingMap[r.paidBy] :
                     r.allowed # {} => routingMap[r.paidBy][i].method \in r.allowed}
    IN  IF usable = {} THEN chosen = Manual
        ELSE \E i \in usable :
               /\ chosen = routingMap[r.paidBy][i]
               /\ \/ chosen.method = r.preferred
                  \/ \A j \in usable :
                       /\ routingMap[r.paidBy][j].method # r.preferred
                       /\ chosen.priority <= routingMap[r.paidBy][j].priority

(* Asking for a route changes no later answer, although it may sort the    *)
(* table itself, as long as no list has two routes of one method           *)
(* (refund-method-router.js:118).                                          *)
AskingIsHarmless ==
  [][routingMap' # routingMap /\ (\E asked \in Requests : routingMap' = Sorted(routingMap, asked)) =>
       \A r \in Requests :
         LET list == routingMap[r.paidBy]
         IN  (\A i, j \in DOMAIN list : list[i].method = list[j].method => i = j)
               => Route(routingMap', r) = Route(routingMap, r)]_refundsVars

(* Refunds (refund-policy-engine.js:122, refund-method-router.js:118): an  *)
(* item that may no longer be returned is not accepted on a later day, a   *)
(* refund goes the best way there is, also after the table has changed,    *)
(* and asking where it goes changes no later answer.                       *)
RefusalsStand ==
  /\ NeverReopens
  /\ RouteIsBest /\ [][routingMap' # routingMap => RouteIsBest']_refundsVars
  /\ AskingIsHarmless

(* "Merge policies (higher priority overrides lower)" (refund-policy-      *)
(* engine.js:108): a field that a product, merchant or category sets has   *)
(* the value of the first of them that sets it.                            *)
PriorityRespected ==
  \A item \in Items, order \in Orders :
    LET stack == policyStack(item.policy, order.merchant, item.category)
    IN  \A f \in Fields, n \in 1 .. Len(stack) :
          /\ f \in DOMAIN stack[n]
          /\ \A m \in 1 .. n - 1 : f \notin DOMAIN stack[m]
          => _mergePolicies(stack)[f] = stack[n][f]
=============================================================================
