--------------------------- MODULE RefundAmounts ---------------------------
(***************************************************************************)
(* What a refund is worth: refund-amount-calculator.js, partial-refund-    *)
(* calculator.js, restocking-fee-calculator.js and refund-timeline-        *)
(* calculator.js.  Amounts are whole cents and rates whole percents, so    *)
(* that rounding to two decimals is rounding to a whole cent.  An order is *)
(* a sequence of items with the shipping cost and the discount it shares   *)
(* among them; its subtotal is the sum of its items.                       *)
(***************************************************************************)
EXTENDS Integers, Collections

Smaller(a, b) == IF a < b THEN a ELSE b
Larger(a, b) == IF a > b THEN a ELSE b
Distance(a, b) == Larger(a - b, b - a)

\* Math.round() of n / d, which rounds halves up.
Rounded(n, d) == (2 * n + d) \div (2 * d)

\* The sum of amounts, one of each item of an order.
AllOf(order, amounts) == Total(amounts, Len(order.items))

Price(item) == item.price * item.quantity
Prices(order) == [i \in DOMAIN order.items |-> Price(order.items[i])]
Subtotal(order) == AllOf(order, Prices(order))

\* Orders that were paid: something was bought, and the discount is no larger
\* than its price.
Baskets ==
  {o \in [items : Seq([price : Nat, quantity : Nat \ {0}, taxRate : Nat]),
          shippingCost : Nat, discount : Nat] :
     Subtotal(o) > 0 /\ o.discount <= Subtotal(o)}

-----------------------------------------------------------------------------
\* Mutant: every item bears the whole discount.
Deductions_WholeDiscount(item, order, options, subtotal) ==
  Rounded(subtotal * options.restockingFeePercent, 100) + order.discount

\* Restocking fee and share of the discount.
Deductions(item, order, options, subtotal) ==
  Rounded(subtotal * options.restockingFeePercent, 100)
    + Rounded(order.discount * subtotal, Subtotal(order))

\* calculateRefund(): the net refund of one item, of which a partial refund takes
\* back at most the quantity bought.
calculateRefund(item, order, options) ==
  LET quantity == IF options.isPartialRefund
                  THEN Smaller(options.partialQuantity, item.quantity)
                  ELSE item.quantity
      subtotal == item.price * quantity
      tax == Rounded(subtotal * item.taxRate, 100)
      shipping == IF options.refundShipping
                  THEN Rounded(order.shippingCost * subtotal, Subtotal(order)) ELSE 0
  IN  Larger(0, subtotal + tax + shipping - Deductions(item, order, options, subtotal))

Refunded(order, options) ==
  [i \in DOMAIN order.items |-> calculateRefund(order.items[i], order, options)]

calculateOrderRefund(order, options) == AllOf(order, Refunded(order, options))

Unused(total, used) == Larger(0, total - used)

\* calculateProratedRefund(), by days; a subscription cancelled before its
\* first day has used a negative number of them.
calculateProratedRefund(amount, total, used) ==
  IF total <= 0 THEN 0 ELSE Rounded(amount * Unused(total, used), total)

\* The net refund of a share of an order: subtotal, and as large a share of
\* the tax, the shipping cost and the discount, rounded once.
ItemSelected(order, subtotal, tax) ==
  LET whole == Subtotal(order)
  IN  Rounded(whole * subtotal + subtotal * (tax + order.shippingCost - order.discount), whole)

\* Amounts with those of the items at other positions left out.
OnlyOf(amounts, selected) == [i \in DOMAIN amounts |-> IF i \in selected THEN amounts[i] ELSE 0]

\* calculateItemSelection() for the items at some positions of the order.
calculateItemSelection(order, tax, selected) ==
  ItemSelected(order, AllOf(order, OnlyOf(Prices(order), selected)), tax)

\* calculateDamageCompensation() and calculateServiceAdjustment() refund a
\* percentage of the item.
CompensationRates == {15, 35, 65, 100}
calculateShare(item, percent) == Rounded(Price(item) * Larger(0, percent), 100)

-----------------------------------------------------------------------------
ConditionFees ==
  [opened |-> 5, used |-> 10, missing_packaging |-> 5, missing_accessories |-> 10,
   damaged_packaging |-> 2, assembled |-> 15, installed |-> 20]

\* RestockingFeeCalculator.calculate(): the category's fee, more for each
\* condition, up to the cap.
FeePercent(base, conditions, maxFeePercent) ==
  Smaller(base + SumOver(ConditionFees, conditions), maxFeePercent)

RestockingFee(base, conditions, maxFeePercent, price) ==
  Rounded(price * FeePercent(base, conditions, maxFeePercent), 100)

-----------------------------------------------------------------------------
Weekend == {0, 6}

\* _addBusinessDays(): the calendar days that pass from a weekday, 0 being
\* Sunday, until a number of days that are no weekend have begun; each turn of
\* the loop that counts one skips a weekend before it.
DaysSkipped(weekday) == CHOOSE k \in 0 .. 2 :
  /\ (weekday + k + 1) % 7 \notin Weekend
  /\ \A j \in 0 .. k - 1 : (weekday + j + 1) % 7 \in Weekend

_addBusinessDays(weekday, days) ==
  LET turn == [passed \in Nat |-> passed + DaysSkipped(weekday + passed) + 1]
  IN  Iterated([added \in 1 .. days |-> turn], 0, days)

\* Five business days are taken for seven calendar days, rounded up.
_businessToCalendar(days) == (7 * days + 4) \div 5

-----------------------------------------------------------------------------
Whole == [refundShipping |-> TRUE, restockingFeePercent |-> 0,
          isPartialRefund |-> FALSE, partialQuantity |-> 1]

(* "Calculates the exact refund amount" (refund-amount-calculator.js:7):   *)
(* refunding a whole order with its shipping, item by item, pays back what *)
(* was paid for it, up to half a cent for each of the three amounts of an  *)
(* item that are rounded.                                                  *)
OrderRefundExact(orders) ==
  \A o \in orders :
    LET taxed == [i \in DOMAIN o.items |-> Price(o.items[i]) * (100 + o.items[i].taxRate)]
        paid == AllOf(o, taxed) + 100 * (o.shippingCost - o.discount)
    IN  Distance(100 * calculateOrderRefund(o, Whole), paid) <= 150 * Len(o.items)

(* The two calculators agree: a selection of items of an order taxed at    *)
(* one rate is worth the same to the partial refund calculator as item by  *)
(* item to the other one, up to half a cent for each amount of a selected  *)
(* item and for the tax of each item of the order; a share of an item      *)
(* never costs more than the item.                                         *)
CalculatorsAgree(orders) ==
  \A o \in {o \in orders : \A i, j \in DOMAIN o.items : o.items[i].taxRate = o.items[j].taxRate} :
  \A selected \in SUBSET DOMAIN o.items :
    LET taxes == [i \in DOMAIN o.items |-> Rounded(Price(o.items[i]) * o.items[i].taxRate, 100)]
        single == AllOf(o, OnlyOf(Refunded(o, Whole), selected))
    IN  /\ 2 * Distance(calculateItemSelection(o, AllOf(o, taxes), selected), single)
             <= 3 * Cardinality(selected) + Len(o.items) + 1
        /\ \A i \in selected, p \in CompensationRates :
             calculateShare(o.items[i], p) <= Price(o.items[i])

(* A subscription cancelled once it has begun is refunded no more than it  *)
(* cost, and no more the later it is cancelled.                            *)
ProratedFair(amounts, days) ==
  \A a \in amounts, total, used \in days :
    /\ calculateProratedRefund(a, total, used) <= a
    /\ calculateProratedRefund(a, total, used + 1) <= calculateProratedRefund(a, total, used)

(* However many conditions add up, a restocking fee keeps its cap, and one *)
(* more condition never lowers it.                                         *)
FeesCapped(bases, caps, prices) ==
  \A b \in bases, cap \in caps, p \in prices, cs \in SUBSET DOMAIN ConditionFees :
    /\ 100 * RestockingFee(b, cs, cap, p) <= cap * p + 50
    /\ \A c \in cs : RestockingFee(b, cs \ {c}, cap, p) <= RestockingFee(b, cs, cap, p)

(* Processing times end on a working day, and the calendar days promised   *)
(* with them are at most one too few, whatever day a refund is asked for.  *)
TimelineClose(days) ==
  \A weekday \in 0 .. 6, n \in days :
    /\ n > 0 => (weekday + _addBusinessDays(weekday, n)) % 7 \notin Weekend
    /\ _addBusinessDays(weekday, n) <= _businessToCalendar(n) + 1
=============================================================================
