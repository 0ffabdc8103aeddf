--------------------------- MODULE CommerceProofs ---------------------------
(***************************************************************************)
(* Proofs about the business services: the trading limits of FxLimits, the *)
(* referral engine of ReferralEngine, the policies and routes of Refunds,  *)
(* the commissions of ReferralNetwork, and the menus of UssdMenus.         *)
(***************************************************************************)
EXTENDS MCCommerce, Collections, FunctionTheorems, TLAPS

(* A product with a larger factor is larger, and only with one.            *)
LEMMA Scales ==
  ASSUME NEW a \in Nat, NEW b \in Int, NEW c \in Int, b <= c
  PROVE  a * b <= a * c
<1> DEFINE e == c - b
<1>1. e \in Nat /\ c = b + e
  OBVIOUS
<1> HIDE DEF e
<1>2. a * (b + e) = a * b + a * e /\ a * e \in Nat /\ a * b \in Int
  BY <1>1
<1> QED BY <1>1, <1>2

LEMMA ScalesBack ==
  ASSUME NEW a \in Nat \ {0}, NEW b \in Int, NEW c \in Int, a * b < a * c
  PROVE  b < c
<1>1. b >= c => a * c <= a * b
  BY Scales
<1>2. a * b \in Int /\ a * c \in Int
  OBVIOUS
<1> QED BY <1>1, <1>2

-----------------------------------------------------------------------------
(* Trading limits.                                                         *)

FxInv == FxTypeOK /\ FxLimitsKept

LEMMA LargestIs == Largest \in Amounts /\ Largest \in Nat /\ \A a \in Amounts : a <= Largest
<1>0. IsFiniteSet(Amounts) /\ Amounts # {} /\ Amounts \subseteq Nat /\ Amounts \subseteq Int
  BY FxAssumption
<1>1. \E x \in Amounts : \A y \in Amounts : y <= x
  BY <1>0, GreatestOf
<1>2. \E x \in Amounts : \A y \in Amounts : x >= y
  BY <1>1
<1>3. Largest \in Amounts /\ \A y \in Amounts : Largest >= y
  BY <1>2 DEF Largest, Max
<1> QED BY <1>0, <1>3

(* The amounts of the trades in one state, and how many opened a position. *)
InStateOf(tr, st) == {t \in Traders : tr[t].st = st}
OpenNewOf(tr) == {t \in Traders : tr[t].st = "open" /\ tr[t].isNewPosition}
AmountIn(tr, S) == SumOver([t \in Traders |-> tr[t].amount], S)
Outstanding(tr, st) == AmountIn(tr, InStateOf(tr, st))

LEMMA TradeIs ==
  ASSUME NEW x \in Trades
  PROVE  x.amount \in Nat /\ x.isNewPosition \in BOOLEAN
<1> DEFINE a == x.amount
<1>1. a \in Amounts \/ a = 0
  BY DEF Trades
<1>2. \A y \in Amounts : y \in Nat
  BY FxAssumption
<1> HIDE DEF a
<1>3. a \in Nat
  BY <1>1, <1>2
<1> QED BY <1>3 DEF a, Trades

LEMMA AmountType ==
  ASSUME NEW tr \in [Traders -> Trades], NEW S \in SUBSET Traders
  PROVE  IsFiniteSet(S) /\ AmountIn(tr, S) \in Nat
<1>1. IsFiniteSet(S)
  BY FxAssumption, FS_Subset
<1> DEFINE f == [t \in Traders |-> tr[t].amount]
<1>2. \A x \in S : f[x] \in Nat
  BY TradeIs
<1> HIDE DEF f
<1>3. SumOver(f, S) \in Nat
  BY <1>1, <1>2, SumType
<1> QED BY <1>1, <1>3 DEF AmountIn, f

LEMMA AmountWith ==
  ASSUME NEW tr \in [Traders -> Trades], NEW S \in SUBSET Traders, NEW t \in S
  PROVE  AmountIn(tr, S) = AmountIn(tr, S \ {t}) + tr[t].amount
<1> DEFINE f == [x \in Traders |-> tr[x].amount]
<1>1. \A x \in S : f[x] \in Nat
  BY TradeIs
<1>2. f[t] = tr[t].amount
  OBVIOUS
<1>3. IsFiniteSet(S)
  BY AmountType
<1> HIDE DEF f
<1>4. SumOver(f, S) = SumOver(f, S \ {t}) + f[t]
  BY <1>1, <1>3, SumWithout
<1> QED BY <1>2, <1>4 DEF AmountIn, f

LEMMA AmountLike ==
  ASSUME NEW tr, NEW tr2, NEW S \in SUBSET Traders, \A t \in S : tr2[t].amount = tr[t].amount
  PROVE  AmountIn(tr2, S) = AmountIn(tr, S)
<1> DEFINE f == [x \in Traders |-> tr[x].amount]
           g == [x \in Traders |-> tr2[x].amount]
<1>1. \A x \in S : f[x] = g[x]
  OBVIOUS
<1> HIDE DEF f, g
<1>2. SumOver(f, S) = SumOver(g, S)
  BY <1>1, SumAlike
<1> QED BY <1>2 DEF AmountIn, f, g

(* One trade is replaced.                                                  *)
AmountFor(x, st) == IF x.st = st THEN x.amount ELSE 0

(* The sums before and after a trade is replaced, by what is left of both. *)
Replacing(tr, tr2, t, x, st) ==
  LET rest == AmountIn(tr, InStateOf(tr, st) \ {t})
  IN  /\ rest \in Nat
      /\ Outstanding(tr, st) = rest + AmountFor(tr[t], st)
      /\ Outstanding(tr2, st) = rest + AmountFor(x, st)

LEMMA Replaced ==
  ASSUME NEW tr \in [Traders -> Trades], NEW t \in Traders, NEW x \in Trades, NEW st,
         NEW tr2, tr2 = [tr EXCEPT ![t] = x]
  PROVE  Replacing(tr, tr2, t, x, st)
<1> DEFINE S == InStateOf(tr, st)
           S2 == InStateOf(tr2, st)
           rest == S \ {t}
           old == AmountFor(tr[t], st)
           new == AmountFor(x, st)
<1>1. tr2 \in [Traders -> Trades] /\ tr2[t] = x /\ \A q \in Traders : q # t => tr2[q] = tr[q]
  OBVIOUS
<1>2. tr[t] \in Trades /\ tr[t].amount \in Nat /\ x.amount \in Nat
  BY TradeIs
<1>3. S \in SUBSET Traders /\ S2 \in SUBSET Traders /\ rest \in SUBSET Traders /\ S2 \ {t} = rest
  BY <1>1 DEF InStateOf
<1>4. (t \in S <=> tr[t].st = st) /\ (t \in S2 <=> x.st = st)
  BY <1>1 DEF InStateOf
<1>5. AmountIn(tr2, rest) = AmountIn(tr, rest) /\ AmountIn(tr, rest) \in Nat
  <2>1. \A q \in rest : tr2[q].amount = tr[q].amount
    BY <1>1, <1>3
  <2> QED BY <1>3, <2>1, AmountLike, AmountType
<1> HIDE DEF S, S2
<1>6. AmountIn(tr, S) = AmountIn(tr, rest) + old
  <2>1. CASE t \in S
    BY <1>3, <1>4, <2>1, AmountWith DEF AmountFor
  <2>2. CASE t \notin S
    <3>1. rest = S
      BY <2>2
    <3>2. AmountIn(tr, S) = AmountIn(tr, rest) /\ AmountIn(tr, rest) \in Nat
      BY <1>5, <3>1
    <3>3. old = 0
      BY <1>4, <2>2 DEF AmountFor
    <3> QED BY <3>2, <3>3
  <2> QED BY <2>1, <2>2
<1>7. AmountIn(tr2, S2) = AmountIn(tr2, rest) + new
  <2>1. CASE t \in S2
    <3>1. AmountIn(tr2, S2) = AmountIn(tr2, S2 \ {t}) + tr2[t].amount
      BY <1>1, <1>3, <2>1, AmountWith
    <3> QED BY <1>1, <1>3, <1>4, <2>1, <3>1 DEF AmountFor
  <2>2. CASE t \notin S2
    <3>1. rest = S2
      BY <1>3, <2>2
    <3>2. AmountIn(tr2, S2) = AmountIn(tr2, rest) /\ AmountIn(tr2, rest) \in Nat
      BY <1>5, <3>1
    <3>3. new = 0
      BY <1>4, <2>2 DEF AmountFor
    <3> QED BY <3>2, <3>3
  <2> QED BY <2>1, <2>2
<1> QED BY <1>5, <1>6, <1>7 DEF Outstanding, S, S2, old, new, rest, Replacing

(* All traders but one have no more than the largest amount each.          *)
LEMMA OthersBounded ==
  ASSUME NEW tr \in [Traders -> Trades], NEW S \in SUBSET Traders, NEW t \in Traders, t \notin S
  PROVE  AmountIn(tr, S) <= (Cardinality(Traders) - 1) * Largest
<1> DEFINE f == [x \in Traders |-> tr[x].amount]
           n == Cardinality(Traders)
           m == Largest
<1>1. m \in Nat /\ \A x \in S : f[x] \in 0 .. m
  <2>1. ASSUME NEW x \in S PROVE tr[x].amount \in 0 .. m
    <3> DEFINE a == tr[x].amount
    <3>1. a \in Nat /\ (a \in Amounts \/ a = 0)
      <4>1. tr[x] \in Trades
        OBVIOUS
      <4> QED BY <4>1, TradeIs DEF Trades
    <3> HIDE DEF a
    <3>2. a \in 0 .. m
      BY <3>1, LargestIs
    <3> QED BY <3>2 DEF a
  <2> QED BY <2>1, LargestIs
<1>2. IsFiniteSet(S) /\ IsFiniteSet(Traders \ {t}) /\ n \in Nat /\ Cardinality(Traders \ {t}) = n - 1
  BY AmountType, FxAssumption, FS_RemoveElement, FS_CardinalityType
<1> HIDE DEF f, n, m
<1>3. SumOver(f, S) <= Cardinality(S) * m /\ SumOver(f, S) \in Nat
  BY <1>1, <1>2, UnitsBounded
<1>4. S \in SUBSET (Traders \ {t})
  OBVIOUS
<1>5. Cardinality(S) <= n - 1 /\ Cardinality(S) \in Nat
  BY <1>2, <1>4, FS_Subset, FS_CardinalityType
<1>6. Cardinality(S) * m <= (n - 1) * m
  <2> DEFINE c == Cardinality(S)
  <2>1. c \in Nat /\ n - 1 \in Nat /\ c <= n - 1 /\ m \in Nat
    BY <1>1, <1>2, <1>5
  <2> DEFINE d == (n - 1) - c
  <2>2. d \in Nat /\ c + d = n - 1
    BY <2>1
  <2> HIDE DEF c, d
  <2>3. (c + d) * m = c * m + d * m /\ d * m \in Nat /\ c * m \in Nat
    BY <2>1, <2>2
  <2>4. c * m <= (c + d) * m
    BY <2>3
  <2> QED BY <2>2, <2>4 DEF c
<1> QED BY <1>1, <1>2, <1>3, <1>5, <1>6 DEF AmountIn, f, n, m

LEMMA RowIs ==
  ASSUME FxTypeOK, NEW s \in Rows
  PROVE  /\ s \in Scopes /\ limits[s] \in Row /\ limits[s].configured
         /\ limits[s].used \in [Spans -> Nat] /\ limits[s].notional \in Nat /\ limits[s].positions \in Nat
         /\ \A n \in Spans : limits[s].used[n] \in Nat
<1>1. s \in Scopes /\ limits[s].configured /\ limits[s] \in {NoRow} \cup Row
  BY DEF Rows, FxTypeOK
<1>2. limits[s] # NoRow
  BY <1>1 DEF NoRow
<1> QED BY <1>1, <1>2 DEF Row

LEMMA NoRowIs == ASSUME FxTypeOK, NEW s \in Scopes, s \notin Rows PROVE limits[s] = NoRow
BY DEF Rows, FxTypeOK, Row

(* What a row has to satisfy.                                              *)
LimitOf(row, allowed) ==
  \A n \in Spans : FxTerms[n] > 0 =>
    row.used[n] + allowed <= FxTerms[n] + (Cardinality(Traders) - 1) * Largest
OutstandingOf(row, sum, fresh) ==
  /\ row.notional <= sum
  /\ row.first => row.notional = sum
  /\ row.positions <= fresh


LEMMA FxInvIs ==
  FxInv <=> /\ FxTypeOK
            /\ \A s \in getLimits : LimitOf(limits[s], Outstanding(trade, "allowed"))
            /\ \A s \in Rows : OutstandingOf(limits[s], Outstanding(trade, "open"), Cardinality(OpenNewOf(trade)))
<1>1. /\ AmountOf(InState("allowed")) = Outstanding(trade, "allowed")
      /\ AmountOf(InState("open")) = Outstanding(trade, "open")
      /\ {t \in InState("open") : trade[t].isNewPosition} = OpenNewOf(trade)
  BY DEF AmountOf, InState, Outstanding, AmountIn, InStateOf, OpenNewOf
<1> QED BY <1>1 DEF FxInv, FxLimitsKept, LimitsHold, OutstandingMatches, LimitOf, OutstandingOf

LEMMA FreshRowType ==
  ASSUME NEW d \in Int, NEW m \in Int, NEW first \in BOOLEAN
  PROVE  FreshRow(d, m, first) \in Row
<1> DEFINE u == [s \in Spans |-> 0]
<1>1. u \in [Spans -> Nat]
  OBVIOUS
<1> HIDE DEF u
<1> QED BY <1>1 DEF FreshRow, Row, u

LEMMA FxInitInv == FxInit => FxInv
<1> SUFFICES ASSUME FxInit PROVE FxInv
  OBVIOUS
<1>1. FreshRow(Day, Month, TRUE) \in Row
  <2>1. Day \in Int /\ Month \in Int
    BY FxAssumption
  <2> QED BY <2>1, FreshRowType
<1>2. FxTypeOK
  <2>1. limits \in [Scopes -> {NoRow} \cup Row]
    BY <1>1 DEF FxInit
  <2>2. NoTrade \in Trades
    BY DEF NoTrade, Trades
  <2>3. trade \in [Traders -> Trades] /\ \A t \in Traders : trade[t].st = "none"
    BY <2>2 DEF FxInit, NoTrade
  <2> QED BY <2>1, <2>3, FxAssumption DEF FxTypeOK, FxInit
<1>3. InStateOf(trade, "allowed") = {} /\ InStateOf(trade, "open") = {} /\ OpenNewOf(trade) = {}
  BY DEF FxInit, NoTrade, InStateOf, OpenNewOf
<1>4. Outstanding(trade, "allowed") = 0 /\ Outstanding(trade, "open") = 0 /\ Cardinality(OpenNewOf(trade)) = 0
  BY <1>3, SumNone, FS_EmptySet DEF AmountIn, Outstanding
<1>5. \A s \in Rows : limits[s] = FreshRow(Day, Month, TRUE)
  <2> SUFFICES ASSUME NEW s \in Rows PROVE limits[s] = FreshRow(Day, Month, TRUE)
    OBVIOUS
  <2>1. s \in Scopes /\ limits[s] # NoRow
    BY <1>2, RowIs DEF NoRow
  <2> QED BY <2>1 DEF FxInit
<1>6. /\ FreshRow(Day, Month, TRUE).notional = 0 /\ FreshRow(Day, Month, TRUE).positions = 0
      /\ \A n \in Spans : FreshRow(Day, Month, TRUE).used[n] = 0
  BY DEF FreshRow
<1>7. (Cardinality(Traders) - 1) * Largest \in Nat
  <2>1. Cardinality(Traders) \in Nat \ {0}
    BY FxAssumption, FS_CardinalityType, FS_EmptySet
  <2> QED BY <2>1, LargestIs
<1>8. \A n \in Spans : FxTerms[n] \in Nat
  BY FxAssumption DEF Spans
<1>9. \A s \in getLimits : LimitOf(limits[s], 0)
  <2> SUFFICES ASSUME NEW s \in getLimits, NEW n \in Spans
               PROVE  limits[s].used[n] + 0 <= FxTerms[n] + (Cardinality(Traders) - 1) * Largest
    BY DEF LimitOf
  <2>1. limits[s].used[n] = 0
    BY <1>5, <1>6 DEF getLimits
  <2> QED BY <1>7, <1>8, <2>1
<1>10. \A s \in Rows : OutstandingOf(limits[s], 0, 0)
  <2>1. OutstandingOf(FreshRow(Day, Month, TRUE), 0, 0)
    <3> DEFINE R == FreshRow(Day, Month, TRUE)
    <3>1. R.notional = 0 /\ R.positions = 0
      BY <1>6
    <3> HIDE DEF R
    <3>2. OutstandingOf(R, 0, 0)
      BY <3>1 DEF OutstandingOf
    <3> QED BY <3>2 DEF R
  <2> QED BY <1>5, <2>1
<1> QED BY <1>2, <1>4, <1>9, <1>10, FxInvIs


(* A trade is stored in place of another.                                  *)
LEMMA Stored ==
  ASSUME FxTypeOK, NEW t \in Traders, NEW x \in Trades, x.st # "none" => x.amount \in Amounts
  PROVE  LET tr == [trade EXCEPT ![t] = x]
         IN  /\ tr \in [Traders -> Trades] /\ tr[t] = x
             /\ \A q \in Traders : tr[q].st # "none" => tr[q].amount \in Amounts
BY DEF FxTypeOK

OpensNew(x) == x.st = "open" /\ x.isNewPosition
Opening(tr, tr2, t, x) ==
  LET c == Cardinality(OpenNewOf(tr))
      c2 == Cardinality(OpenNewOf(tr2))
  IN  /\ c \in Nat /\ c2 \in Nat
      /\ (OpensNew(tr[t]) <=> OpensNew(x)) => c2 = c
      /\ ~OpensNew(tr[t]) /\ OpensNew(x) => c2 = c + 1
      /\ OpensNew(tr[t]) /\ ~OpensNew(x) => c2 = c - 1

LEMMA TradeOpens ==
  ASSUME NEW tr \in [Traders -> Trades], NEW t \in Traders, NEW x \in Trades,
         NEW tr2, tr2 = [tr EXCEPT ![t] = x]
  PROVE  Opening(tr, tr2, t, x)
<1> DEFINE O == OpenNewOf(tr)
           O2 == OpenNewOf(tr2)
           was == OpensNew(tr[t])
           is == OpensNew(x)
<1>1. tr2[t] = x /\ \A q \in Traders : q # t => tr2[q] = tr[q]
  OBVIOUS
<1>2. O \in SUBSET Traders /\ O2 \in SUBSET Traders /\ (t \in O <=> was) /\ (t \in O2 <=> is)
      /\ \A q \in Traders : q # t => (q \in O <=> q \in O2)
  BY <1>1 DEF OpenNewOf, OpensNew
<1> HIDE DEF O, O2, was, is
<1>3. IsFiniteSet(O) /\ IsFiniteSet(O2) /\ Cardinality(O) \in Nat /\ Cardinality(O2) \in Nat
  BY <1>2, FxAssumption, FS_Subset, FS_CardinalityType
<1>4. (was <=> is) => O2 = O
  BY <1>2
<1>5. ~was /\ is => O2 = O \cup {t} /\ t \notin O
  BY <1>2
<1>6. was /\ ~is => O = O2 \cup {t} /\ t \notin O2
  BY <1>2
<1>7. Cardinality(O \cup {t}) = (IF t \in O THEN Cardinality(O) ELSE Cardinality(O) + 1)
  BY <1>3, FS_AddElement
<1>8. Cardinality(O2 \cup {t}) = (IF t \in O2 THEN Cardinality(O2) ELSE Cardinality(O2) + 1)
  BY <1>3, FS_AddElement
<1>9. /\ (was <=> is) => Cardinality(O2) = Cardinality(O)
      /\ ~was /\ is => Cardinality(O2) = Cardinality(O) + 1
      /\ was /\ ~is => Cardinality(O2) = Cardinality(O) - 1
  <2>1. (was <=> is) => Cardinality(O2) = Cardinality(O)
    BY <1>4
  <2>2. ~was /\ is => Cardinality(O2) = Cardinality(O) + 1
    BY <1>5, <1>7
  <2>3. O = O2 \cup {t} /\ t \notin O2 => Cardinality(O) = Cardinality(O2) + 1
    BY <1>8
  <2>4. O = O2 \cup {t} /\ t \notin O2 => Cardinality(O2) = Cardinality(O) - 1
    BY <1>3, <2>3
  <2> QED BY <1>6, <2>1, <2>2, <2>4
<1> QED BY <1>3, <1>9 DEF O, O2, was, is, Opening

LEMMA FxInvNext ==
  FxInv' <=> /\ FxTypeOK'
             /\ \A s \in getLimits' : LimitOf(limits'[s], Outstanding(trade', "allowed"))
             /\ \A s \in Rows' : OutstandingOf(limits'[s], Outstanding(trade', "open"), Cardinality(OpenNewOf(trade')))
<1>1. /\ AmountOf(InState("allowed"))' = Outstanding(trade', "allowed")
      /\ AmountOf(InState("open"))' = Outstanding(trade', "open")
      /\ {t \in InState("open") : trade[t].isNewPosition}' = OpenNewOf(trade')
  BY DEF AmountOf, InState, Outstanding, AmountIn, InStateOf, OpenNewOf
<1> QED BY <1>1 DEF FxInv, FxLimitsKept, LimitsHold, OutstandingMatches, LimitOf, OutstandingOf

LEMMA TermsType == \A n \in Spans : FxTerms[n] \in Nat
BY FxAssumption DEF Spans

LEMMA CheckKeeps ==
  ASSUME FxInv, NEW t \in Traders, NEW a \in Amounts, NEW isNew \in BOOLEAN, checkLimits(t, a, isNew)
  PROVE  FxInv'
<1> DEFINE x == [st |-> "allowed", amount |-> a, isNewPosition |-> isNew]
<1>1. /\ FxTypeOK /\ trade[t].st = "none" /\ trade' = [trade EXCEPT ![t] = x]
      /\ limits' = limits /\ fxNow' = fxNow
      /\ \E s \in getLimits : Passed(limits[s], a)
  BY DEF FxInv, checkLimits
<1>2. x \in Trades /\ x.amount = a /\ x.st = "allowed"
  BY DEF Trades
<1>3. trade \in [Traders -> Trades]
  BY <1>1 DEF FxTypeOK
<1> HIDE DEF x
<1>4. FxTypeOK'
  <2>1. trade' \in [Traders -> Trades] /\ \A q \in Traders : trade'[q].st # "none" => trade'[q].amount \in Amounts
    BY <1>1, <1>2, Stored
  <2> QED BY <1>1, <2>1 DEF FxTypeOK
<1>r. \A st : Replacing(trade, trade', t, x, st)
  BY <1>1, <1>2, <1>3, Replaced
<1>5. Outstanding(trade', "open") = Outstanding(trade, "open")
  <2>1. AmountFor(trade[t], "open") = 0 /\ AmountFor(x, "open") = 0
    BY <1>1, <1>2 DEF AmountFor
  <2> QED BY <1>r, <2>1 DEF Replacing
<1>6. /\ Outstanding(trade', "allowed") = AmountIn(trade, InStateOf(trade, "allowed") \ {t}) + a
      /\ AmountIn(trade, InStateOf(trade, "allowed") \ {t}) \in Nat
  <2>1. AmountFor(x, "allowed") = a
    BY <1>2 DEF AmountFor
  <2> QED BY <1>r, <2>1 DEF Replacing
<1>7. AmountIn(trade, InStateOf(trade, "allowed") \ {t}) <= (Cardinality(Traders) - 1) * Largest
  <2>1. t \notin InStateOf(trade, "allowed") \ {t} /\ InStateOf(trade, "allowed") \ {t} \in SUBSET Traders
    BY DEF InStateOf
  <2> QED BY <1>3, <2>1, OthersBounded
<1>8. Cardinality(OpenNewOf(trade')) = Cardinality(OpenNewOf(trade))
  <2>1. Opening(trade, trade', t, x)
    BY <1>1, <1>2, <1>3, TradeOpens
  <2> QED BY <1>1, <1>2, <2>1 DEF Opening, OpensNew
<1>9. getLimits' = getLimits /\ Rows' = Rows
  BY <1>1 DEF Rows, getLimits
<1>10. \A s \in getLimits : LimitOf(limits[s], Outstanding(trade', "allowed"))
  <2> SUFFICES ASSUME NEW s \in getLimits, NEW n \in Spans, FxTerms[n] > 0
               PROVE  limits[s].used[n] + Outstanding(trade', "allowed")
                        <= FxTerms[n] + (Cardinality(Traders) - 1) * Largest
    BY DEF LimitOf
  <2>1. s \in Rows /\ Passed(limits[s], a)
    BY <1>1 DEF getLimits
  <2> DEFINE u == limits[s].used[n]
             b == (Cardinality(Traders) - 1) * Largest
             r == AmountIn(trade, InStateOf(trade, "allowed") \ {t})
  <2>2. FxTerms[n] = 0 \/ u + a <= FxTerms[n]
    BY <2>1 DEF Passed, Within
  <2>3. u \in Nat /\ FxTerms[n] \in Nat /\ a \in Nat
    BY <1>1, <2>1, RowIs, TermsType, LargestIs, FxAssumption
  <2>4. b \in Nat
    <3>1. Cardinality(Traders) \in Nat \ {0}
      BY FxAssumption, FS_CardinalityType, FS_EmptySet
    <3> QED BY <3>1, LargestIs
  <2>5. Outstanding(trade', "allowed") = r + a /\ r \in Nat /\ r <= b
    BY <1>6, <1>7
  <2> HIDE DEF u, b, r
  <2>6. u + Outstanding(trade', "allowed") <= FxTerms[n] + b
    BY <2>2, <2>3, <2>4, <2>5
  <2> QED BY <2>6 DEF u, b
<1> QED BY <1>1, <1>4, <1>5, <1>8, <1>9, <1>10, FxInvIs, FxInvNext

(* What recordUsage() and recordSettlement() make of a row.                *)
UsedRow(row, x) ==
  [row EXCEPT !.used = [span \in Spans |-> @[span] + x.amount],
              !.notional = @ + x.amount,
              !.positions = IF x.isNewPosition THEN @ + 1 ELSE @]
SettledRow(row, x) ==
  [row EXCEPT !.notional = Floor0(@ - x.amount), !.positions = Floor0(@ - 1)]

LEMMA UsedRowIs ==
  ASSUME NEW row \in Row, NEW x \in Trades
  PROVE  /\ UsedRow(row, x) \in Row
         /\ UsedRow(row, x).notional = row.notional + x.amount
         /\ UsedRow(row, x).positions = IF x.isNewPosition THEN row.positions + 1 ELSE row.positions
         /\ UsedRow(row, x).first = row.first
         /\ \A n \in Spans : UsedRow(row, x).used[n] = row.used[n] + x.amount
<1> DEFINE u == [n \in Spans |-> row.used[n] + x.amount]
           v == row.notional + x.amount
           p == IF x.isNewPosition THEN row.positions + 1 ELSE row.positions
           y == [row EXCEPT !.used = u, !.notional = v, !.positions = p]
<1>1. row.used \in [Spans -> Nat] /\ row.notional \in Nat /\ row.positions \in Nat
  BY DEF Row
<1>2. x.amount \in Nat
  BY TradeIs
<1>3. u \in [Spans -> Nat] /\ v \in Nat /\ p \in Nat
  BY <1>1, <1>2
<1>4. UsedRow(row, x) = y
  BY DEF UsedRow, Row
<1>5. \A n \in Spans : u[n] = row.used[n] + x.amount
  OBVIOUS
<1> HIDE DEF u, v, p
<1>6. y \in Row /\ y.used = u /\ y.notional = v /\ y.positions = p /\ y.first = row.first
  BY <1>3 DEF Row
<1> HIDE DEF y
<1> QED BY <1>4, <1>5, <1>6 DEF v, p

LEMMA SettledRowIs ==
  ASSUME NEW row \in Row, NEW x \in Trades
  PROVE  /\ SettledRow(row, x) \in Row
         /\ SettledRow(row, x).notional = Floor0(row.notional - x.amount)
         /\ SettledRow(row, x).positions = Floor0(row.positions - 1)
         /\ SettledRow(row, x).first = row.first
         /\ SettledRow(row, x).used = row.used
<1> DEFINE v == Floor0(row.notional - x.amount)
           p == Floor0(row.positions - 1)
           y == [row EXCEPT !.notional = v, !.positions = p]
<1>1. row.notional \in Nat /\ row.positions \in Nat
  BY DEF Row
<1>2. x.amount \in Nat
  BY TradeIs
<1>3. v \in Nat /\ p \in Nat
  BY <1>1, <1>2 DEF Floor0
<1>4. SettledRow(row, x) = y
  BY DEF SettledRow, Row
<1> HIDE DEF v, p
<1>6. y \in Row /\ y.used = row.used /\ y.notional = v /\ y.positions = p /\ y.first = row.first
  BY <1>3 DEF Row
<1> HIDE DEF y
<1> QED BY <1>4, <1>6 DEF v, p

(* Every row is changed, and none is made.                                 *)
LEMMA RowsStay ==
  ASSUME FxTypeOK, NEW f, \A s \in Rows : f[s] \in Row,
         limits' = [s \in Scopes |-> IF s \notin Rows THEN NoRow ELSE f[s]]
  PROVE  /\ limits' \in [Scopes -> {NoRow} \cup Row]
         /\ Rows' = Rows /\ getLimits' = getLimits
         /\ \A s \in Rows : limits'[s] = f[s]
<1>1. \A s \in Rows : s \in Scopes /\ limits'[s] = f[s] /\ limits'[s].configured
  <2>1. \A s \in Rows : s \in Scopes
    BY DEF Rows
  <2>2. \A s \in Rows : f[s].configured
    BY DEF Row
  <2> QED BY <2>1, <2>2
<1>2. \A s \in Scopes : s \notin Rows => limits'[s] = NoRow /\ ~limits'[s].configured
  BY DEF NoRow
<1>3. Rows' = Rows
  BY <1>1, <1>2 DEF Rows
<1> QED BY <1>1, <1>2, <1>3 DEF getLimits

LEMMA UsageKeeps ==
  ASSUME FxInv, NEW t \in Traders, recordUsage(t)
  PROVE  FxInv'
<1> DEFINE x == trade[t]
           y == [x EXCEPT !.st = "open"]
           a == x.amount
           f == [s \in Rows |-> UsedRow(limits[s], x)]
<1>1. FxTypeOK /\ x.st = "allowed" /\ fxNow' = fxNow /\ trade \in [Traders -> Trades] /\ x \in Trades
  BY DEF FxInv, recordUsage, FxTypeOK
<1>2. /\ trade' = [trade EXCEPT ![t] = y]
      /\ y \in Trades /\ y.st = "open" /\ y.amount = a /\ y.isNewPosition = x.isNewPosition
      /\ a \in Amounts /\ a \in Nat
  <2>1. a \in Amounts
    BY <1>1 DEF FxTypeOK
  <2> QED BY <1>1, <2>1, FxAssumption DEF recordUsage, Trades
<1>3. limits' = [s \in Scopes |-> IF s \notin Rows THEN NoRow ELSE f[s]]
  <2>1. \A s \in Scopes : s \in Rows => f[s] = UsedRow(limits[s], x)
    OBVIOUS
  <2> QED BY <2>1 DEF recordUsage, UsedRow
<1> HIDE DEF y
<1>4. \A s \in Rows : limits[s] \in Row /\ f[s] = UsedRow(limits[s], x) /\ f[s] \in Row
  BY <1>1, RowIs, UsedRowIs
<1> HIDE DEF f, x
<1>5. /\ limits' \in [Scopes -> {NoRow} \cup Row]
      /\ Rows' = Rows /\ getLimits' = getLimits
      /\ \A s \in Rows : limits'[s] = f[s]
  BY <1>1, <1>3, <1>4, RowsStay
<1>6. FxTypeOK'
  <2>1. trade' \in [Traders -> Trades] /\ \A q \in Traders : trade'[q].st # "none" => trade'[q].amount \in Amounts
    BY <1>1, <1>2, Stored
  <2> QED BY <1>1, <1>5, <2>1 DEF FxTypeOK
<1>r. \A st : Replacing(trade, trade', t, y, st)
  BY <1>1, <1>2, Replaced
<1>7. /\ Outstanding(trade, "allowed") \in Nat /\ Outstanding(trade', "allowed") \in Nat
      /\ Outstanding(trade, "allowed") = Outstanding(trade', "allowed") + a
  <2>1. AmountFor(trade[t], "allowed") = a /\ AmountFor(y, "allowed") = 0
    BY <1>1, <1>2 DEF AmountFor, x
  <2> DEFINE r == AmountIn(trade, InStateOf(trade, "allowed") \ {t})
             o == Outstanding(trade, "allowed")
             o2 == Outstanding(trade', "allowed")
  <2>2. r \in Nat /\ o = r + AmountFor(trade[t], "allowed") /\ o2 = r + AmountFor(y, "allowed")
    BY <1>r DEF Replacing
  <2>3. a \in Nat
    BY <1>2
  <2> HIDE DEF a, r, o, o2
  <2>4. o \in Nat /\ o2 \in Nat /\ o = o2 + a
    BY <2>1, <2>2, <2>3
  <2> QED BY <2>4 DEF o, o2
<1>8. /\ Outstanding(trade, "open") \in Nat /\ Outstanding(trade', "open") \in Nat
      /\ Outstanding(trade', "open") = Outstanding(trade, "open") + a
  <2>1. AmountFor(trade[t], "open") = 0 /\ AmountFor(y, "open") = a
    BY <1>1, <1>2 DEF AmountFor, x
  <2> DEFINE r == AmountIn(trade, InStateOf(trade, "open") \ {t})
             o == Outstanding(trade, "open")
             o2 == Outstanding(trade', "open")
  <2>2. r \in Nat /\ o = r + AmountFor(trade[t], "open") /\ o2 = r + AmountFor(y, "open")
    BY <1>r DEF Replacing
  <2>3. a \in Nat
    BY <1>2
  <2> HIDE DEF a, r, o, o2
  <2>4. o \in Nat /\ o2 \in Nat /\ o2 = o + a
    BY <2>1, <2>2, <2>3
  <2> QED BY <2>4 DEF o, o2
<1> DEFINE c == Cardinality(OpenNewOf(trade))
           c2 == Cardinality(OpenNewOf(trade'))
<1>9. c \in Nat /\ c2 = (IF x.isNewPosition THEN c + 1 ELSE c)
  <2>1. Opening(trade, trade', t, y)
    BY <1>1, <1>2, TradeOpens
  <2>2. ~OpensNew(trade[t]) /\ (OpensNew(y) <=> x.isNewPosition)
    BY <1>1, <1>2 DEF OpensNew, x
  <2> QED BY <2>1, <2>2 DEF Opening
<1> HIDE DEF c, c2
<1>10. ASSUME NEW s \in Rows
       PROVE  /\ limits[s].notional \in Nat /\ limits[s].positions \in Nat
              /\ limits'[s].notional = limits[s].notional + a
              /\ limits'[s].first = limits[s].first
              /\ limits'[s].positions = IF x.isNewPosition THEN limits[s].positions + 1 ELSE limits[s].positions
              /\ \A n \in Spans : limits[s].used[n] \in Nat /\ limits'[s].used[n] = limits[s].used[n] + a
  BY <1>1, <1>4, <1>5, RowIs, UsedRowIs
<1>11. \A s \in getLimits : LimitOf(limits'[s], Outstanding(trade', "allowed"))
  <2> SUFFICES ASSUME NEW s \in getLimits, NEW n \in Spans, FxTerms[n] > 0
               PROVE  limits'[s].used[n] + Outstanding(trade', "allowed")
                        <= FxTerms[n] + (Cardinality(Traders) - 1) * Largest
    BY DEF LimitOf
  <2>1. s \in Rows
    BY DEF getLimits
  <2>2. limits[s].used[n] + Outstanding(trade, "allowed") <= FxTerms[n] + (Cardinality(Traders) - 1) * Largest
    BY FxInvIs DEF LimitOf
  <2>3. limits[s].used[n] \in Nat /\ limits'[s].used[n] = limits[s].used[n] + a
    BY <1>10, <2>1
  <2>4. limits'[s].used[n] + Outstanding(trade', "allowed") = limits[s].used[n] + Outstanding(trade, "allowed")
    BY <1>2, <1>7, <2>3
  <2> QED BY <2>2, <2>4
<1>12. \A s \in Rows : OutstandingOf(limits'[s], Outstanding(trade', "open"), c2)
  <2> SUFFICES ASSUME NEW s \in Rows PROVE OutstandingOf(limits'[s], Outstanding(trade', "open"), c2)
    OBVIOUS
  <2>1. OutstandingOf(limits[s], Outstanding(trade, "open"), c)
    BY FxInvIs DEF c
  <2> QED BY <1>2, <1>8, <1>9, <1>10, <2>1 DEF OutstandingOf
<1> QED BY <1>5, <1>6, <1>11, <1>12, FxInvNext DEF c2

LEMMA SettlementKeeps ==
  ASSUME FxInv, NEW t \in Traders, recordSettlement(t)
  PROVE  FxInv'
<1> DEFINE x == trade[t]
           y == NoTrade
           a == x.amount
           f == [s \in Rows |-> SettledRow(limits[s], x)]
<1>1. FxTypeOK /\ x.st = "open" /\ fxNow' = fxNow /\ trade \in [Traders -> Trades] /\ x \in Trades
  BY DEF FxInv, recordSettlement, FxTypeOK
<1>2. /\ trade' = [trade EXCEPT ![t] = y]
      /\ y \in Trades /\ y.st = "none" /\ a \in Nat
  BY <1>1, TradeIs DEF recordSettlement, NoTrade, Trades
<1>3. limits' = [s \in Scopes |-> IF s \notin Rows THEN NoRow ELSE f[s]]
  <2>1. \A s \in Scopes : s \in Rows => f[s] = SettledRow(limits[s], x)
    OBVIOUS
  <2> QED BY <2>1 DEF recordSettlement, SettledRow
<1> HIDE DEF y
<1>4. \A s \in Rows : limits[s] \in Row /\ f[s] = SettledRow(limits[s], x) /\ f[s] \in Row
  BY <1>1, RowIs, SettledRowIs
<1> HIDE DEF f, x
<1>5. /\ limits' \in [Scopes -> {NoRow} \cup Row]
      /\ Rows' = Rows /\ getLimits' = getLimits
      /\ \A s \in Rows : limits'[s] = f[s]
  BY <1>1, <1>3, <1>4, RowsStay
<1>6. FxTypeOK'
  <2>1. trade' \in [Traders -> Trades] /\ \A q \in Traders : trade'[q].st # "none" => trade'[q].amount \in Amounts
    BY <1>1, <1>2, Stored
  <2> QED BY <1>1, <1>5, <2>1 DEF FxTypeOK
<1>r. \A st : Replacing(trade, trade', t, y, st)
  BY <1>1, <1>2, Replaced
<1>7. Outstanding(trade', "allowed") = Outstanding(trade, "allowed")
  <2>1. AmountFor(trade[t], "allowed") = 0 /\ AmountFor(y, "allowed") = 0
    BY <1>1, <1>2 DEF AmountFor, x
  <2> QED BY <1>r, <2>1 DEF Replacing
<1>8. /\ Outstanding(trade, "open") \in Nat /\ Outstanding(trade', "open") \in Nat
      /\ Outstanding(trade, "open") = Outstanding(trade', "open") + a
  <2>1. AmountFor(trade[t], "open") = a /\ AmountFor(y, "open") = 0
    BY <1>1, <1>2 DEF AmountFor, x
  <2> DEFINE r == AmountIn(trade, InStateOf(trade, "open") \ {t})
             o == Outstanding(trade, "open")
             o2 == Outstanding(trade', "open")
  <2>2. r \in Nat /\ o = r + AmountFor(trade[t], "open") /\ o2 = r + AmountFor(y, "open")
    BY <1>r DEF Replacing
  <2>3. a \in Nat
    BY <1>2
  <2> HIDE DEF a, r, o, o2
  <2>4. o \in Nat /\ o2 \in Nat /\ o = o2 + a
    BY <2>1, <2>2, <2>3
  <2> QED BY <2>4 DEF o, o2
<1> DEFINE c == Cardinality(OpenNewOf(trade))
           c2 == Cardinality(OpenNewOf(trade'))
<1>9. c \in Nat /\ c2 \in Nat /\ c2 >= c - 1 /\ c2 <= c
  <2>1. Opening(trade, trade', t, y)
    BY <1>1, <1>2, TradeOpens
  <2>2. ~OpensNew(y)
    BY <1>2 DEF OpensNew
  <2> QED BY <2>1, <2>2 DEF Opening
<1> HIDE DEF c, c2
<1>10. ASSUME NEW s \in Rows
       PROVE  /\ limits[s].notional \in Nat /\ limits[s].positions \in Nat
              /\ limits'[s].notional = Floor0(limits[s].notional - a)
              /\ limits'[s].first = limits[s].first
              /\ limits'[s].positions = Floor0(limits[s].positions - 1)
              /\ limits'[s].used = limits[s].used
  BY <1>1, <1>4, <1>5, RowIs, SettledRowIs
<1>11. \A s \in getLimits : LimitOf(limits'[s], Outstanding(trade', "allowed"))
  <2> SUFFICES ASSUME NEW s \in getLimits PROVE LimitOf(limits'[s], Outstanding(trade', "allowed"))
    OBVIOUS
  <2>1. s \in Rows
    BY DEF getLimits
  <2>2. LimitOf(limits[s], Outstanding(trade, "allowed")) /\ limits'[s].used = limits[s].used
    BY <1>10, <2>1, FxInvIs
  <2> QED BY <1>7, <2>2 DEF LimitOf
<1>12. \A s \in Rows : OutstandingOf(limits'[s], Outstanding(trade', "open"), c2)
  <2> SUFFICES ASSUME NEW s \in Rows PROVE OutstandingOf(limits'[s], Outstanding(trade', "open"), c2)
    OBVIOUS
  <2>1. OutstandingOf(limits[s], Outstanding(trade, "open"), c)
    BY FxInvIs DEF c
  <2> QED BY <1>2, <1>8, <1>9, <1>10, <2>1 DEF OutstandingOf, Floor0
<1> QED BY <1>5, <1>6, <1>11, <1>12, FxInvNext DEF c2

(* A reset only takes from the volume of a row.                            *)
LEMMA ResetRowIs ==
  ASSUME NEW row \in Row, NEW span \in Spans, NEW d \in Int, NEW m \in Int
  PROVE  LET y == [row EXCEPT !.used = [row.used EXCEPT ![span] = 0],
                              !.daily_reset_at = d, !.monthly_reset_at = m]
         IN  /\ y \in Row /\ y.notional = row.notional /\ y.positions = row.positions
             /\ y.first = row.first
             /\ \A n \in Spans : y.used[n] <= row.used[n]
<1> DEFINE u == [row.used EXCEPT ![span] = 0]
           y == [row EXCEPT !.used = u, !.daily_reset_at = d, !.monthly_reset_at = m]
<1>1. row.used \in [Spans -> Nat]
  BY DEF Row
<1>2. u \in [Spans -> Nat] /\ \A n \in Spans : u[n] <= row.used[n]
  BY <1>1
<1> HIDE DEF u
<1>3. y \in Row /\ y.used = u /\ y.notional = row.notional /\ y.positions = row.positions /\ y.first = row.first
  BY <1>2 DEF Row
<1> HIDE DEF y
<1>4. \A n \in Spans : y.used[n] <= row.used[n]
  BY <1>2, <1>3
<1> QED BY <1>3, <1>4 DEF u, y

Eased(old, new) ==
  /\ new \in Row /\ new.notional = old.notional /\ new.positions = old.positions
  /\ new.first = old.first
  /\ \A n \in Spans : new.used[n] <= old.used[n]

LEMMA EasedKeeps ==
  ASSUME FxInv, limits' \in [Scopes -> {NoRow} \cup Row], UNCHANGED <<trade, fxNow>>,
         \A s \in Rows : Eased(limits[s], limits'[s]),
         \A s \in Scopes : s \notin Rows => limits'[s] = limits[s]
  PROVE  FxInv'
<1>1. FxTypeOK /\ trade' = trade /\ fxNow' = fxNow
  BY DEF FxInv
<1>2. Rows' = Rows /\ getLimits' = getLimits
  <2>1. \A s \in Rows : s \in Scopes /\ limits'[s].configured
    BY DEF Rows, Eased, Row
  <2>2. \A s \in Scopes : s \notin Rows => ~limits'[s].configured
    BY DEF Rows
  <2>3. Rows' = Rows
    BY <2>1, <2>2 DEF Rows
  <2> QED BY <2>3 DEF getLimits
<1>3. FxTypeOK'
  BY <1>1 DEF FxTypeOK
<1> DEFINE o == Outstanding(trade, "allowed")
<1>4. o \in Nat
  BY <1>1, AmountType DEF FxTypeOK, Outstanding, InStateOf
<1> HIDE DEF o
<1>5. \A s \in getLimits : LimitOf(limits'[s], o)
  <2> SUFFICES ASSUME NEW s \in getLimits, NEW n \in Spans, FxTerms[n] > 0
               PROVE  limits'[s].used[n] + o <= FxTerms[n] + (Cardinality(Traders) - 1) * Largest
    BY DEF LimitOf
  <2>1. s \in Rows
    BY DEF getLimits
  <2>2. limits[s].used[n] + o <= FxTerms[n] + (Cardinality(Traders) - 1) * Largest
    BY FxInvIs DEF LimitOf, o
  <2>3. limits[s].used[n] \in Nat
    BY <1>1, <2>1, RowIs
  <2>4. limits'[s].used[n] \in Nat /\ limits'[s].used[n] <= limits[s].used[n]
    BY <2>1 DEF Eased, Row
  <2>5. FxTerms[n] + (Cardinality(Traders) - 1) * Largest \in Int
    BY TermsType, LargestIs, FxAssumption, FS_CardinalityType
  <2> QED BY <1>4, <2>2, <2>3, <2>4, <2>5
<1>6. \A s \in Rows : OutstandingOf(limits'[s], Outstanding(trade, "open"), Cardinality(OpenNewOf(trade)))
  BY FxInvIs DEF OutstandingOf, Eased
<1> QED BY <1>1, <1>2, <1>3, <1>5, <1>6, FxInvNext DEF o

LEMMA DailyKeeps ==
  ASSUME FxInv, resetDailyLimits
  PROVE  FxInv'
<1>1. FxTypeOK /\ fxNow \in Int /\ Day \in Int /\ UNCHANGED <<trade, fxNow>>
  <2>1. FxTypeOK /\ fxNow \in Int
    BY FxAssumption DEF FxInv, FxTypeOK
  <2>3. UNCHANGED <<trade, fxNow>>
    BY DEF resetDailyLimits
  <2>2. Day \in Int
    BY FxAssumption
  <2> QED BY <2>1, <2>2, <2>3
<1>2. ASSUME NEW s \in Rows
      PROVE  Eased(limits[s], limits'[s])
  <2> DEFINE row == limits[s]
             y == [row EXCEPT !.used = [row.used EXCEPT !["daily"] = 0],
                              !.daily_reset_at = fxNow + Day, !.monthly_reset_at = row.monthly_reset_at]
  <2>1. s \in Scopes /\ row \in Row /\ row.monthly_reset_at \in Int /\ \A n \in Spans : row.used[n] \in Nat
    BY <1>1, RowIs DEF Row
  <2>2. limits'[s] = row \/ limits'[s] = y
    <3>1. y = [row EXCEPT !.used["daily"] = 0, !.daily_reset_at = fxNow + Day]
      BY <2>1 DEF Row
    <3> QED BY <2>1, <3>1 DEF resetDailyLimits
  <2>3. fxNow + Day \in Int /\ "daily" \in Spans
    BY <1>1 DEF Spans
  <2>4. Eased(row, y)
    BY <2>1, <2>3, ResetRowIs DEF Eased
  <2>5. Eased(row, row)
    BY <2>1 DEF Eased
  <2> HIDE DEF y
  <2> QED BY <2>2, <2>4, <2>5
<1>3. \A s \in Scopes : s \notin Rows => limits'[s] = limits[s]
  BY DEF resetDailyLimits
<1>4. limits' \in [Scopes -> {NoRow} \cup Row]
  <2>1. \A s \in Scopes : limits'[s] \in {NoRow} \cup Row
    BY <1>1, <1>2, <1>3, NoRowIs DEF Eased
  <2>2. limits' = [s \in Scopes |-> limits'[s]]
    BY DEF resetDailyLimits
  <2> QED BY <2>1, <2>2
<1> QED BY <1>1, <1>2, <1>3, <1>4, EasedKeeps

LEMMA MonthlyKeeps ==
  ASSUME FxInv, resetMonthlyLimits
  PROVE  FxInv'
<1>1. FxTypeOK /\ fxNow \in Int /\ Month \in Int /\ UNCHANGED <<trade, fxNow>>
  <2>1. FxTypeOK /\ fxNow \in Int
    BY FxAssumption DEF FxInv, FxTypeOK
  <2>3. UNCHANGED <<trade, fxNow>>
    BY DEF resetMonthlyLimits
  <2>2. Month \in Int
    BY FxAssumption
  <2> QED BY <2>1, <2>2, <2>3
<1>2. ASSUME NEW s \in Rows
      PROVE  Eased(limits[s], limits'[s])
  <2> DEFINE row == limits[s]
             y == [row EXCEPT !.used = [row.used EXCEPT !["monthly"] = 0],
                              !.daily_reset_at = row.daily_reset_at, !.monthly_reset_at = fxNow + Month]
  <2>1. s \in Scopes /\ row \in Row /\ row.daily_reset_at \in Int /\ \A n \in Spans : row.used[n] \in Nat
    BY <1>1, RowIs DEF Row
  <2>2. limits'[s] = row \/ limits'[s] = y
    <3>1. y = [row EXCEPT !.used["monthly"] = 0, !.monthly_reset_at = fxNow + Month]
      BY <2>1 DEF Row
    <3> QED BY <2>1, <3>1 DEF resetMonthlyLimits
  <2>3. fxNow + Month \in Int /\ "monthly" \in Spans
    BY <1>1 DEF Spans
  <2>4. Eased(row, y)
    BY <2>1, <2>3, ResetRowIs DEF Eased
  <2>5. Eased(row, row)
    BY <2>1 DEF Eased
  <2> HIDE DEF y
  <2> QED BY <2>2, <2>4, <2>5
<1>3. \A s \in Scopes : s \notin Rows => limits'[s] = limits[s]
  BY DEF resetMonthlyLimits
<1>4. limits' \in [Scopes -> {NoRow} \cup Row]
  <2>1. \A s \in Scopes : limits'[s] \in {NoRow} \cup Row
    BY <1>1, <1>2, <1>3, NoRowIs DEF Eased
  <2>2. limits' = [s \in Scopes |-> limits'[s]]
    BY DEF resetMonthlyLimits
  <2> QED BY <2>1, <2>2
<1> QED BY <1>1, <1>2, <1>3, <1>4, EasedKeeps

LEMMA DefaultsKeep ==
  ASSUME FxInv, setupDefaults
  PROVE  FxInv'
<1> DEFINE new == FreshRow(NextMultiple(Day), NextMultiple(Month), FALSE)
<1>1. FxTypeOK /\ fxNow \in Int /\ trade' = trade /\ fxNow' = fxNow /\ "all_currencies" \notin Rows
      /\ limits \in [Scopes -> {NoRow} \cup Row]
  BY FxAssumption DEF FxInv, FxTypeOK, setupDefaults
<1>2. NextMultiple(Day) \in Int /\ NextMultiple(Month) \in Int
  BY <1>1, FxAssumption DEF NextMultiple
<1>3. new \in Row /\ new.notional = 0 /\ new.positions = 0 /\ new.first = FALSE /\ new.configured
  <2>1. new \in Row
    BY <1>2, FreshRowType
  <2> QED BY <2>1 DEF FreshRow, Row
<1>4. limits' = [limits EXCEPT !["all_currencies"] = new]
  BY DEF setupDefaults
<1> HIDE DEF new
<1>5. /\ limits' \in [Scopes -> {NoRow} \cup Row]
      /\ limits'["all_currencies"] = new
      /\ \A s \in Scopes : s # "all_currencies" => limits'[s] = limits[s]
  BY <1>1, <1>3, <1>4 DEF Scopes
<1>6. Rows' = Rows \cup {"all_currencies"} /\ getLimits' = getLimits
  <2>1. Rows' = Rows \cup {"all_currencies"}
    BY <1>1, <1>3, <1>5 DEF Rows, Scopes
  <2> QED BY <2>1 DEF getLimits
<1>7. FxTypeOK'
  BY <1>1, <1>5 DEF FxTypeOK
<1>8. \A s \in getLimits : LimitOf(limits'[s], Outstanding(trade, "allowed"))
  <2>1. \A s \in getLimits : limits'[s] = limits[s]
    BY <1>5 DEF getLimits, Scopes
  <2> QED BY <2>1, FxInvIs
<1> DEFINE o == Outstanding(trade, "open")
           c == Cardinality(OpenNewOf(trade))
<1>9. o \in Nat /\ c \in Nat
  <2>1. o \in Nat
    BY <1>1, AmountType DEF FxTypeOK, Outstanding, InStateOf
  <2>2. c \in Nat
    <3>1. IsFiniteSet(OpenNewOf(trade))
      BY FxAssumption, FS_Subset DEF OpenNewOf
    <3> QED BY <3>1, FS_CardinalityType
  <2> QED BY <2>1, <2>2
<1>10. \A s \in Rows' : OutstandingOf(limits'[s], o, c)
  <2>1. OutstandingOf(new, o, c)
    <3> HIDE DEF o, c
    <3> QED BY <1>3, <1>9 DEF OutstandingOf
  <2>2. \A s \in Rows : OutstandingOf(limits[s], o, c) /\ limits'[s] = limits[s]
    BY <1>1, <1>5, FxInvIs DEF Rows
  <2> QED BY <1>5, <1>6, <2>1, <2>2
<1> QED BY <1>1, <1>6, <1>7, <1>8, <1>10, FxInvNext

LEMMA StillKeeps ==
  ASSUME FxInv, UNCHANGED <<limits, trade>>, fxNow' \in 0 .. MaxFxTime
  PROVE  FxInv'
<1>1. FxTypeOK' /\ Rows' = Rows /\ getLimits' = getLimits
  BY DEF FxInv, FxTypeOK, Rows, getLimits
<1> QED BY <1>1, FxInvIs, FxInvNext

(* Limits (fx-limit.js:251, :461): trades that run at the same time exceed *)
(* a volume by no more than all of them but one, however checks, records,  *)
(* settlements and resets interleave; the amount outstanding of a row that *)
(* saw every trade is that of the trades open now.                         *)
THEOREM FxLimitsKeptHolds == FxSpec => []FxLimitsKept
<1>1. FxInv /\ [FxNext]_fxVars => FxInv'
  <2> SUFFICES ASSUME FxInv, [FxNext]_fxVars PROVE FxInv'
    OBVIOUS
  <2>1. fxNow \in 0 .. MaxFxTime
    BY DEF FxInv, FxTypeOK
  <2>2. CASE setupDefaults
    BY <2>2, DefaultsKeep
  <2>3. ASSUME NEW t \in Traders, NEW a \in Amounts, NEW isNew \in BOOLEAN, checkLimits(t, a, isNew)
        PROVE  FxInv'
    BY <2>3, CheckKeeps
  <2>4. ASSUME NEW t \in Traders, recordUsage(t) \/ recordSettlement(t)
        PROVE  FxInv'
    BY <2>4, UsageKeeps, SettlementKeeps
  <2>5. CASE resetDailyLimits \/ resetMonthlyLimits
    BY <2>5, DailyKeeps, MonthlyKeeps
  <2>6. CASE FxTick
    BY <2>1, <2>6, StillKeeps, FxAssumption DEF FxTick
  <2>7. CASE UNCHANGED fxVars
    BY <2>1, <2>7, StillKeeps DEF fxVars
  <2> QED BY <2>2, <2>3, <2>4, <2>5, <2>6, <2>7 DEF FxNext
<1>2. FxInv => FxLimitsKept
  BY DEF FxInv
<1> QED BY FxInitInv, <1>1, <1>2, PTL DEF FxSpec

-----------------------------------------------------------------------------
(* The referral engine.                                                    *)

Has(log, type) == \E k \in 1 .. Len(log) : log[k].type = type

(* What the log of a referral always shows of it.                          *)
Tidy(log, r) ==
  /\ \A k, l \in 1 .. Len(log) : log[k].type = "converted" /\ log[l].type = "converted" => k = l
  /\ Has(log, "converted") => r.conversions >= 1
  /\ \A k \in 1 .. Len(log) : log[k].type = "commission_earned" => log[k].amount <= r.totalEarned
  /\ \A k \in 2 .. Len(log) : log[k].type # "created"
  /\ Has(log, "deactivated") => r.status = "deactivated"
  /\ log[1].type = "created" =>
       /\ r.conversions > 0 => Has(log, "converted")
       /\ r.status = "deactivated" => Has(log, "deactivated")

(* Of the codes the generator knows of, each active referral has its own.  *)
OwnsCode(i) == referrals[i].status = "active" /\ i \notin loose
Owned ==
  \A i \in DOMAIN referrals : OwnsCode(i) =>
    /\ referrals[i].code \in usedCodes
    /\ \A j \in DOMAIN referrals : OwnsCode(j) /\ referrals[j].code = referrals[i].code => j = i

EngineInv ==
  /\ EngineTypeOK
  /\ \A i \in DOMAIN referrals : Tidy(events[i], referrals[i])
  /\ Owned

(* An event was added, and d of the oldest ones dropped.                   *)
Pushed(log, new, e, d) ==
  /\ new \in Seq(Event) /\ d \in 0 .. 1
  /\ Len(new) = Len(log) + 1 - d
  /\ Len(new) \in 1 .. maxEvents
  /\ \A k \in 1 .. Len(new) : k < Len(new) => new[k] = log[k + d]
  /\ new[Len(new)] = e

LEMMA Pushing ==
  ASSUME NEW log \in Seq(Event), NEW e \in Event, Len(log) <= maxEvents
  PROVE  \E d \in 0 .. 1 :
           Pushed(log, SubSeq(Append(log, e), IF Len(log) = maxEvents THEN 2 ELSE 1, Len(log) + 1), e, d)
<1> DEFINE n == Len(log)
           s == Append(log, e)
           d == IF n = maxEvents THEN 1 ELSE 0
           new == SubSeq(s, d + 1, n + 1)
<1>1. n \in Nat /\ maxEvents \in Nat \ {0} /\ n <= maxEvents /\ d \in 0 .. 1
  BY EngineAssumption
<1>2. s \in Seq(Event) /\ Len(s) = n + 1 /\ s[n + 1] = e /\ \A k \in 1 .. n : s[k] = log[k]
  OBVIOUS
<1>3. (IF n = maxEvents THEN 2 ELSE 1) = d + 1
  OBVIOUS
<1>4. (d = 1 => n = maxEvents) /\ (d = 0 => n < maxEvents)
  BY <1>1
<1> HIDE DEF s, d, n
<1>5. /\ new \in Seq(Event) /\ Len(new) = n + 1 - d
      /\ \A k \in 1 .. n + 1 - d : new[k] = s[d + k]
  <2>1. \A k \in d + 1 .. n + 1 : s[k] \in Event
    BY <1>1, <1>2
  <2> QED BY <1>1, <1>2, <2>1, SubSeqProperties
<1>6. Len(new) \in 1 .. maxEvents
  BY <1>1, <1>4, <1>5
<1> HIDE DEF new
<1>7. \A k \in 1 .. Len(new) : k < Len(new) => new[k] = log[k + d]
  BY <1>1, <1>2, <1>5
<1>8. new[Len(new)] = e
  BY <1>1, <1>2, <1>5, <1>6
<1>9. Pushed(log, new, e, d)
  BY <1>1, <1>5, <1>6, <1>7, <1>8 DEF Pushed, n
<1> QED BY <1>1, <1>3, <1>9 DEF new, s, n

(* One more event, recorded of a referral that changes with it.            *)
Moves(r, r2, type, amount) ==
  /\ r2.conversions >= r.conversions /\ r2.totalEarned >= r.totalEarned
  /\ type = "converted" => r2.conversions >= 1
  /\ type # "converted" => r2.conversions = r.conversions
  /\ type = "commission_earned" => amount <= r2.totalEarned
  /\ type = "deactivated" => r2.status = "deactivated"
  /\ type # "deactivated" => r2.status = r.status

LEMMA ReferralIs ==
  ASSUME NEW r \in Referral
  PROVE  /\ r.conversions \in Nat /\ r.totalEarned \in Nat /\ r.expiresAt \in Nat
         /\ r.status \in {"active", "deactivated"} /\ r.programId \in Programs
<1> DEFINE a == r.conversions
           b == r.totalEarned
<1>1. a \in 0 .. MaxConversions /\ b \in 0 .. MaxEarned
  BY DEF Referral
<1>2. MaxConversions \in Nat /\ MaxEarned \in Nat
  BY EngineAssumption
<1> HIDE DEF a, b
<1>3. a \in Nat /\ b \in Nat
  BY <1>1, <1>2
<1> QED BY <1>3 DEF a, b, Referral

LEMMA TidyPushed ==
  ASSUME NEW log \in Seq(Event), Len(log) >= 1, NEW r \in Referral, NEW r2 \in Referral, Tidy(log, r),
         NEW type \in EventTypes \ {"created"}, NEW amount \in Nat, Moves(r, r2, type, amount),
         NEW new, NEW d, Pushed(log, new, [type |-> type, amount |-> amount], d),
         type = "converted" => ~Has(log, "converted")
  PROVE  Tidy(new, r2)
<1> DEFINE e == [type |-> type, amount |-> amount]
           n == Len(new)
           m == Len(log)
<1>1. /\ d \in 0 .. 1 /\ n \in Nat \ {0} /\ m \in Nat /\ n = m + 1 - d
      /\ \A k \in 1 .. n : k < n => new[k] = log[k + d] /\ k + d \in 1 .. m
      /\ new[n].type = type /\ new[n].amount = amount
  <2>1. d \in 0 .. 1 /\ n \in Nat \ {0} /\ m \in Nat /\ n = m + 1 - d
    BY DEF Pushed
  <2>2. \A k \in 1 .. n : k < n => new[k] = log[k + d]
    BY DEF Pushed
  <2>3. new[n].type = type /\ new[n].amount = amount
    BY DEF Pushed
  <2> HIDE DEF n, m
  <2>4. \A k \in 1 .. n : k < n => k + d \in 1 .. m
    BY <2>1
  <2> QED BY <2>1, <2>2, <2>3, <2>4
<1>2. /\ r.conversions \in Nat /\ r2.conversions \in Nat /\ r.totalEarned \in Nat /\ r2.totalEarned \in Nat
  BY ReferralIs
<1>3. ASSUME NEW k \in 1 .. m PROVE log[k].amount \in Nat
  <2>1. log[k] \in Event
    OBVIOUS
  <2> QED BY <2>1 DEF Event
<1> HIDE DEF n, m
<1>4. ASSUME NEW t, Has(new, t)
      PROVE  t = type \/ Has(log, t)
  <2>1. PICK k \in 1 .. n : new[k].type = t
    BY <1>4 DEF Has, n
  <2>2. k < n => k + d \in 1 .. m /\ log[k + d].type = t
    BY <1>1, <2>1
  <2>3. k < n \/ k = n
    BY <1>1
  <2> QED BY <1>1, <2>1, <2>2, <2>3 DEF Has, m
<1>5. Has(new, type)
  BY <1>1 DEF Has, n
<1>6. \A k, l \in 1 .. n : new[k].type = "converted" /\ new[l].type = "converted" => k = l
  <2> SUFFICES ASSUME NEW k \in 1 .. n, NEW l \in 1 .. n, new[k].type = "converted", new[l].type = "converted"
               PROVE  k = l
    OBVIOUS
  <2>1. CASE type = "converted"
    <3>1. \A q \in 1 .. n : q < n => new[q].type # "converted"
      BY <1>1, <2>1 DEF Has, m
    <3> QED BY <1>1, <3>1
  <2>2. CASE type # "converted"
    <3>1. k < n /\ l < n
      BY <1>1, <2>2
    <3>2. k + d \in 1 .. m /\ l + d \in 1 .. m /\ log[k + d].type = "converted" /\ log[l + d].type = "converted"
      BY <1>1, <3>1
    <3>3. k + d = l + d
      BY <3>2 DEF Tidy, m
    <3> QED BY <1>1, <3>3
  <2> QED BY <2>1, <2>2
<1>7. Has(new, "converted") => r2.conversions >= 1
  <2>1. Has(new, "converted") => type = "converted" \/ Has(log, "converted")
    BY <1>4
  <2>2. Has(log, "converted") => r.conversions >= 1
    BY DEF Tidy
  <2> QED BY <1>2, <2>1, <2>2 DEF Moves
<1>8. \A k \in 1 .. n : new[k].type = "commission_earned" => new[k].amount <= r2.totalEarned
  <2> SUFFICES ASSUME NEW k \in 1 .. n, new[k].type = "commission_earned"
               PROVE  new[k].amount <= r2.totalEarned
    OBVIOUS
  <2>1. CASE k = n
    BY <1>1, <2>1 DEF Moves
  <2>2. CASE k < n
    <3> DEFINE a == log[k + d].amount
    <3>1. k + d \in 1 .. m /\ new[k].amount = a /\ log[k + d].type = "commission_earned"
      BY <1>1, <2>2
    <3>2. a \in Nat /\ a <= r.totalEarned
      BY <1>3, <3>1 DEF Tidy, m
    <3>3. r.totalEarned <= r2.totalEarned
      BY <1>2 DEF Moves
    <3> HIDE DEF a
    <3> QED BY <1>2, <3>1, <3>2, <3>3
  <2> QED BY <1>1, <2>1, <2>2
<1>9. \A k \in 2 .. n : new[k].type # "created"
  <2> SUFFICES ASSUME NEW k \in 2 .. n PROVE new[k].type # "created"
    OBVIOUS
  <2>1. CASE k = n
    BY <1>1, <2>1
  <2>2. CASE k < n
    <3>1. k + d \in 2 .. m /\ new[k] = log[k + d]
      BY <1>1, <2>2
    <3> QED BY <3>1 DEF Tidy, m
  <2> QED BY <1>1, <2>1, <2>2
<1>10. Has(new, "deactivated") => r2.status = "deactivated"
  BY <1>4 DEF Tidy, Moves
<1>11. ASSUME new[1].type = "created"
       PROVE  /\ r2.conversions > 0 => Has(new, "converted")
              /\ r2.status = "deactivated" => Has(new, "deactivated")
  <2>1. 1 < n
    BY <1>1, <1>11
  <2>2. new[1] = log[1 + d] /\ 1 + d \in 1 .. m
    BY <1>1, <2>1
  <2>3. d = 0
    <3>1. d = 1 => 1 + d \in 2 .. m
      BY <1>1, <2>2
    <3> QED BY <1>1, <1>11, <2>2, <3>1 DEF Tidy, m
  <2>4. ASSUME NEW t, Has(log, t) PROVE Has(new, t)
    <3>1. PICK k \in 1 .. m : log[k].type = t
      BY <2>4 DEF Has, m
    <3>2. k \in 1 .. n /\ k < n /\ k + d = k
      BY <1>1, <2>3
    <3> QED BY <1>1, <3>1, <3>2 DEF Has, n
  <2>5. log[1].type = "created"
    BY <1>11, <2>2, <2>3
  <2>6. r.conversions > 0 => Has(log, "converted")
    BY <2>5 DEF Tidy
  <2>7. r.status = "deactivated" => Has(log, "deactivated")
    BY <2>5 DEF Tidy
  <2>8. r2.conversions > 0 => Has(new, "converted")
    <3>1. type # "converted" => r2.conversions = r.conversions
      BY DEF Moves
    <3> QED BY <1>5, <2>4, <2>6, <3>1
  <2>9. r2.status = "deactivated" => Has(new, "deactivated")
    <3>1. type # "deactivated" => r2.status = r.status
      BY DEF Moves
    <3> QED BY <1>5, <2>4, <2>7, <3>1
  <2> QED BY <2>8, <2>9
<1> QED BY <1>6, <1>7, <1>8, <1>9, <1>10, <1>11 DEF Tidy, n

(* A duplicate is left out of the log.                                     *)
LEMMA TidyKept ==
  ASSUME NEW log \in Seq(Event), Len(log) >= 1, NEW r \in Referral, NEW r2 \in Referral, Tidy(log, r),
         NEW type, NEW amount, Moves(r, r2, type, amount), type \in {"converted", "commission_earned"},
         Has(log, type)
  PROVE  Tidy(log, r2)
<1>1. /\ r.conversions \in Nat /\ r2.conversions \in Nat /\ r.totalEarned \in Nat /\ r2.totalEarned \in Nat
  BY ReferralIs
<1>2. r2.conversions >= r.conversions /\ r2.totalEarned >= r.totalEarned /\ r2.status = r.status
      /\ (type # "converted" => r2.conversions = r.conversions)
  BY DEF Moves
<1>3. \A k \in 1 .. Len(log) : log[k].type = "commission_earned" => log[k].amount <= r2.totalEarned
  <2> SUFFICES ASSUME NEW k \in 1 .. Len(log), log[k].type = "commission_earned"
               PROVE  log[k].amount <= r2.totalEarned
    OBVIOUS
  <2> DEFINE a == log[k].amount
  <2>1. a \in Nat
    <3>1. log[k] \in Event
      OBVIOUS
    <3> QED BY <3>1 DEF Event
  <2>2. a <= r.totalEarned
    BY DEF Tidy
  <2> HIDE DEF a
  <2>3. a <= r2.totalEarned
    BY <1>1, <1>2, <2>1, <2>2
  <2> QED BY <2>3 DEF a
<1>4. Has(log, "converted") => r2.conversions >= 1
  BY <1>1, <1>2 DEF Tidy
<1>5. log[1].type = "created" => (r2.conversions > 0 => Has(log, "converted"))
  BY <1>2 DEF Tidy
<1> QED BY <1>2, <1>3, <1>4, <1>5 DEF Tidy

LEMMA TidyAfter ==
  ASSUME NEW log \in Seq(Event), Len(log) \in 1 .. maxEvents,
         NEW r \in Referral, NEW r2 \in Referral, Tidy(log, r),
         NEW type \in EventTypes \ {"created"}, NEW amount \in Nat, Moves(r, r2, type, amount)
  PROVE  LET new == trackEvent(log, type, amount)
         IN  new \in Seq(Event) /\ Len(new) \in 1 .. maxEvents /\ Tidy(new, r2)
<1> DEFINE e == [type |-> type, amount |-> amount]
           S == SubSeq(Append(log, e), IF Len(log) = maxEvents THEN 2 ELSE 1, Len(log) + 1)
           Dup == type \in {"converted", "commission_earned"} /\ Has(log, type)
<1>1. e \in Event /\ maxEvents \in Nat /\ Len(log) >= 1 /\ Len(log) <= maxEvents /\ e.type = type /\ e.amount = amount
  BY EngineAssumption DEF Event
<1>2. trackEvent(log, type, amount) = IF Dup THEN log ELSE S
  <2>1. Has(log, type) <=> \E x \in Range(log) : x.type = type
    BY DEF Has, Range
  <2> QED BY <2>1 DEF trackEvent
<1>3. CASE Dup
  BY <1>1, <1>2, <1>3, TidyKept
<1>4. CASE ~Dup
  <2>1. PICK d \in 0 .. 1 : Pushed(log, S, e, d)
    BY <1>1, Pushing
  <2>2. type = "converted" => ~Has(log, "converted")
    BY <1>4
  <2>3. S \in Seq(Event) /\ Len(S) \in 1 .. maxEvents
    BY <2>1 DEF Pushed
  <2> HIDE DEF S
  <2>4. Tidy(S, r2)
    BY <1>1, <2>1, <2>2, TidyPushed
  <2> QED BY <1>2, <1>4, <2>3, <2>4
<1> QED BY <1>3, <1>4

LEMMA TidyFresh ==
  LET new == trackEvent(<<>>, "created", 0)
  IN  /\ new \in Seq(Event) /\ Len(new) \in 1 .. maxEvents
      /\ \A r \in Referral : r.conversions = 0 /\ r.status = "active" => Tidy(new, r)
<1> DEFINE e == [type |-> "created", amount |-> 0]
           new == trackEvent(<<>>, "created", 0)
<1>1. maxEvents \in Nat \ {0} /\ e \in Event /\ e.type = "created"
  BY EngineAssumption DEF Event, EventTypes
<1>2. new = <<e>>
  <2> DEFINE s == <<e>>
  <2>1. Append(<<>>, e) = s /\ Len(<<>>) = 0 /\ maxEvents # 0
    BY <1>1
  <2>2. new = SubSeq(s, 1, 1)
    BY <2>1 DEF trackEvent
  <2>3. s \in Seq(Event) /\ Len(s) = 1
    BY <1>1
  <2> HIDE DEF s
  <2>4. SubSeq(s, 1, 1) = s
    BY <2>3
  <2> QED BY <2>2, <2>4 DEF s
<1> HIDE DEF e, new
<1>3. new \in Seq(Event) /\ Len(new) = 1 /\ new[1].type = "created"
  BY <1>1, <1>2
<1>4. \A k \in 1 .. Len(new) : new[k].type = "created"
  BY <1>3
<1>5. \A r \in Referral : r.conversions = 0 /\ r.status = "active" => Tidy(new, r)
  BY <1>3, <1>4 DEF Tidy, Has
<1>6. Len(new) \in 1 .. maxEvents
  BY <1>1, <1>3
<1> QED BY <1>3, <1>5, <1>6 DEF new

(* The payment for an action is never negative, and never less for more.   *)
LEMMA PercentIs ==
  ASSUME NEW r \in Nat, NEW a \in Nat, NEW b \in Nat, a <= b
  PROVE  Percent(r, a) \in Nat /\ Percent(r, a) <= Percent(r, b)
<1> DEFINE p == r * a
           q == r * b
<1>1. p \in Nat /\ q \in Nat /\ p <= q
  BY Scales
<1> HIDE DEF p, q
<1>2. (p + 50) \div 100 \in Nat /\ (p + 50) \div 100 <= (q + 50) \div 100
  BY <1>1
<1> QED BY <1>2 DEF Percent, p, q

LEMMA PaysIs ==
  ASSUME NEW t \in Tier, NEW a \in Nat, NEW b \in Nat, a <= b
  PROVE  Pays(t, a) \in Nat /\ Pays(t, a) <= Pays(t, b)
<1>1. t.amount \in Nat
  BY DEF Tier
<1> QED BY <1>1, PercentIs DEF Pays

LEMMA HighestIs ==
  ASSUME NEW R \in SUBSET Tier, IsFiniteSet(R), R # {}
  PROVE  Highest(R) \in R /\ \A s \in R : s.threshold <= Highest(R).threshold
<1> DEFINE N == Cardinality(R)
<1>1. N \in Nat \ {0}
  BY FS_CardinalityType, FS_EmptySet
<1>2. PICK b : b \in Bijection(1 .. N, R)
  BY FS_CardinalityType DEF ExistsBijection
<1>3. b \in [1 .. N -> R] /\ \A x \in R : \E i \in 1 .. N : b[i] = x
  BY <1>2 DEF Bijection, Surjection, Injection
<1> DEFINE g == [i \in 1 .. N |-> b[i].threshold]
<1>4. \A i \in 1 .. N : g[i] = b[i].threshold /\ g[i] \in Int
  BY <1>3 DEF Tier
<1> HIDE DEF g, N
<1>5. PICK k \in 1 .. N : \A i \in 1 .. N : g[i] <= g[k]
  BY <1>1, <1>4, Greatest
<1>6. b[k] \in R /\ \A s \in R : s.threshold <= b[k].threshold
  BY <1>3, <1>4, <1>5
<1> QED BY <1>6 DEF Highest

LEMMA TieredIs ==
  ASSUME NEW tiers \in SUBSET Tier, IsFiniteSet(tiers), NEW a \in Nat, NEW b \in Nat, a <= b
  PROVE  /\ _calculateTiered(tiers, a) \in Nat
         /\ Rising(tiers) => _calculateTiered(tiers, a) <= _calculateTiered(tiers, b)
<1> DEFINE R(x) == {t \in tiers : x >= t.threshold}
           s == Highest(R(a))
           t == Highest(R(b))
           pay(x) == _calculateTiered(tiers, x)
<1>1. \A x \in Nat : IsFiniteSet(R(x)) /\ R(x) \in SUBSET Tier
                    /\ pay(x) = IF R(x) = {} THEN 0 ELSE Pays(Highest(R(x)), x)
  <2>1. ASSUME NEW x \in Nat
        PROVE  R(x) \in SUBSET tiers /\ R(x) \in SUBSET Tier
               /\ pay(x) = IF R(x) = {} THEN 0 ELSE Pays(Highest(R(x)), x)
    BY DEF _calculateTiered
  <2> HIDE DEF R, pay
  <2> QED BY <2>1, FS_Subset
<1>2. ASSUME NEW x \in Nat PROVE pay(x) \in Nat
  <2> HIDE DEF R, pay
  <2>1. CASE R(x) = {}
    BY <1>1, <2>1
  <2>2. CASE R(x) # {}
    <3> DEFINE Rx == R(x)
    <3> HIDE DEF Rx
    <3>1. Highest(Rx) \in Tier
      BY <1>1, <2>2, HighestIs DEF Rx
    <3>2. Pays(Highest(Rx), x) \in Nat
      BY <3>1, PaysIs, x <= x
    <3> QED BY <1>1, <2>2, <3>2 DEF Rx
  <2> QED BY <2>1, <2>2
<1>3. ASSUME Rising(tiers), R(a) # {} PROVE pay(a) <= pay(b)
  <2>1. \A u : u \in R(a) <=> u \in tiers /\ a >= u.threshold
    OBVIOUS
  <2>2. \A u : u \in R(b) <=> u \in tiers /\ b >= u.threshold
    OBVIOUS
  <2>3. \A u \in tiers : u.threshold \in Int /\ u \in Tier
    BY DEF Tier
  <2>4. R(a) \subseteq R(b) /\ R(b) # {}
    BY <1>3, <2>1, <2>2, <2>3
  <2>5. pay(a) = Pays(s, a) /\ pay(b) = Pays(t, b)
    BY <1>1, <1>3, <2>4
  <2> HIDE DEF R, pay
  <2>6. s \in R(a) /\ t \in R(b) /\ \A u \in R(a) : u.threshold <= s.threshold
        /\ (R(a) = R(b) => s = t)
    BY <1>1, <1>3, <2>4, HighestIs
  <2>7. s \in R(b) => s.threshold <= t.threshold
    BY <1>1, <2>4, HighestIs
  <2> HIDE DEF s, t
  <2>8. s \in tiers /\ t \in tiers /\ s \in Tier /\ t \in Tier
    BY <2>1, <2>2, <2>3, <2>6
  <2>9. CASE R(a) = R(b)
    <3>1. Pays(s, a) <= Pays(s, b)
      BY <2>8, PaysIs
    <3> QED BY <2>5, <2>6, <2>9, <3>1
  <2>10. CASE R(a) # R(b)
    <3>1. PICK u \in R(b) : u \notin R(a)
      BY <2>4, <2>10
    <3>2. u.threshold > a /\ u.threshold <= t.threshold
      <4>1. \A v \in R(b) : v.threshold <= t.threshold
        BY <1>1, <2>4, HighestIs DEF t
      <4> QED BY <2>1, <2>2, <2>3, <3>1, <4>1
    <3>3. /\ s.threshold \in Int /\ t.threshold \in Int /\ u.threshold \in Int
          /\ s.threshold <= a /\ t.threshold <= b
      BY <2>1, <2>2, <2>3, <2>6, <2>8, <3>1
    <3>4. s.threshold < t.threshold /\ a < t.threshold /\ t.threshold \in Nat
      BY <3>2, <3>3
    <3>5. Pays(s, a) <= Pays(t, t.threshold)
      BY <1>3, <2>8, <3>4 DEF Rising
    <3>6. Pays(t, t.threshold) <= Pays(t, b) /\ Pays(t, t.threshold) \in Nat
      BY <2>8, <3>3, <3>4, PaysIs
    <3>7. Pays(s, a) \in Nat /\ Pays(t, b) \in Nat
      BY <2>8, PaysIs, a <= a, b <= b
    <3> QED BY <2>5, <3>5, <3>6, <3>7
  <2> QED BY <2>9, <2>10
<1>4. R(a) = {} => pay(a) = 0
  BY <1>1
<1> HIDE DEF R
<1> QED BY <1>2, <1>3, <1>4

LEMMA UnboundedIs ==
  ASSUME NEW w \in Rewards, IsFiniteSet(w.tiers), NEW a \in Nat, NEW b \in Nat, a <= b
  PROVE  /\ Unbounded(w, a) \in Nat /\ Unbounded(w, b) \in Nat
         /\ Rising(w.tiers) => Unbounded(w, a) <= Unbounded(w, b)
<1>1. /\ w.amount \in Nat /\ w.tiers \in SUBSET Tier /\ w.fixedAmount \in Nat /\ w.percentAmount \in Nat
      /\ b <= b
  BY DEF Rewards
<1>2. \A r \in Nat : /\ Percent(r, a) \in Nat /\ Percent(r, b) \in Nat
                     /\ Percent(r, a) <= Percent(r, b)
  BY <1>1, PercentIs
<1>3. /\ _calculateTiered(w.tiers, a) \in Nat /\ _calculateTiered(w.tiers, b) \in Nat
      /\ Rising(w.tiers) => _calculateTiered(w.tiers, a) <= _calculateTiered(w.tiers, b)
  BY <1>1, TieredIs
<1>4. CASE w.type = "percent"
  BY <1>1, <1>2, <1>4 DEF Unbounded
<1>5. CASE w.type = "tiered"
  BY <1>3, <1>5 DEF Unbounded
<1>6. CASE w.type = "hybrid"
  <2> DEFINE x == Percent(w.percentAmount, a)
             y == Percent(w.percentAmount, b)
  <2>1. x \in Nat /\ y \in Nat /\ x <= y /\ w.fixedAmount + x \in Nat /\ w.fixedAmount + y \in Nat
    BY <1>1, <1>2
  <2>2. Unbounded(w, a) = w.fixedAmount + x /\ Unbounded(w, b) = w.fixedAmount + y
    BY <1>6 DEF Unbounded
  <2> HIDE DEF x, y
  <2> QED BY <1>1, <2>1, <2>2
<1>7. CASE w.type \notin {"percent", "tiered", "hybrid"}
  BY <1>1, <1>7 DEF Unbounded
<1> QED BY <1>4, <1>5, <1>6, <1>7

LEMMA PaymentIs ==
  ASSUME NEW w \in Rewards, IsFiniteSet(w.tiers), NEW a \in Nat, NEW b \in Nat, a <= b
  PROVE  /\ calculate(w, a) \in Nat
         /\ w.maxAmount > 0 => calculate(w, a) <= w.maxAmount
         /\ Rising(w.tiers) => calculate(w, a) <= calculate(w, b)
<1> DEFINE c == Unbounded(w, a)
           d == Unbounded(w, b)
           lo == w.minAmount
           hi == w.maxAmount
           raised(x) == IF lo > 0 /\ x < lo THEN lo ELSE x
<1>1. lo \in Nat /\ hi \in Nat
  BY DEF Rewards
<1>2. c \in Nat /\ d \in Nat /\ (Rising(w.tiers) => c <= d)
  BY UnboundedIs
<1>3. /\ calculate(w, a) = IF hi > 0 /\ raised(c) > hi THEN hi ELSE raised(c)
      /\ calculate(w, b) = IF hi > 0 /\ raised(d) > hi THEN hi ELSE raised(d)
  BY DEF calculate
<1> HIDE DEF c, d, lo, hi
<1>4. raised(c) \in Nat /\ raised(d) \in Nat /\ (c <= d => raised(c) <= raised(d))
  BY <1>1, <1>2
<1> HIDE DEF raised
<1>5. calculate(w, a) \in Nat /\ (hi > 0 => calculate(w, a) <= hi)
  BY <1>1, <1>3, <1>4
<1>6. c <= d => calculate(w, a) <= calculate(w, b)
  BY <1>1, <1>3, <1>4
<1> QED BY <1>2, <1>5, <1>6 DEF hi

(* A reward of any of the four kinds, with any bounds (commission-         *)
(* calculator.js:47), keeps its maximum, and pays no less for a larger     *)
(* purchase unless its own tiers do.                                       *)
THEOREM CommissionFairHolds ==
  ASSUME NEW rewards \in SUBSET {w \in Rewards : IsFiniteSet(w.tiers) /\ Rising(w.tiers)},
         NEW amounts \in SUBSET Nat
  PROVE  CommissionFair(rewards, amounts)
<1> SUFFICES ASSUME NEW r \in rewards, NEW a \in amounts, NEW b \in amounts
             PROVE  /\ r.maxAmount > 0 => calculate(r, a) <= r.maxAmount
                    /\ a <= b => calculate(r, a) <= calculate(r, b)
  BY DEF CommissionFair
<1>1. r \in Rewards /\ IsFiniteSet(r.tiers) /\ Rising(r.tiers) /\ a \in Nat /\ b \in Nat /\ a <= a
  OBVIOUS
<1> QED BY <1>1, PaymentIs

LEMMA EngineInitInv == EngineInit => EngineInv
<1> SUFFICES ASSUME EngineInit PROVE EngineInv
  OBVIOUS
<1>1. referrals = <<>> /\ events = <<>> /\ DOMAIN referrals = {} /\ DOMAIN events = {}
  BY DEF EngineInit
<1>2. EngineTypeOK
  <2>1. referrals \in Seq(Referral) /\ events \in Seq(Seq(Event)) /\ Len(events) = Len(referrals)
    BY <1>1
  <2>2. programs \in [Programs -> Configs \cup {NoProgram}] /\ usedCodes = {} /\ today = 0
        /\ loose = {}
    BY DEF EngineInit
  <2>3. today \in 0 .. MaxDays
    BY <2>2, EngineAssumption
  <2> QED BY <1>1, <2>1, <2>2, <2>3 DEF EngineTypeOK
<1> QED BY <1>1, <1>2 DEF EngineInv, Owned

LEMMA EngineTypes ==
  ASSUME EngineTypeOK, NEW i \in DOMAIN referrals
  PROVE  /\ i \in 1 .. Len(referrals) /\ i \in DOMAIN events /\ referrals[i] \in Referral
         /\ events[i] \in Seq(Event) /\ Len(events[i]) \in 1 .. maxEvents
         /\ programs[referrals[i].programId] \in Configs
<1>1. i \in 1 .. Len(referrals) /\ i \in DOMAIN events /\ referrals[i] \in Referral
  BY DEF EngineTypeOK
<1>2. referrals[i].programId \in Programs
  BY <1>1, ReferralIs
<1>3. programs[referrals[i].programId] \in Configs \cup {NoProgram} /\ programs[referrals[i].programId] # NoProgram
  BY <1>2 DEF EngineTypeOK
<1> QED BY <1>1, <1>3 DEF EngineTypeOK

(* A referral changes and its log with it.                                 *)
LEMMA LogStep ==
  ASSUME EngineInv, NEW i \in DOMAIN referrals, NEW r2 \in Referral,
         NEW type \in EventTypes \ {"created"}, NEW amount \in Nat,
         Log(i, type, amount), referrals' = [referrals EXCEPT ![i] = r2],
         UNCHANGED <<programs, usedCodes, today, loose>>,
         Moves(referrals[i], r2, type, amount),
         r2.code = referrals[i].code, r2.programId = referrals[i].programId
  PROVE  EngineInv'
<1>1. EngineTypeOK /\ programs' = programs /\ usedCodes' = usedCodes /\ today' = today /\ loose' = loose
  BY DEF EngineInv
<1>2. /\ i \in DOMAIN events /\ referrals[i] \in Referral
      /\ events[i] \in Seq(Event) /\ Len(events[i]) \in 1 .. maxEvents
      /\ Tidy(events[i], referrals[i])
  BY <1>1, EngineTypes DEF EngineInv
<1> DEFINE new == trackEvent(events[i], type, amount)
<1>3. new \in Seq(Event) /\ Len(new) \in 1 .. maxEvents /\ Tidy(new, r2)
  BY <1>2, TidyAfter
<1>4. events' = [events EXCEPT ![i] = new]
  BY DEF Log
<1> HIDE DEF new
<1>5. /\ referrals' \in Seq(Referral) /\ Len(referrals') = Len(referrals) /\ DOMAIN referrals' = DOMAIN referrals
      /\ referrals'[i] = r2 /\ \A j \in DOMAIN referrals : j # i => referrals'[j] = referrals[j]
  <2>1. referrals \in Seq(Referral)
    BY <1>1 DEF EngineTypeOK
  <2> QED BY <2>1
<1>6. /\ events' \in Seq(Seq(Event)) /\ Len(events') = Len(events) /\ DOMAIN events' = DOMAIN events
      /\ events'[i] = new /\ \A j \in DOMAIN events : j # i => events'[j] = events[j]
  <2>1. events \in Seq(Seq(Event))
    BY <1>1 DEF EngineTypeOK
  <2> QED BY <1>2, <1>3, <1>4, <2>1
<1>7. DOMAIN events = DOMAIN referrals
  BY <1>1 DEF EngineTypeOK
<1>8. EngineTypeOK'
  <2>1. \A j \in DOMAIN referrals' : programs'[referrals'[j].programId] # NoProgram
    BY <1>1, <1>5 DEF EngineTypeOK
  <2>2. \A j \in DOMAIN events' : Len(events'[j]) \in 1 .. maxEvents
    BY <1>1, <1>3, <1>6 DEF EngineTypeOK
  <2> QED BY <1>1, <1>5, <1>6, <2>1, <2>2 DEF EngineTypeOK
<1>9. \A j \in DOMAIN referrals' : Tidy(events'[j], referrals'[j])
  BY <1>3, <1>5, <1>6, <1>7 DEF EngineInv
<1>10. Owned'
  <2>1. \A j \in DOMAIN referrals : referrals'[j].code = referrals[j].code
    BY <1>5
  <2>2. r2.status = "active" => referrals[i].status = "active"
    BY <1>2, ReferralIs DEF Moves
  <2>3. \A j \in DOMAIN referrals : referrals'[j].status = "active" => referrals[j].status = "active"
    BY <1>5, <2>2
  <2> QED BY <1>1, <1>5, <2>1, <2>3 DEF EngineInv, Owned, OwnsCode
<1> QED BY <1>8, <1>9, <1>10 DEF EngineInv

LEMMA FoundIs ==
  ASSUME EngineTypeOK, NEW code, _findByCode(code) # 0
  PROVE  _findByCode(code) \in DOMAIN referrals
<1> DEFINE F == {i \in DOMAIN referrals : referrals[i].code = code /\ referrals[i].status = "active"}
<1>1. F # {} /\ _findByCode(code) = Min(F)
  BY DEF _findByCode
<1>2. F \in SUBSET Nat /\ F \in SUBSET DOMAIN referrals
  BY DEF EngineTypeOK
<1> HIDE DEF F
<1>3. \E x \in F : \A y \in F : x <= y
  BY <1>1, <1>2, LeastOf
<1>4. Min(F) \in F
  BY <1>3 DEF Min
<1> QED BY <1>1, <1>2, <1>4

LEMMA ConversionKeeps ==
  ASSUME EngineInv, NEW code, NEW user, trackConversion(code, user)
  PROVE  EngineInv'
<1> DEFINE i == _findByCode(code)
           r == referrals[i]
           n == r.conversions + 1
           r2 == [r EXCEPT !.conversions = n]
<1>1. /\ EngineTypeOK /\ i # 0 /\ r.conversions < MaxConversions /\ Log(i, "converted", 0)
      /\ referrals' = [referrals EXCEPT ![i] = r2] /\ UNCHANGED <<programs, usedCodes, today, loose>>
  BY DEF EngineInv, trackConversion
<1>2. i \in DOMAIN referrals
  BY <1>1, FoundIs
<1> HIDE DEF i
<1>3. r \in Referral
  BY <1>1, <1>2, EngineTypes
<1>4. r.conversions \in Nat /\ r.totalEarned \in Nat /\ MaxConversions \in Nat
  BY <1>3, ReferralIs, EngineAssumption
<1>5. n \in 0 .. MaxConversions /\ n >= r.conversions /\ n >= 1
  BY <1>1, <1>4
<1> HIDE DEF n
<1>6. /\ r2 \in Referral /\ r2.conversions = n /\ r2.totalEarned = r.totalEarned /\ r2.status = r.status
      /\ r2.code = r.code /\ r2.programId = r.programId
  BY <1>3, <1>5 DEF Referral
<1> HIDE DEF r2
<1>7. Moves(r, r2, "converted", 0)
  BY <1>4, <1>5, <1>6 DEF Moves
<1>8. "converted" \in EventTypes \ {"created"} /\ 0 \in Nat
  BY DEF EventTypes
<1> QED BY <1>1, <1>2, <1>6, <1>7, <1>8, LogStep

LEMMA CommissionKeeps ==
  ASSUME EngineInv, NEW i \in DOMAIN referrals, NEW amount \in Purchases, processCommission(i, amount)
  PROVE  EngineInv'
<1> DEFINE r == referrals[i]
           w == programs[r.programId].referrerReward
           c == calculate(w, amount)
           n == r.totalEarned + c
           r2 == [r EXCEPT !.totalEarned = n]
<1>1. /\ EngineTypeOK /\ n <= MaxEarned /\ Log(i, "commission_earned", c)
      /\ referrals' = [referrals EXCEPT ![i] = r2] /\ UNCHANGED <<programs, usedCodes, today, loose>>
  BY DEF EngineInv, processCommission
<1>2. r \in Referral /\ programs[r.programId] \in Configs
  BY <1>1, EngineTypes
<1>3. c \in Nat
  <2>1. w \in Rewards /\ IsFiniteSet(w.tiers)
    BY <1>2, EngineAssumption DEF ProgramConfig
  <2>2. amount \in Nat
    BY EngineAssumption
  <2> HIDE DEF w
  <2> QED BY <2>1, <2>2, PaymentIs
<1>4. r.conversions \in Nat /\ r.totalEarned \in Nat /\ MaxEarned \in Nat
  BY <1>2, ReferralIs, EngineAssumption
<1> HIDE DEF c
<1>5. n \in 0 .. MaxEarned /\ n >= r.totalEarned /\ c <= n
  BY <1>1, <1>3, <1>4
<1> HIDE DEF n
<1>6. /\ r2 \in Referral /\ r2.conversions = r.conversions /\ r2.totalEarned = n /\ r2.status = r.status
      /\ r2.code = r.code /\ r2.programId = r.programId
  BY <1>2, <1>5 DEF Referral
<1> HIDE DEF r2
<1>7. Moves(r, r2, "commission_earned", c)
  BY <1>4, <1>5, <1>6 DEF Moves
<1>8. "commission_earned" \in EventTypes \ {"created"}
  BY DEF EventTypes
<1> QED BY <1>1, <1>3, <1>6, <1>7, <1>8, LogStep

LEMMA DeactivationKeeps ==
  ASSUME EngineInv, NEW i \in DOMAIN referrals, deactivateReferral(i)
  PROVE  EngineInv'
<1> DEFINE r == referrals[i]
           r2 == [r EXCEPT !.status = "deactivated"]
<1>1. /\ EngineTypeOK /\ Log(i, "deactivated", 0)
      /\ referrals' = [referrals EXCEPT ![i] = r2] /\ UNCHANGED <<programs, usedCodes, today, loose>>
  BY DEF EngineInv, deactivateReferral
<1>2. r \in Referral
  BY <1>1, EngineTypes
<1>3. r.conversions \in Nat /\ r.totalEarned \in Nat
  BY <1>2, ReferralIs
<1>4. /\ r2 \in Referral /\ r2.conversions = r.conversions /\ r2.totalEarned = r.totalEarned
      /\ r2.status = "deactivated" /\ r2.code = r.code /\ r2.programId = r.programId
  BY <1>2 DEF Referral
<1> HIDE DEF r2
<1>5. Moves(r, r2, "deactivated", 0)
  BY <1>3, <1>4 DEF Moves
<1>6. "deactivated" \in EventTypes \ {"created"} /\ 0 \in Nat
  BY DEF EventTypes
<1> QED BY <1>1, <1>4, <1>5, <1>6, LogStep

LEMMA CreationKeeps ==
  ASSUME EngineInv, NEW u \in Users, NEW p \in Programs, NEW code \in Codes \cup Chosen,
         NEW drawn \in BOOLEAN, createReferral(u, p, code, drawn)
  PROVE  EngineInv'
<1> DEFINE program == ProgramFor(p)
           r == [referrerId |-> u, programId |-> p, code |-> code, status |-> "active",
                 expiresAt |-> today + program.referralExpiryDays,
                 conversions |-> 0, totalEarned |-> 0]
           log == trackEvent(<<>>, "created", 0)
<1>0. PICK n \in Nat : n = Len(referrals)
  BY DEF EngineInv, EngineTypeOK
<1>1. /\ EngineTypeOK /\ program # NoProgram /\ (drawn => code \in generate)
      /\ programs' = [programs EXCEPT ![p] = program]
      /\ usedCodes' = (IF drawn THEN usedCodes \cup {code} ELSE usedCodes)
      /\ loose' = (IF drawn THEN loose ELSE loose \cup {n + 1})
      /\ referrals' = Append(referrals, r) /\ events' = Append(events, log) /\ today' = today
  BY <1>0 DEF EngineInv, createReferral
<1>2. program \in Configs
  BY <1>1, EngineAssumption DEF ProgramFor, EngineTypeOK
<1>3. r \in Referral /\ r.status = "active" /\ r.conversions = 0 /\ r.code = code /\ r.programId = p
  <2>1. program.referralExpiryDays \in Nat
    BY <1>2, EngineAssumption DEF ProgramConfig
  <2>2. today \in Nat
    BY <1>1, EngineAssumption DEF EngineTypeOK
  <2> HIDE DEF program
  <2>3. today + program.referralExpiryDays \in Nat
    BY <2>1, <2>2
  <2>4. 0 \in 0 .. MaxConversions /\ 0 \in 0 .. MaxEarned
    BY EngineAssumption
  <2>5. r \in Referral
    BY <2>3, <2>4 DEF Referral
  <2> QED BY <2>5
<1>4. log \in Seq(Event) /\ Len(log) \in 1 .. maxEvents /\ Tidy(log, r)
  BY <1>3, TidyFresh
<1> HIDE DEF program, r, log
<1>5. /\ referrals \in Seq(Referral) /\ events \in Seq(Seq(Event)) /\ Len(events) = n /\ n \in Nat
      /\ DOMAIN referrals = 1 .. n /\ DOMAIN events = 1 .. n
  BY <1>0, <1>1 DEF EngineTypeOK
<1>6. /\ referrals' \in Seq(Referral) /\ Len(referrals') = n + 1 /\ DOMAIN referrals' = 1 .. n + 1
      /\ referrals'[n + 1] = r /\ \A j \in 1 .. n : referrals'[j] = referrals[j]
  BY <1>1, <1>3, <1>5
<1>7. /\ events' \in Seq(Seq(Event)) /\ Len(events') = n + 1 /\ DOMAIN events' = 1 .. n + 1
      /\ events'[n + 1] = log /\ \A j \in 1 .. n : events'[j] = events[j]
  BY <1>1, <1>4, <1>5
<1>8. \A j \in 1 .. n + 1 : j \in 1 .. n \/ j = n + 1
  BY <1>5
<1>9. /\ programs' \in [Programs -> Configs \cup {NoProgram}] /\ programs'[p] = program
      /\ \A q \in Programs : q # p => programs'[q] = programs[q]
  BY <1>1, <1>2 DEF EngineTypeOK
<1>10. EngineTypeOK'
  <2>1. \A j \in DOMAIN referrals' : programs'[referrals'[j].programId] # NoProgram
    <3>1. \A j \in 1 .. n : programs[referrals[j].programId] # NoProgram /\ referrals[j].programId \in Programs
      BY <1>1, <1>5, EngineTypes, ReferralIs DEF EngineTypeOK
    <3>2. \A j \in 1 .. n : programs'[referrals'[j].programId] # NoProgram
      BY <1>1, <1>6, <1>9, <3>1
    <3> QED BY <1>1, <1>3, <1>6, <1>8, <1>9, <3>2
  <2>2. \A j \in DOMAIN events' : Len(events'[j]) \in 1 .. maxEvents
    BY <1>1, <1>4, <1>5, <1>7, <1>8 DEF EngineTypeOK
  <2>3. usedCodes' \subseteq Codes
    BY <1>1 DEF EngineTypeOK, generate
  <2>4. loose' \subseteq DOMAIN referrals'
    BY <1>1, <1>5, <1>6 DEF EngineTypeOK
  <2> QED BY <1>1, <1>6, <1>7, <1>9, <2>1, <2>2, <2>3, <2>4 DEF EngineTypeOK
<1>11. \A j \in DOMAIN referrals' : Tidy(events'[j], referrals'[j])
  BY <1>4, <1>5, <1>6, <1>7, <1>8 DEF EngineInv
<1>12. Owned'
  <2>0. \A j \in 1 .. n : j # n + 1
    BY <1>5
  <2>1. \A j \in 1 .. n : OwnsCode(j)' <=> OwnsCode(j)
    BY <1>1, <1>6, <2>0 DEF OwnsCode
  <2>2. OwnsCode(n + 1)' => code \notin usedCodes /\ code \in usedCodes'
    BY <1>1 DEF OwnsCode, generate
  <2>3. \A j \in 1 .. n : OwnsCode(j) => referrals[j].code \in usedCodes /\ referrals[j].code \in usedCodes'
    BY <1>1, <1>5 DEF EngineInv, Owned
  <2>4. ASSUME NEW j \in 1 .. n + 1, OwnsCode(j)'
        PROVE  /\ referrals'[j].code \in usedCodes'
               /\ \A k \in 1 .. n + 1 : OwnsCode(k)' /\ referrals'[k].code = referrals'[j].code => k = j
    <3>1. CASE j \in 1 .. n
      <4>1. OwnsCode(j) /\ referrals'[j].code \in usedCodes /\ referrals'[j].code \in usedCodes'
        BY <1>6, <2>1, <2>3, <2>4, <3>1
      <4>2. \A k \in 1 .. n : OwnsCode(k)' /\ referrals'[k].code = referrals'[j].code => k = j
        BY <1>5, <1>6, <2>1, <3>1, <4>1 DEF EngineInv, Owned
      <4>3. ~(OwnsCode(n + 1)' /\ referrals'[n + 1].code = referrals'[j].code)
        BY <1>3, <1>6, <2>2, <4>1
      <4> QED BY <1>8, <4>1, <4>2, <4>3
    <3>2. CASE j = n + 1
      <4>1. code \notin usedCodes /\ code \in usedCodes' /\ referrals'[j].code = code
        BY <1>3, <1>6, <2>2, <2>4, <3>2
      <4>2. \A k \in 1 .. n : ~(OwnsCode(k)' /\ referrals'[k].code = code)
        BY <1>6, <2>1, <2>3, <4>1
      <4> QED BY <1>8, <3>2, <4>1, <4>2
    <3> QED BY <1>8, <3>1, <3>2
  <2> QED BY <1>6, <2>4 DEF Owned
<1> QED BY <1>10, <1>11, <1>12 DEF EngineInv

(* A program is created or replaced.                                       *)
LEMMA ProgramKeeps ==
  ASSUME EngineInv, NEW p \in Programs, NEW config \in Configs,
         programs' = [programs EXCEPT ![p] = config],
         UNCHANGED <<referrals, usedCodes, events, today, loose>>
  PROVE  EngineInv'
<1>1. /\ EngineTypeOK /\ referrals' = referrals /\ usedCodes' = usedCodes /\ events' = events
      /\ today' = today /\ loose' = loose
  BY DEF EngineInv
<1>2. /\ programs' \in [Programs -> Configs \cup {NoProgram}]
      /\ \A q \in Programs : programs[q] # NoProgram => programs'[q] # NoProgram
  BY <1>1, EngineAssumption DEF EngineTypeOK
<1>3. \A i \in DOMAIN referrals : referrals[i].programId \in Programs
  BY <1>1, EngineTypes, ReferralIs
<1>4. EngineTypeOK'
  BY <1>1, <1>2, <1>3 DEF EngineTypeOK
<1> QED BY <1>1, <1>4 DEF EngineInv, Owned, OwnsCode

LEMMA ReleaseKeeps ==
  ASSUME EngineInv, NEW code, releaseCode(code)
  PROVE  EngineInv'
<1>1. EngineTypeOK /\ referrals' = referrals /\ programs' = programs /\ events' = events /\ today' = today
      /\ usedCodes' = usedCodes \ {code}
  BY DEF EngineInv, releaseCode
<1>2. /\ loose \subseteq loose' /\ (loose \subseteq DOMAIN referrals => loose' \subseteq DOMAIN referrals)
      /\ \A i \in DOMAIN referrals :
           referrals[i].code = code /\ referrals[i].status = "active" => i \in loose'
  BY DEF releaseCode
<1>3. EngineTypeOK'
  BY <1>1, <1>2 DEF EngineTypeOK
<1>4. Owned'
  BY <1>1, <1>2 DEF EngineInv, Owned, OwnsCode
<1> QED BY <1>1, <1>3, <1>4 DEF EngineInv

LEMMA DayKeeps ==
  ASSUME EngineInv, UNCHANGED <<programs, referrals, usedCodes, events, loose>>, today' \in 0 .. MaxDays
  PROVE  EngineInv'
BY DEF EngineInv, EngineTypeOK, Owned, OwnsCode

LEMMA EngineInvSound == EngineInv => EngineSound
<1> SUFFICES ASSUME EngineInv PROVE EngineSound
  OBVIOUS
<1>1. OwnersFound
  <2> SUFFICES ASSUME NEW i \in DOMAIN referrals, referrals[i].status = "active",
                      i \notin loose, _findByCode(referrals[i].code) \notin loose
               PROVE  _findByCode(referrals[i].code) = i
    BY DEF OwnersFound
  <2> DEFINE c == referrals[i].code
             F == {j \in DOMAIN referrals : referrals[j].code = c /\ referrals[j].status = "active"}
  <2>1. i \in F /\ F \in SUBSET Nat
    BY DEF EngineInv, EngineTypeOK
  <2>2. _findByCode(c) = Min(F)
    BY <2>1 DEF _findByCode
  <2>3. ASSUME NEW x \in F, x \notin loose PROVE x = i
    BY <2>3 DEF EngineInv, Owned, OwnsCode
  <2> HIDE DEF F
  <2>4. \E x \in F : \A y \in F : x <= y
    BY <2>1, LeastOf
  <2>5. Min(F) \in F
    BY <2>4 DEF Min
  <2> QED BY <2>2, <2>3, <2>5
<1>2. LogsWitnessCounters
  <2> SUFFICES ASSUME NEW i \in DOMAIN referrals
               PROVE  /\ Cardinality(Recorded(i, "converted")) <= referrals[i].conversions
                      /\ \A k \in Recorded(i, "commission_earned") : events[i][k].amount <= referrals[i].totalEarned
                      /\ events[i][1].type = "created" =>
                           /\ referrals[i].conversions > 0 <=> Cardinality(Recorded(i, "converted")) > 0
                           /\ referrals[i].status = "deactivated" <=> Cardinality(Recorded(i, "deactivated")) > 0
    BY DEF LogsWitnessCounters
  <2> DEFINE log == events[i]
             r == referrals[i]
  <2>1. log \in Seq(Event) /\ r \in Referral /\ Tidy(log, r) /\ DOMAIN log = 1 .. Len(log)
    BY EngineTypes DEF EngineInv
  <2>2. r.conversions \in Nat
    BY <2>1, ReferralIs
  <2>3. ASSUME NEW t
        PROVE  /\ IsFiniteSet(Recorded(i, t)) /\ Cardinality(Recorded(i, t)) \in Nat
               /\ Cardinality(Recorded(i, t)) > 0 <=> Has(log, t)
    <3>1. IsFiniteSet(Recorded(i, t))
      <4>1. IsFiniteSet(1 .. Len(log)) /\ Recorded(i, t) \in SUBSET (1 .. Len(log))
        BY <2>1, FS_Interval DEF Recorded
      <4> QED BY <4>1, FS_Subset
    <3>2. Recorded(i, t) # {} <=> Has(log, t)
      BY <2>1 DEF Recorded, Has
    <3>3. Cardinality(Recorded(i, t)) \in Nat /\ (Cardinality(Recorded(i, t)) = 0 <=> Recorded(i, t) = {})
      BY <3>1, FS_CardinalityType, FS_EmptySet
    <3>4. Cardinality(Recorded(i, t)) > 0 <=> Recorded(i, t) # {}
      BY <3>3
    <3> QED BY <3>1, <3>2, <3>3, <3>4
  <2>4. Cardinality(Recorded(i, "converted")) <= r.conversions
    <3> DEFINE S == Recorded(i, "converted")
    <3>1. \A k, l \in S : k = l
      BY <2>1 DEF Recorded, Tidy
    <3>2. CASE S = {}
      BY <2>2, <3>2, FS_EmptySet
    <3>3. CASE S # {}
      <4>1. PICK k \in S : S = {k}
        BY <3>1, <3>3
      <4>2. Cardinality(S) = 1
        BY <4>1, FS_Singleton
      <4>3. r.conversions >= 1
        BY <2>1, <4>1 DEF Recorded, Tidy, Has
      <4> QED BY <2>2, <4>2, <4>3
    <3> QED BY <3>2, <3>3
  <2>5. \A k \in Recorded(i, "commission_earned") : log[k].amount <= r.totalEarned
    BY <2>1 DEF Recorded, Tidy
  <2>6. ASSUME log[1].type = "created"
        PROVE  /\ r.conversions > 0 <=> Has(log, "converted")
               /\ r.status = "deactivated" <=> Has(log, "deactivated")
    <3>1. Has(log, "converted") => r.conversions >= 1
      BY <2>1 DEF Tidy
    <3>2. Has(log, "converted") => r.conversions > 0
      BY <2>2, <3>1
    <3> QED BY <2>1, <2>6, <3>2 DEF Tidy
  <2> QED BY <2>3, <2>4, <2>5, <2>6
<1> QED BY <1>1, <1>2 DEF EngineSound

(* The referral engine (referral-engine.js:165, :291): however referrals   *)
(* are created, converted, paid and deactivated, and codes are chosen,     *)
(* drawn and released, the owner of a code is found by it unless the       *)
(* generator did not know of it, and no log tells of more than the         *)
(* counters, although duplicates and old events are missing from it.       *)
THEOREM EngineSoundHolds == EngineSpec => []EngineSound
<1>1. EngineInv /\ [EngineNext]_engineVars => EngineInv'
  <2> SUFFICES ASSUME EngineInv, [EngineNext]_engineVars PROVE EngineInv'
    OBVIOUS
  <2>1. today \in 0 .. MaxDays /\ MaxDays \in Nat
    BY EngineAssumption DEF EngineInv, EngineTypeOK
  <2>2. ASSUME NEW p \in Programs, NEW config \in Configs, createProgram(p, config)
        PROVE  EngineInv'
    BY <2>2, ProgramKeeps DEF createProgram
  <2>3. ASSUME NEW u \in Users, NEW p \in Programs, NEW code \in Codes \cup Chosen,
               NEW drawn \in BOOLEAN, createReferral(u, p, code, drawn)
        PROVE  EngineInv'
    BY <2>3, CreationKeeps
  <2>4. ASSUME NEW u \in Users, createReferralFails(u)
        PROVE  EngineInv'
    BY <2>4, ProgramKeeps, EngineAssumption DEF createReferralFails
  <2>5. ASSUME NEW code \in Codes \cup Chosen, NEW user \in Users, trackConversion(code, user)
        PROVE  EngineInv'
    BY <2>5, ConversionKeeps
  <2>6. ASSUME NEW i \in DOMAIN referrals, NEW amount \in Purchases, processCommission(i, amount)
        PROVE  EngineInv'
    BY <2>6, CommissionKeeps
  <2>7. ASSUME NEW i \in DOMAIN referrals, deactivateReferral(i)
        PROVE  EngineInv'
    BY <2>7, DeactivationKeeps
  <2>8. ASSUME NEW code \in Codes \cup Chosen, releaseCode(code)
        PROVE  EngineInv'
    BY <2>8, ReleaseKeeps
  <2>9. CASE NextDay
    BY <2>1, <2>9, DayKeeps DEF NextDay
  <2>10. CASE UNCHANGED engineVars
    BY <2>1, <2>10, DayKeeps DEF engineVars
  <2> QED BY <2>2, <2>3, <2>4, <2>5, <2>6, <2>7, <2>8, <2>9, <2>10 DEF EngineNext
<1> QED BY EngineInitInv, <1>1, EngineInvSound, PTL DEF EngineSpec

-----------------------------------------------------------------------------
(* Refunds.  Nothing that is looked at before or after the window depends  *)
(* on the day, and the window of a merged policy is a number.              *)
LEMMA SpreadOver ==
  ASSUME NEW f, NEW g, NEW x, x \in DOMAIN f
  PROVE  Over(f, g)[x] = f[x]
BY DEF Over

LEMMA WindowIsNumber ==
  ASSUME NEW product, NEW merchant, NEW category
  PROVE  _mergePolicies(policyStack(product, merchant, category)).returnWindow \in Int
<1> DEFINE stack == policyStack(product, merchant, category)
           x == "returnWindow"
<1>1. x \in DOMAIN DefaultPolicy /\ DefaultPolicy[x] = 14
  BY DEF DefaultPolicy
<1>2. stack[4] = DefaultPolicy
  BY DEF policyStack
<1> HIDE DEF stack, x
<1>3. _mergePolicies(stack)[x] = 14
  BY <1>1, <1>2, SpreadOver DEF _mergePolicies
<1> QED BY <1>3 DEF stack, x

LEMMA EvaluateCloses ==
  ASSUME NEW policy, policy.returnWindow \in Int, NEW days \in Int, NEW facts, NEW price,
         ~evaluate(policy, days, facts, price).eligible
  PROVE  ~evaluate(policy, days + 1, facts, price).eligible
<1>1. \A code : Denied(code).eligible = FALSE
  BY DEF Denied
<1>2. CASE policy.returnWindow = 0 \/ policy.condition = "non_refundable"
  BY <1>1, <1>2 DEF evaluate
<1>3. CASE WindowOver(policy, days)
  <2>1. WindowOver(policy, days + 1)
    BY <1>3 DEF WindowOver
  <2> QED BY <1>1, <2>1 DEF evaluate
<1>4. CASE /\ ~(policy.returnWindow = 0 \/ policy.condition = "non_refundable")
           /\ ~WindowOver(policy, days)
  <2>1. CASE WindowOver(policy, days + 1)
    BY <1>1, <2>1 DEF evaluate
  <2>2. CASE ~WindowOver(policy, days + 1)
    BY <1>4, <2>2 DEF evaluate
  <2> QED BY <2>1, <2>2
<1> QED BY <1>2, <1>3, <1>4

LEMMA ReferenceIsNumber ==
  ASSUME NEW order \in Orders, Reached(order) # {}
  PROVE  _getReferenceDate(order) \in Int
<1>1. \A i \in Reached(order) : i \in Nat /\ Milestones[i] \in DOMAIN order.dates
  BY DEF Reached, Milestones
<1>2. \E i \in Reached(order) : \A j \in Reached(order) : i <= j
  BY <1>1, LeastOf
<1> DEFINE i == CHOOSE i \in Reached(order) : \A j \in Reached(order) : i <= j
<1>3. i \in Reached(order)
  BY <1>2
<1> HIDE DEF i
<1>4. order.dates[Milestones[i]] \in Int
  BY <1>1, <1>3, RefundsAssumption
<1> QED BY <1>4 DEF _getReferenceDate, i

LEMMA LaterIsNoBetter ==
  ASSUME date \in Nat, date' = date + 1, categoryPolicies' = categoryPolicies,
         NEW item \in Items, NEW order \in Orders, NEW n,
         ~Eligible(item, order, n), check(item, order, n, TRUE).code # "INVALID_DATE"
  PROVE  ~Eligible(item, order, n)'
<1> DEFINE merged == _mergePolicies(policyStack(item.policy, order.merchant, item.category))
           days == date - _getReferenceDate(order)
           Early == \/ item.refundStatus = "fully_refunded" \/ item.refundStatus \in {"pending", "processing"}
                    \/ n >= maxRefundAttempts \/ order.status \notin refundableStatuses \cup cancellableStatuses
                    \/ Reached(order) = {}
<1>0. \A code : Denied(code).eligible = FALSE /\ Denied(code).code = code
  BY DEF Denied
<1>1. merged' = merged
  BY DEF _mergePolicies, policyStack, _getCategoryPolicy
<1>2. merged.returnWindow \in Int
  BY WindowIsNumber
<1>3. CASE Early
  BY <1>0, <1>3 DEF Eligible, check
<1>4. CASE ~Early
  <2>1. Reached(order) # {} /\ _getReferenceDate(order) \in Int
    BY <1>4, ReferenceIsNumber
  <2>2. days \in Int /\ days' = days + 1
    BY <2>1
  <2> HIDE DEF merged, days
  <2>3. check(item, order, n, TRUE) = IF days < 0 THEN Denied("INVALID_DATE")
                                      ELSE evaluate(merged, days, item.facts, item.price)
    BY <1>4 DEF check, merged, days
  <2>4. check(item, order, n, TRUE)' = IF days' < 0 THEN Denied("INVALID_DATE")
                                       ELSE evaluate(merged, days', item.facts, item.price)
    <3>1. check(item, order, n, TRUE)' = IF days' < 0 THEN Denied("INVALID_DATE")
                                         ELSE evaluate(merged', days', item.facts, item.price)
      BY <1>4 DEF check, merged, days
    <3> QED BY <1>1, <3>1
  <2>5. ~(days < 0) /\ ~(days' < 0)
    <3>1. ~(days < 0)
      <4> SUFFICES ASSUME days < 0 PROVE FALSE
        OBVIOUS
      <4>1. check(item, order, n, TRUE) = Denied("INVALID_DATE")
        BY <2>3
      <4> QED BY <1>0, <4>1
    <3> QED BY <2>2, <3>1
  <2>6. ~evaluate(merged, days, item.facts, item.price).eligible
    BY <2>3, <2>5 DEF Eligible
  <2>7. ~evaluate(merged, days + 1, item.facts, item.price).eligible
    BY <1>2, <2>2, <2>6, EvaluateCloses
  <2> QED BY <2>2, <2>4, <2>5, <2>7 DEF Eligible
<1> QED BY <1>3, <1>4

LEMMA FewerIsNoWorse ==
  ASSUME NEW item, NEW order, NEW n \in 0 .. maxRefundAttempts, n > 0, Eligible(item, order, n)
  PROVE  Eligible(item, order, n - 1)
<1>0. \A code : Denied(code).eligible = FALSE
  BY DEF Denied
<1>1. n \in Int /\ ~(n >= maxRefundAttempts) /\ ~(n - 1 >= maxRefundAttempts)
  BY <1>0 DEF Eligible, check, maxRefundAttempts
<1> QED BY <1>0, <1>1 DEF Eligible, check

-----------------------------------------------------------------------------
(* Routes.  Of some places one comes first, and Earlier is a total order.  *)
LEMMA PlaceType ==
  ASSUME NEW list \in Seq(RouteType), NEW i \in DOMAIN list
  PROVE  i \in Nat /\ list[i].priority \in Nat
<1>1. i \in Nat /\ list[i] \in RouteType
  OBVIOUS
<1> QED BY <1>1 DEF RouteType

LEMMA EarlierOrders ==
  ASSUME NEW list \in Seq(RouteType), NEW i \in DOMAIN list, NEW j \in DOMAIN list
  PROVE  /\ i = j \/ Earlier(list, i, j) \/ Earlier(list, j, i)
         /\ ~(Earlier(list, i, j) /\ Earlier(list, j, i))
         /\ ~Earlier(list, i, i)
<1>1. i \in Nat /\ j \in Nat /\ list[i].priority \in Nat /\ list[j].priority \in Nat
  BY PlaceType
<1> QED BY <1>1 DEF Earlier

LEMMA EarlierTwice ==
  ASSUME NEW list \in Seq(RouteType), NEW i \in DOMAIN list, NEW j \in DOMAIN list, NEW k \in DOMAIN list,
         Earlier(list, i, j), Earlier(list, j, k)
  PROVE  Earlier(list, i, k)
<1>1. /\ i \in Nat /\ j \in Nat /\ k \in Nat
      /\ list[i].priority \in Nat /\ list[j].priority \in Nat /\ list[k].priority \in Nat
  BY PlaceType
<1> QED BY <1>1 DEF Earlier

LEMMA SomeFirst ==
  ASSUME NEW list \in Seq(RouteType), NEW S, S # {}, \A i \in S : i \in DOMAIN list
  PROVE  \E i \in S : FirstByPriority(list, S) = {i}
<1>1. \A i \in S : i \in Nat /\ list[i].priority \in Nat
  BY PlaceType
<1> DEFINE P == {list[i].priority : i \in S}
<1>2. PICK p \in P : \A q \in P : p <= q
  BY <1>1, LeastOf
<1> DEFINE T == {i \in S : list[i].priority = p}
<1>3. T # {} /\ \A i \in T : i \in Nat
  BY <1>1, <1>2
<1> HIDE DEF P
<1>4. PICK i \in T : \A j \in T : i <= j
  BY <1>3, LeastOf
<1>5. i \in S /\ list[i].priority = p
  BY <1>4
<1>6. ASSUME NEW j \in S, j # i PROVE Earlier(list, i, j)
  <2>1. list[j].priority \in Nat /\ p <= list[j].priority /\ p \in Nat
    BY <1>1, <1>2, <1>5 DEF P
  <2>2. CASE list[j].priority = p
    BY <1>1, <1>4, <1>5, <1>6, <2>2 DEF Earlier
  <2>3. CASE list[j].priority # p
    BY <1>5, <2>1, <2>3 DEF Earlier
  <2> QED BY <2>2, <2>3
<1>7. \A j \in FirstByPriority(list, S) : j = i
  BY <1>5, <1>6, EarlierOrders DEF FirstByPriority
<1>8. i \in FirstByPriority(list, S)
  BY <1>5, <1>6 DEF FirstByPriority
<1> QED BY <1>5, <1>7, <1>8

(* The answer: the first of the preferred routes, or the best one.         *)
Answering(list, U, r) ==
  IF \E i \in U : list[i].method = r.preferred
  THEN {i \in U : list[i].method = r.preferred /\ \A j \in U : list[j].method = r.preferred => i <= j}
  ELSE FirstByPriority(list, U)

LEMMA ChosenOne ==
  ASSUME NEW list \in Seq(RouteType), NEW U, U # {}, \A i \in U : i \in DOMAIN list, NEW r
  PROVE  \E i \in U : Answering(list, U, r) = {i}
<1>1. CASE \E i \in U : list[i].method = r.preferred
  <2> DEFINE T == {i \in U : list[i].method = r.preferred}
  <2>1. T # {} /\ \A i \in T : i \in Nat
    BY <1>1
  <2>2. PICK i \in T : \A j \in T : i <= j
    BY <2>1, LeastOf
  <2>3. i \in Answering(list, U, r) /\ i \in U
    BY <1>1, <2>2 DEF Answering
  <2>4. ASSUME NEW k \in Answering(list, U, r) PROVE k = i
    <3>1. k \in T /\ k <= i
      BY <1>1, <2>2, <2>4 DEF Answering
    <3> QED BY <2>1, <2>2, <3>1
  <2> QED BY <2>3, <2>4
<1>2. CASE ~\E i \in U : list[i].method = r.preferred
  BY <1>2, SomeFirst DEF Answering
<1> QED BY <1>1, <1>2

IsAnswer(answer, list, U, r) ==
  /\ U = {} => answer = Manual
  /\ U # {} => \E i \in U : Answering(list, U, r) = {i} /\ answer = list[i]

LEMMA RouteIsChosen ==
  ASSUME NEW table, NEW r, NEW list, list = table[r.paidBy], NEW U, U = Available(table, r),
         list \in Seq(RouteType)
  PROVE  IsAnswer(Route(table, r), list, U, r)
<1>1. \A i \in U : i \in DOMAIN list
  BY DEF Available
<1>2. Preferred(table, r) = {i \in U : list[i].method = r.preferred}
  BY DEF Preferred
<1>3. Route(table, r) = IF Answering(list, U, r) = {} THEN Manual ELSE list[CHOOSE i \in Answering(list, U, r) : TRUE]
  <2>1. CASE \E i \in U : list[i].method = r.preferred
    <3>1. Preferred(table, r) # {}
      BY <1>2, <2>1
    <3> DEFINE P == {i \in Preferred(table, r) : \A j \in Preferred(table, r) : i <= j}
    <3>2. Route(table, r) = IF P = {} THEN Manual ELSE list[CHOOSE i \in P : TRUE]
      BY <3>1 DEF Route
    <3>3. P = Answering(list, U, r)
      BY <1>2, <2>1 DEF Answering
    <3> HIDE DEF P
    <3> QED BY <3>2, <3>3
  <2>2. CASE ~\E i \in U : list[i].method = r.preferred
    <3>1. Preferred(table, r) = {}
      BY <1>2, <2>2
    <3>2. Route(table, r) = IF FirstByPriority(list, U) = {} THEN Manual
                            ELSE list[CHOOSE i \in FirstByPriority(list, U) : TRUE]
      BY <3>1 DEF Route
    <3>3. Answering(list, U, r) = FirstByPriority(list, U)
      BY <2>2 DEF Answering
    <3> QED BY <3>2, <3>3
  <2> QED BY <2>1, <2>2
<1>4. ASSUME U = {} PROVE Route(table, r) = Manual
  <2>1. Answering(list, U, r) = {}
    BY <1>4 DEF Answering, FirstByPriority
  <2> QED BY <1>3, <2>1
<1>5. ASSUME U # {} PROVE \E i \in U : Answering(list, U, r) = {i} /\ Route(table, r) = list[i]
  <2>1. PICK i \in U : Answering(list, U, r) = {i}
    BY <1>1, <1>5, ChosenOne
  <2> QED BY <1>3, <2>1
<1> QED BY <1>4, <1>5 DEF IsAnswer

(* The answer is the preferred route or the best one.                      *)
LEMMA RouteBestIn ==
  ASSUME NEW table \in [PaymentMethods -> Seq(RouteType)], NEW r \in Requests,
         NEW list, list = table[r.paidBy],
         NEW U, U = {i \in DOMAIN list : r.allowed # {} => list[i].method \in r.allowed}
  PROVE  IF U = {} THEN Route(table, r) = Manual
         ELSE \E i \in U : /\ Route(table, r) = list[i]
                           /\ \/ Route(table, r).method = r.preferred
                              \/ \A j \in U : /\ list[j].method # r.preferred
                                              /\ Route(table, r).priority <= list[j].priority
<1>1. r.paidBy \in PaymentMethods
  BY DEF Requests
<1>2. list \in Seq(RouteType)
  BY <1>1
<1>3. U = Available(table, r) /\ \A i \in U : i \in DOMAIN list
  BY DEF Available
<1>0. IsAnswer(Route(table, r), list, U, r)
  BY <1>2, <1>3, RouteIsChosen
<1>4. CASE U = {}
  BY <1>0, <1>4 DEF IsAnswer
<1>5. CASE U # {}
  <2>1. PICK i \in U : Answering(list, U, r) = {i} /\ Route(table, r) = list[i]
    BY <1>0, <1>5 DEF IsAnswer
  <2>2. CASE \E j \in U : list[j].method = r.preferred
    <3>1. list[i].method = r.preferred
      BY <2>1, <2>2 DEF Answering
    <3> QED BY <1>5, <2>1, <3>1
  <2>3. CASE ~\E j \in U : list[j].method = r.preferred
    <3>1. \A j \in U \ {i} : Earlier(list, i, j)
      BY <2>1, <2>3 DEF Answering, FirstByPriority
    <3>2. \A j \in U : list[i].priority \in Nat /\ list[j].priority \in Nat
      BY <1>2, <1>3, PlaceType
    <3>3. \A j \in U : list[i].priority <= list[j].priority
      BY <3>1, <3>2 DEF Earlier
    <3> QED BY <1>5, <2>1, <2>3, <3>3
  <2> QED BY <2>2, <2>3
<1> QED BY <1>4, <1>5

LEMMA RouteBest ==
  ASSUME routingMap \in [PaymentMethods -> Seq(RouteType)]
  PROVE  RouteIsBest
<1> SUFFICES ASSUME NEW r \in Requests
             PROVE  LET chosen == Route(routingMap, r)
                        usable == {i \in DOMAIN routingMap[r.paidBy] :
                                     r.allowed # {} => routingMap[r.paidBy][i].method \in r.allowed}
                    IN  IF usable = {} THEN chosen = Manual
                        ELSE \E i \in usable :
                               /\ chosen = routingMap[r.paidBy][i]
                               /\ \/ chosen.method = r.preferred
                                  \/ \A j \in usable :
                                       /\ routingMap[r.paidBy][j].method # r.preferred
                                       /\ chosen.priority <= routingMap[r.paidBy][j].priority
  BY DEF RouteIsBest
<1> QED BY RouteBestIn

-----------------------------------------------------------------------------
(* Sorting.  The rank of a place counts the places before it; it is one to *)
(* one, so every place has a rank and every rank a place.                  *)
PlacesBefore(list, i) == {j \in DOMAIN list : Earlier(list, j, i)}
RankOf(list, i) == 1 + Cardinality(PlacesBefore(list, i))

LEMMA RankType ==
  ASSUME NEW list \in Seq(RouteType), NEW i \in DOMAIN list
  PROVE  RankOf(list, i) \in 1 .. Len(list) /\ IsFiniteSet(PlacesBefore(list, i))
<1> DEFINE N == Len(list)
           D == 1 .. N
           b == Cardinality(PlacesBefore(list, i))
<1>1. N \in Nat /\ DOMAIN list = D /\ i \in D
  OBVIOUS
<1> HIDE DEF N
<1>2. IsFiniteSet(D) /\ Cardinality(D) = N
  <2>1. 1 \in Int /\ N \in Int
    BY <1>1
  <2>2. IsFiniteSet(D) /\ Cardinality(D) = IF 1 > N THEN 0 ELSE N - 1 + 1
    BY <2>1, FS_Interval
  <2> QED BY <1>1, <2>2
<1> HIDE DEF D
<1>3. PlacesBefore(list, i) \in SUBSET (D \ {i})
  BY <1>1, EarlierOrders DEF PlacesBefore
<1>4. IsFiniteSet(D \ {i}) /\ Cardinality(D \ {i}) = N - 1
  BY <1>1, <1>2, FS_RemoveElement
<1>5. IsFiniteSet(PlacesBefore(list, i)) /\ b <= N - 1
  BY <1>3, <1>4, FS_Subset
<1>6. b \in Nat
  BY <1>5, FS_CardinalityType
<1>7. RankOf(list, i) = 1 + b
  BY DEF RankOf
<1> HIDE DEF b
<1>8. 1 + b \in 1 .. N
  BY <1>1, <1>5, <1>6
<1> QED BY <1>5, <1>7, <1>8 DEF N

LEMMA RankGrows ==
  ASSUME NEW list \in Seq(RouteType), NEW i \in DOMAIN list, NEW j \in DOMAIN list, Earlier(list, i, j)
  PROVE  RankOf(list, i) < RankOf(list, j)
<1>1. PlacesBefore(list, i) \subseteq PlacesBefore(list, j)
  BY EarlierTwice DEF PlacesBefore
<1>2. i \in PlacesBefore(list, j) /\ i \notin PlacesBefore(list, i)
  BY EarlierOrders DEF PlacesBefore
<1>3. IsFiniteSet(PlacesBefore(list, j)) /\ IsFiniteSet(PlacesBefore(list, i))
  BY RankType
<1>4. Cardinality(PlacesBefore(list, i)) <= Cardinality(PlacesBefore(list, j))
      /\ (Cardinality(PlacesBefore(list, i)) = Cardinality(PlacesBefore(list, j)) => PlacesBefore(list, i) = PlacesBefore(list, j))
  BY <1>1, <1>3, FS_Subset
<1>5. Cardinality(PlacesBefore(list, i)) \in Nat /\ Cardinality(PlacesBefore(list, j)) \in Nat
  BY <1>3, FS_CardinalityType
<1> QED BY <1>2, <1>4, <1>5 DEF RankOf

LEMMA RankedPlaces ==
  ASSUME NEW list \in Seq(RouteType)
  PROVE  /\ \A i, j \in DOMAIN list : RankOf(list, i) = RankOf(list, j) => i = j
         /\ \A n \in DOMAIN list : \E i \in DOMAIN list : RankOf(list, i) = n
<1> DEFINE D == 1 .. Len(list)
           rank == [i \in D |-> RankOf(list, i)]
<1>1. Len(list) \in Nat /\ DOMAIN list = D
  OBVIOUS
<1>2. \A i \in D : RankOf(list, i) \in D
  BY <1>1, RankType
<1>3. ASSUME NEW i \in D, NEW j \in D, RankOf(list, i) = RankOf(list, j) PROVE i = j
  <2>1. RankOf(list, i) \in Int /\ RankOf(list, j) \in Int
    BY <1>2
  <2>2. ~Earlier(list, i, j)
    BY <1>1, <1>3, <2>1, RankGrows
  <2>3. ~Earlier(list, j, i)
    BY <1>1, <1>3, <2>1, RankGrows
  <2> QED BY <1>1, <2>2, <2>3, EarlierOrders
<1>4. IsFiniteSet(D)
  BY <1>1, FS_Interval
<1>5. rank \in [D -> D] /\ \A i \in D : rank[i] = RankOf(list, i)
  BY <1>2
<1> HIDE DEF rank, D
<1>6. rank \in Injection(D, D)
  BY <1>3, <1>5, Fun_IsInj
<1>7. rank \in Surjection(D, D)
  BY <1>4, <1>6, FS_Injection
<1>8. \A n \in D : \E i \in D : rank[i] = n
  BY <1>7, Fun_SurjectionProperties
<1> QED BY <1>1, <1>3, <1>5, <1>8

\* The places of a list in the order of another one.
Reorders(list, sorted, place) ==
  /\ DOMAIN sorted = DOMAIN list
  /\ \A n \in DOMAIN list : place[n] \in DOMAIN list /\ sorted[n] = list[place[n]]
  /\ \A i \in DOMAIN list : \E n \in DOMAIN list : place[n] = i
  /\ \A n, m \in DOMAIN list : n < m => Earlier(list, place[n], place[m])

LEMMA SortedReorders ==
  ASSUME NEW list \in Seq(RouteType)
  PROVE  ByPriority(list) \in Seq(RouteType) /\ \E place : Reorders(list, ByPriority(list), place)
<1> DEFINE D == DOMAIN list
           place == [n \in D |-> CHOOSE i \in D : RankOf(list, i) = n]
           sorted == [n \in D |-> list[CHOOSE i \in D : RankOf(list, i) = n]]
<1>1. D = 1 .. Len(list) /\ Len(list) \in Nat /\ \A i \in D : list[i] \in RouteType
  OBVIOUS
<1>2. ByPriority(list) = sorted
  BY DEF ByPriority, RankOf, PlacesBefore
<1>3. \A n \in D : place[n] \in D /\ RankOf(list, place[n]) = n /\ sorted[n] = list[place[n]]
  BY RankedPlaces
<1>4. DOMAIN sorted = D
  OBVIOUS
<1> HIDE DEF place, sorted
<1>5. \A i \in D : RankOf(list, i) \in D
  BY <1>1, RankType
<1>6. \A i \in D : \E n \in D : place[n] = i
  BY <1>3, <1>5, RankedPlaces
<1>7. ASSUME NEW n \in D, NEW m \in D, n < m PROVE Earlier(list, place[n], place[m])
  <2>1. n \in Nat /\ m \in Nat /\ place[n] \in D /\ place[m] \in D /\ place[n] # place[m]
    BY <1>1, <1>3, <1>7
  <2>2. ~Earlier(list, place[m], place[n])
    BY <1>3, <1>7, <2>1, RankGrows
  <2> QED BY <2>1, <2>2, EarlierOrders
<1>8. sorted \in Seq(RouteType)
  <2>1. sorted = [n \in 1 .. Len(list) |-> list[CHOOSE i \in D : RankOf(list, i) = n]]
    BY <1>1 DEF sorted
  <2>2. \A n \in 1 .. Len(list) : list[CHOOSE i \in D : RankOf(list, i) = n] \in RouteType
    BY <1>1, <1>3 DEF place
  <2>3. sorted \in [1 .. Len(list) -> RouteType]
    BY <2>1, <2>2
  <2> QED BY <1>1, <2>3
<1>9. Reorders(list, sorted, place)
  BY <1>3, <1>4, <1>6, <1>7 DEF Reorders
<1> QED BY <1>2, <1>8, <1>9

(* Sorting a list whose routes differ in their methods changes no answer.  *)
OneOfEach(list) == \A i, j \in DOMAIN list : list[i].method = list[j].method => i = j
Meets(V, list, U, place) == \A m : m \in V <=> m \in DOMAIN list /\ place[m] \in U

PicksOnly(list, U, r, i) == Answering(list, U, r) = {i}

LEMMA ChosenSame ==
  ASSUME NEW list \in Seq(RouteType), NEW sorted \in Seq(RouteType), NEW place, NEW U, NEW V, NEW r,
         NEW n \in V, Reorders(list, sorted, place), OneOfEach(list), \A i \in U : i \in DOMAIN list,
         Meets(V, list, U, place), PicksOnly(sorted, V, r, n)
  PROVE  PicksOnly(list, U, r, place[n])
<1>6. Answering(sorted, V, r) = {n}
  BY DEF PicksOnly
<1>4. \A i, j \in DOMAIN list : list[i].method = list[j].method => i = j
  BY DEF OneOfEach
<1>5. \A m : m \in V <=> m \in DOMAIN list /\ place[m] \in U
  BY DEF Meets
<1>0. /\ DOMAIN sorted = DOMAIN list
      /\ \A m \in DOMAIN list : sorted[m] = list[place[m]]
      /\ \A i \in DOMAIN list : \E m \in DOMAIN list : place[m] = i
  BY DEF Reorders
<1>1. /\ place[n] \in U /\ \A i \in U : \E m \in V : place[m] = i
      /\ \A m \in V : m \in DOMAIN list /\ sorted[m] = list[place[m]] /\ place[m] \in U
      /\ DOMAIN sorted = DOMAIN list
  <2>1. place[n] \in U /\ \A m \in V : m \in DOMAIN list /\ place[m] \in U
    BY DEF Meets
  <2>2. \A i \in U : \E m \in V : place[m] = i
    BY <1>0, <1>5
  <2> QED BY <1>0, <2>1, <2>2
<1>2. CASE \E i \in U : list[i].method = r.preferred
  <2>1. \E m \in V : sorted[m].method = r.preferred
    BY <1>1, <1>2
  <2>2. sorted[n].method = r.preferred
    BY <1>6, <2>1 DEF Answering
  <2>3. list[place[n]].method = r.preferred
    BY <1>1, <2>2
  <2>4. \A i \in U : list[i].method = r.preferred => i = place[n]
    BY <1>1, <1>4, <2>3
  <2>5. place[n] \in Int
    BY <1>1
  <2> QED BY <1>1, <1>2, <2>3, <2>4, <2>5 DEF Answering, PicksOnly
<1>3. CASE ~\E i \in U : list[i].method = r.preferred
  <2>1. ~\E m \in V : sorted[m].method = r.preferred
    BY <1>1, <1>3
  <2>2. \A m \in V \ {n} : Earlier(sorted, n, m)
    BY <1>6, <2>1 DEF Answering, FirstByPriority
  <2>3. ASSUME NEW i \in U, i # place[n] PROVE Earlier(list, place[n], i)
    <3>1. PICK m \in V : place[m] = i
      BY <1>1
    <3>2. m # n /\ Earlier(sorted, n, m)
      BY <2>2, <2>3, <3>1
    <3>3. m \in DOMAIN list /\ n \in DOMAIN list /\ m \in Nat /\ n \in Nat
      BY <1>1
    <3>4. CASE n < m
      BY <3>1, <3>3, <3>4 DEF Reorders
    <3>5. CASE ~(n < m)
      <4>1. sorted[n].priority < sorted[m].priority
        BY <3>2, <3>5 DEF Earlier
      <4> QED BY <1>1, <3>1, <4>1 DEF Earlier
    <3> QED BY <3>4, <3>5
  <2>4. place[n] \in FirstByPriority(list, U)
    BY <1>1, <2>3 DEF FirstByPriority
  <2>5. \A i \in FirstByPriority(list, U) : i = place[n]
    BY <1>1, <2>3, EarlierOrders DEF FirstByPriority
  <2> QED BY <1>3, <2>4, <2>5 DEF Answering, PicksOnly
<1> QED BY <1>2, <1>3

LEMMA AnswersSame ==
  ASSUME NEW list \in Seq(RouteType), NEW sorted \in Seq(RouteType), NEW place, NEW U, NEW V, NEW r,
         NEW answer, NEW again,
         Reorders(list, sorted, place), OneOfEach(list), \A i \in U : i \in DOMAIN list,
         Meets(V, list, U, place), IsAnswer(answer, list, U, r), IsAnswer(again, sorted, V, r)
  PROVE  again = answer
<1>1. /\ \A n \in DOMAIN list : sorted[n] = list[place[n]]
      /\ \A i \in DOMAIN list : \E n \in DOMAIN list : place[n] = i
  BY DEF Reorders
<1>2. \A m : m \in V <=> m \in DOMAIN list /\ place[m] \in U
  BY DEF Meets
<1>3. CASE U = {}
  <2>1. V = {}
    BY <1>2, <1>3
  <2> QED BY <1>3, <2>1 DEF IsAnswer
<1>4. CASE U # {}
  <2>1. V # {}
    BY <1>1, <1>2, <1>4
  <2>2. PICK n \in V : Answering(sorted, V, r) = {n} /\ again = sorted[n]
    BY <2>1 DEF IsAnswer
  <2>3. PICK i \in U : Answering(list, U, r) = {i} /\ answer = list[i]
    BY <1>4 DEF IsAnswer
  <2>4. PicksOnly(list, U, r, place[n])
    <3>1. PicksOnly(sorted, V, r, n)
      BY <2>2 DEF PicksOnly
    <3> QED BY <3>1, ChosenSame
  <2>5. i = place[n] /\ n \in DOMAIN list
    BY <1>2, <2>3, <2>4 DEF PicksOnly
  <2> QED BY <1>1, <2>2, <2>3, <2>5
<1> QED BY <1>3, <1>4

LEMMA SortingIsHarmless ==
  ASSUME NEW table \in [PaymentMethods -> Seq(RouteType)], NEW asked \in Requests, NEW r \in Requests,
         \A i, j \in DOMAIN table[r.paidBy] : table[r.paidBy][i].method = table[r.paidBy][j].method => i = j
  PROVE  Route(Sorted(table, asked), r) = Route(table, r)
<1> DEFINE new == Sorted(table, asked)
           list == table[r.paidBy]
           sorted == new[r.paidBy]
<1>1. r.paidBy \in PaymentMethods /\ asked.paidBy \in PaymentMethods /\ list \in Seq(RouteType)
  BY DEF Requests
<1>2. sorted = list \/ sorted = ByPriority(list)
  BY <1>1 DEF Sorted
<1>3. OneOfEach(list)
  BY DEF OneOfEach
<1> HIDE DEF new, list, sorted
<1>4. CASE sorted = list
  <2>1. Available(new, r) = Available(table, r) /\ Preferred(new, r) = Preferred(table, r)
    BY <1>4 DEF Available, Preferred, sorted, list
  <2> QED BY <1>4, <2>1 DEF Route, sorted, list, new
<1>5. CASE sorted = ByPriority(list)
  <2>1. sorted \in Seq(RouteType)
    BY <1>1, <1>5, SortedReorders
  <2>2. PICK place : Reorders(list, sorted, place)
    BY <1>1, <1>5, SortedReorders
  <2> DEFINE U == Available(table, r)
             V == Available(new, r)
  <2>3. \A i \in U : i \in DOMAIN list
    BY DEF Available, list
  <2>8. /\ DOMAIN sorted = DOMAIN list
        /\ \A n \in DOMAIN list : place[n] \in DOMAIN list /\ sorted[n] = list[place[n]]
    BY <2>2 DEF Reorders
  <2>9. V = {n \in DOMAIN sorted : r.allowed # {} => sorted[n].method \in r.allowed}
    BY DEF Available, sorted
  <2>10. U = {i \in DOMAIN list : r.allowed # {} => list[i].method \in r.allowed}
    BY DEF Available, list
  <2>4. V = {n \in DOMAIN list : place[n] \in U}
    <3> HIDE DEF U, V
    <3> QED BY <2>8, <2>9, <2>10
  <2>13. \A m : m \in V <=> m \in DOMAIN list /\ place[m] \in U
    <3> HIDE DEF U, V
    <3> QED BY <2>4
  <2>15. Meets(V, list, U, place)
    BY <2>13 DEF Meets
  <2>11. IsAnswer(Route(new, r), sorted, V, r)
    BY <2>1, RouteIsChosen DEF sorted
  <2>12. IsAnswer(Route(table, r), list, U, r)
    BY <1>1, RouteIsChosen DEF list
  <2> HIDE DEF U, V
  <2>16. Route(new, r) = Route(table, r)
    BY <1>1, <1>3, <2>1, <2>2, <2>3, <2>11, <2>12, <2>15, AnswersSame
  <2> QED BY <2>16 DEF new
<1> QED BY <1>2, <1>4, <1>5

-----------------------------------------------------------------------------
RefundsInv == routingMap \in [PaymentMethods -> Seq(RouteType)] /\ date \in Nat

LEMMA RefundsStart == RefundsInit => RefundsInv
<1> SUFFICES ASSUME RefundsInit PROVE RefundsInv
  OBVIOUS
<1>1. RoutingDefaults \in [PaymentMethods -> Seq(RouteType)]
  <2> DEFINE P(method, priority) == [method |-> method, priority |-> priority]
             card == <<P("card_refund", 1), P("wallet_credit", 2), P("store_credit", 3)>>
             bank == <<P("bank_transfer", 1), P("wallet_credit", 2)>>
  <2>1. \A method \in Methods, n \in Nat : P(method, n) \in RouteType
    BY DEF RouteType
  <2>2. "card_refund" \in Methods /\ "wallet_credit" \in Methods /\ "store_credit" \in Methods
        /\ "bank_transfer" \in Methods
    BY DEF Methods
  <2>3. RoutingDefaults = [card |-> card, bank_transfer |-> bank]
    BY DEF RoutingDefaults
  <2> HIDE DEF P
  <2>4. card \in Seq(RouteType) /\ bank \in Seq(RouteType)
    BY <2>1, <2>2
  <2> HIDE DEF card, bank
  <2> QED BY <2>3, <2>4 DEF PaymentMethods
<1> QED BY <1>1 DEF RefundsInit, RefundsInv

LEMMA RefundsStep == RefundsInv /\ [RefundsNext]_refundsVars => RefundsInv'
<1> SUFFICES ASSUME RefundsInv, [RefundsNext]_refundsVars PROVE RefundsInv'
  OBVIOUS
<1>1. ASSUME NEW c \in Updatable, NEW p \in CustomPolicies, setCategoryPolicy(c, p) PROVE RefundsInv'
  BY <1>1 DEF setCategoryPolicy, RefundsInv
<1>2. ASSUME DayPasses PROVE RefundsInv'
  BY <1>2 DEF DayPasses, RefundsInv
<1>3. ASSUME NEW m \in PaymentMethods, NEW routes \in RouteLists, setRoutes(m, routes) PROVE RefundsInv'
  BY <1>3, RefundsAssumption DEF setRoutes, RefundsInv
<1>4. ASSUME NEW r \in Requests, route(r) PROVE RefundsInv'
  <2>1. r.paidBy \in PaymentMethods
    BY DEF Requests
  <2>2. ByPriority(routingMap[r.paidBy]) \in Seq(RouteType)
    BY <2>1, SortedReorders DEF RefundsInv
  <2>3. Sorted(routingMap, r) \in [PaymentMethods -> Seq(RouteType)]
    BY <2>1, <2>2 DEF Sorted, RefundsInv
  <2> QED BY <1>4, <2>3 DEF route, RefundsInv
<1>5. CASE UNCHANGED refundsVars
  BY <1>5 DEF refundsVars, RefundsInv
<1> QED BY <1>1, <1>2, <1>3, <1>4, <1>5 DEF RefundsNext, PolicyNext, RoutingNext

LEMMA RefundsDays ==
  ASSUME RefundsInv, [RefundsNext]_refundsVars, date' # date
  PROVE  date' = date + 1 /\ categoryPolicies' = categoryPolicies
<1>1. \A c, p : setCategoryPolicy(c, p) => date' = date
  BY DEF setCategoryPolicy
<1>2. \A m, routes : setRoutes(m, routes) => date' = date
  BY DEF setRoutes
<1>3. \A r : route(r) => date' = date
  BY DEF route
<1>4. UNCHANGED refundsVars => date' = date
  BY DEF refundsVars
<1>5. DayPasses
  BY <1>1, <1>2, <1>3, <1>4 DEF RefundsNext, PolicyNext, RoutingNext
<1> QED BY <1>5 DEF DayPasses

(* Refunds (refund-eligibility-checker.js:52, refund-method-router.js:86): *)
(* whatever policies and routes are set while refunds are asked for, a     *)
(* refused refund is not granted on a later day, the answered route is the *)
(* preferred or the best one the policy allows, and asking for one, which  *)
(* may sort the shared table, changes no later answer.                     *)
THEOREM RefusalsStandHolds == RefundsSpec => RefusalsStand
<1>1. RefundsInv => RouteIsBest
  BY RouteBest DEF RefundsInv
<1>2. RefundsInv' => RouteIsBest'
  BY <1>1, PTL
<1>3. RefundsInv /\ [RefundsNext]_refundsVars =>
        [date' # date =>
           \A item \in Items, order \in Orders, n \in 0 .. maxRefundAttempts :
             /\ /\ ~Eligible(item, order, n)
                /\ check(item, order, n, TRUE).code # "INVALID_DATE"
                => ~Eligible(item, order, n)'
             /\ n > 0 /\ Eligible(item, order, n) => Eligible(item, order, n - 1)]_refundsVars
  BY RefundsDays, LaterIsNoBetter, FewerIsNoWorse DEF RefundsInv
<1>4. RefundsInv =>
        [routingMap' # routingMap /\ (\E asked \in Requests : routingMap' = Sorted(routingMap, asked)) =>
           \A r \in Requests :
             LET list == routingMap[r.paidBy]
             IN  (\A i, j \in DOMAIN list : list[i].method = list[j].method => i = j)
                   => Route(routingMap', r) = Route(routingMap, r)]_refundsVars
  BY SortingIsHarmless DEF RefundsInv
<1>5. RefundsInv' => [routingMap' # routingMap => RouteIsBest']_refundsVars
  BY <1>2
<1> QED BY <1>1, <1>3, <1>4, <1>5, RefundsStart, RefundsStep, PTL
        DEF RefundsSpec, RefusalsStand, NeverReopens, AskingIsHarmless

-----------------------------------------------------------------------------
(* The referral network.  Three recursions over the levels: up from a user,*)
(* down to those below, and along the loop of the commissions.             *)
IsUpline(up, u) ==
  /\ up \in [0 .. maxDepth -> People \cup {Nobody}] /\ up[0] = u
  /\ \A k \in 1 .. maxDepth : up[k] = IF up[k - 1] = Nobody THEN Nobody ELSE network[up[k - 1]]

IsDownline(down, u) ==
  /\ down \in [0 .. maxDepth -> SUBSET People] /\ down[0] = {u}
  /\ \A k \in 1 .. maxDepth : down[k] = {c \in People : network[c] \in down[k - 1]}

LEMMA UplineIs ==
  ASSUME NetworkTypeOK, NEW u \in People
  PROVE  IsUpline(Upline(u), u)
<1> DEFINE N == maxDepth
           X == People \cup {Nobody}
           st == [n \in 1 .. N |-> [x \in X |-> IF x = Nobody THEN Nobody ELSE network[x]]]
           Body(up) == [k \in 0 .. N |-> IF k = 0 THEN u
                          ELSE IF up[k - 1] = Nobody THEN Nobody ELSE network[up[k - 1]]]
<1>0. N \in Nat /\ u \in X
  BY NetworkAssumption
<1>1. \A x \in X : (IF x = Nobody THEN Nobody ELSE network[x]) \in X
  BY DEF NetworkTypeOK
<1>2. st \in [1 .. N -> [X -> X]]
  BY <1>1
<1>3. \A n \in 1 .. N, x \in X : st[n][x] = IF x = Nobody THEN Nobody ELSE network[x]
  OBVIOUS
<1>4. Upline(u) = CHOOSE up : up = Body(up)
  BY DEF Upline
<1> HIDE DEF st, N, X
<1>5. \E f \in [0 .. N -> X] : Solves(f, N, u, st)
  BY <1>0, <1>2, Recursion, Zenon
<1>6. PICK f \in [0 .. N -> X] : f[0] = u /\ \A n \in 1 .. N : f[n] = st[n][f[n - 1]]
  BY <1>5 DEF Solves
<1>7. \A n \in 1 .. N : n - 1 \in 0 .. N /\ n \in 0 .. N /\ n # 0
  BY <1>0
<1>8. \A n \in 0 .. N : n = 0 \/ n \in 1 .. N
  BY <1>0
<1>9. \A n \in 1 .. N : f[n] = IF f[n - 1] = Nobody THEN Nobody ELSE network[f[n - 1]]
  BY <1>3, <1>6, <1>7
<1>10. f = Body(f)
  <2>1. \A n \in 0 .. N : f[n] = Body(f)[n]
    BY <1>6, <1>8, <1>9
  <2> QED BY <1>6, <2>1
<1> DEFINE h == CHOOSE up : up = Body(up)
<1>11. h = Body(h)
  BY <1>10
<1> HIDE DEF h
<1>12. h[0] = u /\ \A n \in 1 .. N : h[n] = IF h[n - 1] = Nobody THEN Nobody ELSE network[h[n - 1]]
  <2>1. 0 \in 0 .. N
    BY <1>0
  <2>2. h[0] = Body(h)[0] /\ \A n \in 1 .. N : h[n] = Body(h)[n]
    BY <1>11
  <2>3. Body(h)[0] = u /\ \A n \in 1 .. N : Body(h)[n] =
          IF h[n - 1] = Nobody THEN Nobody ELSE network[h[n - 1]]
    BY <1>7, <2>1
  <2> HIDE DEF Body
  <2> QED BY <2>2, <2>3
<1> DEFINE U == {n \in 0 .. N : h[n] \in X}
<1>13. 0 \in U
  BY <1>0, <1>12
<1>14. ASSUME NEW n \in 0 .. N, n < N, n \in U PROVE n + 1 \in U
  <2>1. n + 1 \in 1 .. N /\ n + 1 \in 0 .. N /\ (n + 1) - 1 = n
    BY <1>0, <1>14
  <2>2. h[n + 1] = IF h[n] = Nobody THEN Nobody ELSE network[h[n]]
    BY <1>12, <2>1
  <2> QED BY <1>1, <1>14, <2>1, <2>2 DEF X
<1> HIDE DEF U
<1>15. \A n \in 0 .. N : n \in U
  BY <1>0, <1>13, <1>14, UpTo, Zenon
<1>16. h \in [0 .. N -> X]
  <2>1. \A n \in 0 .. N : h[n] \in X
    BY <1>15 DEF U
  <2>2. h = [n \in 0 .. N |-> h[n]]
    BY <1>11
  <2> QED BY <2>1, <2>2
<1> QED BY <1>4, <1>12, <1>16 DEF IsUpline, h, N, X

LEMMA DownlineIs ==
  ASSUME NetworkTypeOK, NEW u \in People
  PROVE  IsDownline(Downline(u), u)
<1> DEFINE N == maxDepth
           X == SUBSET People
           Below(x) == {c \in People : network[c] \in x}
           b == {u}
           st == [n \in 1 .. N |-> [x \in X |-> Below(x)]]
           Body(down) == [k \in 0 .. N |-> IF k = 0 THEN b ELSE Below(down[k - 1])]
<1>0. N \in Nat /\ b \in X
  BY NetworkAssumption
<1>2. st \in [1 .. N -> [X -> X]]
  OBVIOUS
<1>3. \A n \in 1 .. N, x \in X : st[n][x] = Below(x)
  OBVIOUS
<1>4. Downline(u) = CHOOSE down : down = Body(down)
  BY DEF Downline
<1>1. \A x : Below(x) \in X
  OBVIOUS
<1> HIDE DEF st, N, X, b, Below
<1>5. \E f \in [0 .. N -> X] : Solves(f, N, b, st)
  BY <1>0, <1>2, Recursion, Zenon
<1>6. PICK f \in [0 .. N -> X] : f[0] = b /\ \A n \in 1 .. N : f[n] = st[n][f[n - 1]]
  BY <1>5 DEF Solves
<1>7. \A n \in 1 .. N : n - 1 \in 0 .. N /\ n \in 0 .. N /\ n # 0
  BY <1>0
<1>8. \A n \in 0 .. N : n = 0 \/ n \in 1 .. N
  BY <1>0
<1>9. \A n \in 1 .. N : f[n] = Below(f[n - 1])
  BY <1>3, <1>6, <1>7
<1>10. f = Body(f)
  <2>1. \A n \in 0 .. N : f[n] = Body(f)[n]
    BY <1>6, <1>8, <1>9
  <2> QED BY <1>6, <2>1
<1> DEFINE h == CHOOSE down : down = Body(down)
<1>11. h = Body(h)
  BY <1>10
<1> HIDE DEF h
<1>12. h[0] = b /\ \A n \in 1 .. N : h[n] = Below(h[n - 1])
  <2>1. 0 \in 0 .. N
    BY <1>0
  <2>2. h[0] = Body(h)[0] /\ \A n \in 1 .. N : h[n] = Body(h)[n]
    BY <1>11
  <2>3. Body(h)[0] = b /\ \A n \in 1 .. N : Body(h)[n] = Below(h[n - 1])
    BY <1>7, <2>1
  <2> HIDE DEF Body
  <2> QED BY <2>2, <2>3
<1>16. h \in [0 .. N -> X]
  <2>1. \A n \in 0 .. N : h[n] \in X
    BY <1>0, <1>1, <1>8, <1>12
  <2>2. h = [n \in 0 .. N |-> h[n]]
    BY <1>11
  <2> QED BY <2>1, <2>2
<1> QED BY <1>4, <1>12, <1>16 DEF IsDownline, h, N, X, b, Below

(* Nobody is above nobody, and what is k + 1 levels above a user is k      *)
(* levels above who referred the user.                                     *)
LEMMA NobodyAbove ==
  ASSUME NetworkTypeOK, NEW u \in People, NEW i \in 0 .. maxDepth, Upline(u)[i] = Nobody
  PROVE  \A k \in 0 .. maxDepth : k >= i => Upline(u)[k] = Nobody
<1> DEFINE N == maxDepth
           up == Upline(u)
           U == {k \in 0 .. N : k >= i => up[k] = Nobody}
<1>0. N \in Nat /\ i \in Nat
  BY NetworkAssumption
<1>1. \A k \in 1 .. N : up[k] = IF up[k - 1] = Nobody THEN Nobody ELSE network[up[k - 1]]
  BY UplineIs DEF IsUpline
<1>2. up[i] = Nobody
  OBVIOUS
<1> HIDE DEF N, up
<1>3. 0 \in U
  BY <1>0, <1>2
<1>4. ASSUME NEW n \in 0 .. N, n < N, n \in U PROVE n + 1 \in U
  <2>1. n + 1 \in 1 .. N /\ n + 1 \in 0 .. N /\ (n + 1) - 1 = n
    BY <1>0, <1>4
  <2>2. ASSUME n + 1 >= i PROVE up[n + 1] = Nobody
    <3>1. CASE n + 1 = i
      BY <1>2, <3>1
    <3>2. CASE n + 1 # i
      <4>1. n >= i
        BY <1>0, <2>2, <3>2
      <4>2. up[n] = Nobody
        BY <1>4, <4>1
      <4> QED BY <1>1, <2>1, <4>2
    <3> QED BY <3>1, <3>2
  <2> QED BY <2>1, <2>2
<1> HIDE DEF U
<1>5. \A n \in 0 .. N : n \in U
  BY <1>0, <1>3, <1>4, UpTo, Zenon
<1> QED BY <1>5 DEF U, N, up

LEMMA UplineShifts ==
  ASSUME NetworkTypeOK, NEW v \in People
  PROVE  \A k \in 0 .. maxDepth : k < maxDepth =>
           Upline(v)[k + 1] = IF network[v] = Nobody THEN Nobody ELSE Upline(network[v])[k]
<1> DEFINE N == maxDepth
           up == Upline(v)
           above == Upline(network[v])
           U == {k \in 0 .. N : k < N => up[k + 1] = above[k]}
<1>0. N \in Nat /\ Nobody \notin People
  BY NetworkAssumption
<1>1. up[0] = v /\ \A k \in 1 .. N : up[k] = IF up[k - 1] = Nobody THEN Nobody ELSE network[up[k - 1]]
  BY UplineIs DEF IsUpline
<1>2. CASE network[v] = Nobody
  <2>1. ASSUME NEW k \in 0 .. N, k < N PROVE up[k + 1] = Nobody
    <3>1. 1 \in 0 .. N /\ 1 \in 1 .. N /\ k + 1 \in 0 .. N /\ k + 1 >= 1
      BY <1>0, <2>1
    <3>2. up[1] = Nobody
      <4>1. up[1] = IF up[0] = Nobody THEN Nobody ELSE network[up[0]]
        BY <1>1, <3>1
      <4> QED BY <1>0, <1>1, <1>2, <4>1
    <3> QED BY <3>1, <3>2, NobodyAbove
  <2> QED BY <1>2, <2>1
<1>3. CASE network[v] # Nobody
  <2>1. network[v] \in People
    BY <1>3 DEF NetworkTypeOK
  <2>2. above[0] = network[v]
        /\ \A k \in 1 .. N : above[k] = IF above[k - 1] = Nobody THEN Nobody ELSE network[above[k - 1]]
    BY <2>1, UplineIs DEF IsUpline
  <2> HIDE DEF N, up, above
  <2>3. 0 \in U
    <3>1. ASSUME 0 < N PROVE up[0 + 1] = above[0]
      <4>1. 1 \in 1 .. N /\ 0 + 1 = 1
        BY <1>0, <3>1
      <4>2. up[1] = IF up[0] = Nobody THEN Nobody ELSE network[up[0]]
        BY <1>1, <4>1
      <4> QED BY <1>0, <1>1, <2>2, <4>1, <4>2
    <3> QED BY <1>0, <3>1
  <2>4. ASSUME NEW n \in 0 .. N, n < N, n \in U PROVE n + 1 \in U
    <3>1. n + 1 \in 1 .. N /\ n + 1 \in 0 .. N /\ (n + 1) - 1 = n
      BY <1>0, <2>4
    <3>2. up[n + 1] = above[n]
      BY <2>4
    <3>3. ASSUME n + 1 < N PROVE up[(n + 1) + 1] = above[n + 1]
      <4>1. (n + 1) + 1 \in 1 .. N /\ ((n + 1) + 1) - 1 = n + 1
        BY <1>0, <3>1, <3>3
      <4>2. up[(n + 1) + 1] = IF up[n + 1] = Nobody THEN Nobody ELSE network[up[n + 1]]
        BY <1>1, <4>1
      <4>3. above[n + 1] = IF above[n] = Nobody THEN Nobody ELSE network[above[n]]
        BY <2>2, <3>1
      <4> QED BY <3>2, <4>2, <4>3
    <3> QED BY <3>1, <3>3
  <2> HIDE DEF U
  <2>5. \A n \in 0 .. N : n \in U
    BY <1>0, <2>3, <2>4, UpTo, Zenon
  <2> QED BY <1>3, <2>5 DEF U, N, up, above
<1> QED BY <1>2, <1>3

LEMMA CountsAgree == ASSUME NetworkTypeOK PROVE UpAndDownAgree
<1> DEFINE N == maxDepth
           Agree(k) == \A u \in People, v \in People : Upline(v)[k] = u <=> v \in Downline(u)[k]
           U == {k \in 0 .. N : Agree(k)}
<1>0. N \in Nat /\ Nobody \notin People
  BY NetworkAssumption
<1>1. 0 \in U
  <2>1. \A u \in People : Upline(u)[0] = u /\ Downline(u)[0] = {u}
    BY UplineIs, DownlineIs DEF IsUpline, IsDownline
  <2>2. Agree(0)
    BY <2>1
  <2> QED BY <1>0, <2>2
<1>2. ASSUME NEW n \in 0 .. N, n < N, n \in U PROVE n + 1 \in U
  <2>0. n + 1 \in 1 .. N /\ n + 1 \in 0 .. N /\ (n + 1) - 1 = n
    BY <1>0, <1>2
  <2>1. ASSUME NEW u \in People, NEW v \in People
        PROVE  Upline(v)[n + 1] = u <=> v \in Downline(u)[n + 1]
    <3>1. Upline(v)[n + 1] = IF network[v] = Nobody THEN Nobody ELSE Upline(network[v])[n]
      BY <1>2, UplineShifts
    <3>2. Downline(u)[n + 1] = {c \in People : network[c] \in Downline(u)[n]}
      BY <2>0, DownlineIs DEF IsDownline
    <3>3. Downline(u)[n] \in SUBSET People
      BY DownlineIs DEF IsDownline
    <3>4. CASE network[v] = Nobody
      BY <1>0, <3>1, <3>2, <3>3, <3>4
    <3>5. CASE network[v] # Nobody
      <4>1. network[v] \in People
        BY <3>5 DEF NetworkTypeOK
      <4>2. Upline(network[v])[n] = u <=> network[v] \in Downline(u)[n]
        BY <1>2, <4>1
      <4> QED BY <3>1, <3>2, <3>5, <4>2
    <3> QED BY <3>4, <3>5
  <2> QED BY <2>0, <2>1
<1> HIDE DEF U
<1>3. \A n \in 0 .. N : n \in U
  BY <1>0, <1>1, <1>2, UpTo, Zenon
<1>4. \A k \in Levels : k \in 0 .. N
  BY <1>0 DEF Levels
<1> QED BY <1>3, <1>4 DEF U, UpAndDownAgree

(* A user who is met twice on the way up closes a circle.                  *)
LEMMA NobodyTwice ==
  ASSUME NetworkTypeOK, Acyclic, NEW u \in People, NEW j \in 0 .. maxDepth, NEW k \in 0 .. maxDepth,
         j < k, Upline(u)[k] # Nobody
  PROVE  Upline(u)[j] # Upline(u)[k]
<1> SUFFICES ASSUME Upline(u)[j] = Upline(u)[k] PROVE FALSE
  OBVIOUS
<1> DEFINE N == maxDepth
           up == Upline(u)
           S == {up[i] : i \in j .. k - 1}
<1>0. N \in Nat /\ j \in Nat /\ k \in Nat /\ k <= N
  BY NetworkAssumption
<1>1. /\ up \in [0 .. N -> People \cup {Nobody}]
      /\ \A i \in 1 .. N : up[i] = IF up[i - 1] = Nobody THEN Nobody ELSE network[up[i - 1]]
  BY UplineIs DEF IsUpline
<1>2. \A i \in 0 .. N : i <= k => up[i] # Nobody
  BY <1>0, NobodyAbove
<1>3. up[j] = up[k]
  OBVIOUS
<1> HIDE DEF N, up
<1>4. \A i \in j .. k - 1 : i \in 0 .. N /\ i <= k /\ i + 1 \in 1 .. N /\ (i + 1) - 1 = i
                            /\ (i + 1 = k \/ i + 1 \in j .. k - 1)
  BY <1>0
<1>5. S \in SUBSET People
  BY <1>1, <1>2, <1>4
<1>6. j \in j .. k - 1
  BY <1>0
<1>7. S # {}
  BY <1>6
<1>8. \A x \in S : network[x] \in S
  <2> SUFFICES ASSUME NEW i \in j .. k - 1 PROVE network[up[i]] \in S
    OBVIOUS
  <2>1. up[i] # Nobody /\ up[i + 1] = IF up[i] = Nobody THEN Nobody ELSE network[up[i]]
    BY <1>1, <1>2, <1>4
  <2>2. up[i + 1] \in S
    <3>1. CASE i + 1 = k
      BY <1>3, <1>6, <3>1
    <3>2. CASE i + 1 \in j .. k - 1
      BY <3>2
    <3> QED BY <1>4, <3>1, <3>2
  <2> QED BY <2>1, <2>2
<1> QED BY <1>5, <1>7, <1>8 DEF Acyclic

(* The loop: a level is paid at most once, to somebody, and the percentage *)
(* of the levels that are paid never exceeds the maximum.                  *)
Along == [on : BOOLEAN, percent : Nat, paid : SUBSET Levels]
WalkStart == [on |-> TRUE, percent |-> 0, paid |-> {}]

IsWalk(walk, u) ==
  /\ walk[0] = WalkStart
  /\ \A k \in 1 .. maxDepth : walk[k] = PayLevel(walk[k - 1], k, Upline(u)[k])

LEMMA PayLevelType ==
  ASSUME NetworkTypeOK, NEW w \in Along, NEW k \in Levels, NEW earner
  PROVE  PayLevel(w, k, earner) \in Along
<1>1. levelRates[k] \in Nat
  BY DEF NetworkTypeOK
<1>2. w.percent + levelRates[k] \in Nat /\ w.paid \cup {k} \in SUBSET Levels
  BY <1>1 DEF Along
<1>3. [w EXCEPT !.on = FALSE] \in Along
  BY DEF Along
<1>4. [on |-> TRUE, percent |-> w.percent + levelRates[k], paid |-> w.paid \cup {k}] \in Along
  BY <1>2 DEF Along
<1> QED BY <1>3, <1>4 DEF PayLevel

LEMMA TraversalWalks ==
  ASSUME NetworkTypeOK, NEW u \in People
  PROVE  \E walk : IsWalk(walk, u) /\ Traversal(u) = walk[maxDepth]
<1> DEFINE N == maxDepth
           b == WalkStart
           At(x, n) == PayLevel(x, n, Upline(u)[n])
           st == [n \in 1 .. N |-> [x \in Along |-> At(x, n)]]
           Body(walk) == [k \in 0 .. N |-> IF k = 0 THEN b ELSE At(walk[k - 1], k)]
<1>0. N \in Nat
  BY NetworkAssumption
<1>1. b \in Along
  BY DEF Along, WalkStart
<1>2. \A n \in 1 .. N : \A x \in Along : At(x, n) \in Along
  BY PayLevelType DEF Levels
<1>3. Traversal(u) = (CHOOSE walk : walk = Body(walk))[N]
  BY DEF Traversal, WalkStart
<1> HIDE DEF N, b, At
<1>4. st \in [1 .. N -> [Along -> Along]]
  BY <1>2
<1>5. \A n \in 1 .. N, x \in Along : st[n][x] = At(x, n)
  OBVIOUS
<1> HIDE DEF st
<1>6. \E f \in [0 .. N -> Along] : Solves(f, N, b, st)
  BY <1>0, <1>1, <1>4, Recursion, Zenon
<1>7. PICK f \in [0 .. N -> Along] : f[0] = b /\ \A n \in 1 .. N : f[n] = st[n][f[n - 1]]
  BY <1>6 DEF Solves
<1>8. \A n \in 1 .. N : n - 1 \in 0 .. N /\ n \in 0 .. N /\ n # 0
  BY <1>0
<1>9. \A n \in 0 .. N : n = 0 \/ n \in 1 .. N
  BY <1>0
<1>10. \A n \in 1 .. N : f[n] = At(f[n - 1], n)
  BY <1>5, <1>7, <1>8
<1>11. f = Body(f)
  <2>1. \A n \in 0 .. N : f[n] = Body(f)[n]
    BY <1>7, <1>9, <1>10
  <2> QED BY <1>7, <2>1
<1> DEFINE h == CHOOSE walk : walk = Body(walk)
<1>12. h = Body(h)
  BY <1>11
<1> HIDE DEF h
<1>13. h[0] = b /\ \A n \in 1 .. N : h[n] = At(h[n - 1], n)
  <2>1. 0 \in 0 .. N
    BY <1>0
  <2>2. h[0] = Body(h)[0] /\ \A n \in 1 .. N : h[n] = Body(h)[n]
    BY <1>12
  <2>3. Body(h)[0] = b /\ \A n \in 1 .. N : Body(h)[n] = At(h[n - 1], n)
    BY <1>8, <2>1
  <2> HIDE DEF Body
  <2> QED BY <2>2, <2>3
<1>14. IsWalk(h, u)
  BY <1>13 DEF IsWalk, N, b, At
<1> QED BY <1>3, <1>14 DEF h, N

(* Commissions by level, and what they add up to.                          *)
Commission(u, amount, k) ==
  [referrerId |-> Upline(u)[k], level |-> k, amount |-> Cents(levelRates[k], amount)]
Commissions(u, amount, P) == {Commission(u, amount, k) : k \in P}
AmountsOf(u, amount) == [e \in Commissions(u, amount, Levels) |-> e.amount]

WithinLimit(w, n, u, amount) ==
  /\ w \in Along /\ w.percent <= maxTotalCommission
  /\ \A k \in w.paid : k <= n /\ Upline(u)[k] # Nobody
  /\ IsFiniteSet(Commissions(u, amount, w.paid))
  /\ 100 * SumOver(AmountsOf(u, amount), Commissions(u, amount, w.paid))
       <= w.percent * amount + 50 * Cardinality(Commissions(u, amount, w.paid))

LEMMA CentsBound ==
  ASSUME NEW rate \in Nat, NEW amount \in Nat
  PROVE  Cents(rate, amount) \in Nat /\ 100 * Cents(rate, amount) <= rate * amount + 50
<1> DEFINE x == rate * amount
<1>1. x \in Nat
  OBVIOUS
<1> HIDE DEF x
<1>2. (x + 50) \div 100 \in Nat /\ 100 * ((x + 50) \div 100) <= x + 50
  BY <1>1
<1> QED BY <1>2 DEF Cents, x

LEMMA Distributes ==
  ASSUME NEW a \in Int, NEW b \in Int, NEW c \in Int
  PROVE  (a + b) * c = a * c + b * c
OBVIOUS

LEMMA CommissionType ==
  ASSUME NetworkTypeOK, NEW u, NEW amount \in Nat, NEW k \in Levels
  PROVE  /\ Commission(u, amount, k) \in Commissions(u, amount, Levels)
         /\ AmountsOf(u, amount)[Commission(u, amount, k)] = Cents(levelRates[k], amount)
         /\ Cents(levelRates[k], amount) \in Nat
<1>1. Commission(u, amount, k) \in Commissions(u, amount, Levels)
  BY DEF Commissions
<1>2. Commission(u, amount, k).amount = Cents(levelRates[k], amount)
  BY DEF Commission
<1>3. levelRates[k] \in Nat
  BY DEF NetworkTypeOK
<1> QED BY <1>1, <1>2, <1>3, CentsBound DEF AmountsOf

LEMMA CommissionLevel ==
  ASSUME NEW u, NEW amount, NEW k, NEW j, Commission(u, amount, k) = Commission(u, amount, j)
  PROVE  k = j
<1>1. Commission(u, amount, k).level = k /\ Commission(u, amount, j).level = j
  BY DEF Commission
<1> QED BY <1>1

LEMMA KeptStart ==
  ASSUME NEW u, NEW amount \in Nat
  PROVE  WithinLimit(WalkStart, 0, u, amount)
<1>1. Commissions(u, amount, {}) = {}
  BY DEF Commissions
<1>2. IsFiniteSet({}) /\ Cardinality({}) = 0
  BY FS_EmptySet
<1>3. SumOver(AmountsOf(u, amount), {}) = 0
  BY SumNone
<1>4. WalkStart \in Along /\ WalkStart.percent = 0 /\ WalkStart.paid = {}
  BY DEF Along, WalkStart
<1>5. maxTotalCommission \in Nat
  BY NetworkAssumption
<1>6. 0 * amount = 0
  OBVIOUS
<1> QED BY <1>1, <1>2, <1>3, <1>4, <1>5, <1>6 DEF WithinLimit

LEMMA KeptStep ==
  ASSUME NetworkTypeOK, NEW u \in People, NEW amount \in Nat, NEW n \in 0 .. maxDepth, n < maxDepth,
         NEW w, WithinLimit(w, n, u, amount)
  PROVE  WithinLimit(PayLevel(w, n + 1, Upline(u)[n + 1]), n + 1, u, amount)
<1> DEFINE k == n + 1
           earner == Upline(u)[k]
           v == PayLevel(w, k, earner)
           E == Commissions(u, amount, w.paid)
           f == AmountsOf(u, amount)
           rate == levelRates[k]
<1>0. k \in Levels /\ k \in Nat /\ n \in Nat /\ n < k
  BY NetworkAssumption DEF Levels
<1>1. w \in Along /\ v \in Along
  BY <1>0, PayLevelType DEF WithinLimit
<1>2. /\ w.percent \in Nat /\ w.percent <= maxTotalCommission /\ w.paid \in SUBSET Levels
      /\ \A j \in w.paid : j \in Nat /\ j <= n /\ Upline(u)[j] # Nobody
      /\ IsFiniteSet(E)
      /\ 100 * SumOver(f, E) <= w.percent * amount + 50 * Cardinality(E)
  BY <1>1 DEF WithinLimit, Along, Levels
<1> HIDE DEF k
<1>3. CASE v.percent = w.percent /\ v.paid = w.paid
  <2>1. \A j \in v.paid : j <= k /\ Upline(u)[j] # Nobody
    BY <1>0, <1>2, <1>3
  <2> HIDE DEF v
  <2>2. WithinLimit(v, k, u, amount)
    BY <1>1, <1>2, <1>3, <2>1 DEF WithinLimit
  <2> QED BY <2>2 DEF v, k
<1>4. CASE /\ v.percent = w.percent + rate /\ v.paid = w.paid \cup {k}
           /\ w.percent + rate <= maxTotalCommission /\ earner # Nobody
  <2> DEFINE e == Commission(u, amount, k)
             c == Cents(rate, amount)
  <2>1. rate \in Nat /\ c \in Nat /\ 100 * c <= rate * amount + 50
    <3>1. rate \in Nat
      BY <1>0 DEF NetworkTypeOK
    <3> HIDE DEF rate
    <3> QED BY <3>1, CentsBound
  <2>2. Commissions(u, amount, v.paid) = E \cup {e}
    BY <1>4 DEF Commissions
  <2>3. e \notin E
    <3>1. ASSUME NEW j \in w.paid, e = Commission(u, amount, j) PROVE FALSE
      <4>1. k = j
        BY <3>1, CommissionLevel
      <4> QED BY <1>0, <1>2, <4>1
    <3> QED BY <3>1 DEF Commissions
  <2>4. \A x \in E \cup {e} : f[x] \in Nat
    <3>1. \A j \in w.paid \cup {k} : f[Commission(u, amount, j)] \in Nat
      BY <1>0, <1>2, CommissionType
    <3> QED BY <3>1 DEF Commissions
  <2>5. f[e] = c
    BY <1>0, CommissionType
  <2>6. \A j \in v.paid : j <= k /\ Upline(u)[j] # Nobody
    BY <1>0, <1>2, <1>4
  <2>7. w.percent * amount \in Nat /\ rate * amount \in Nat
        /\ (w.percent + rate) * amount = w.percent * amount + rate * amount
    BY <1>2, <2>1, Distributes
  <2> HIDE DEF E, e, f, c, rate, v, earner
  <2>8. IsFiniteSet(E \cup {e}) /\ Cardinality(E \cup {e}) = Cardinality(E) + 1
    BY <1>2, <2>3, FS_AddElement
  <2>9. SumOver(f, E \cup {e}) = SumOver(f, E) + c
    BY <1>2, <2>3, <2>4, <2>5, SumWith
  <2>10. SumOver(f, E) \in Nat /\ Cardinality(E) \in Nat
    BY <1>2, <2>4, SumType, FS_CardinalityType
  <2>11. 100 * (SumOver(f, E) + c)
           <= (w.percent * amount + rate * amount) + 50 * (Cardinality(E) + 1)
    <3> DEFINE s == SumOver(f, E)
               p == w.percent * amount
               q == rate * amount
               d == Cardinality(E)
    <3>1. s \in Nat /\ p \in Nat /\ q \in Nat /\ d \in Nat /\ c \in Nat
      BY <2>1, <2>7, <2>10
    <3>2. 100 * s <= p + 50 * d /\ 100 * c <= q + 50
      BY <1>2, <2>1
    <3> HIDE DEF s, p, q, d
    <3>3. 100 * (s + c) <= (p + q) + 50 * (d + 1)
      BY <3>1, <3>2
    <3> QED BY <3>3 DEF s, p, q, d
  <2>12. 100 * SumOver(f, E \cup {e}) <= v.percent * amount + 50 * Cardinality(E \cup {e})
    BY <1>4, <2>7, <2>8, <2>9, <2>11
  <2>13. v.percent <= maxTotalCommission
    BY <1>4
  <2>14. WithinLimit(v, k, u, amount)
    BY <1>1, <2>2, <2>6, <2>8, <2>12, <2>13 DEF WithinLimit, f
  <2> QED BY <2>14 DEF v, k, earner
<1>5. \/ v.percent = w.percent /\ v.paid = w.paid
      \/ /\ v.percent = w.percent + rate /\ v.paid = w.paid \cup {k}
         /\ w.percent + rate <= maxTotalCommission /\ earner # Nobody
  <2>1. rate \in Nat
    BY <1>0 DEF NetworkTypeOK
  <2>4. maxTotalCommission \in Nat
    BY NetworkAssumption
  <2>2. [w EXCEPT !.on = FALSE].percent = w.percent /\ [w EXCEPT !.on = FALSE].paid = w.paid
    BY <1>1 DEF Along
  <2>3. \/ v = [w EXCEPT !.on = FALSE] \/ v = w
        \/ /\ v = [on |-> TRUE, percent |-> w.percent + rate, paid |-> w.paid \cup {k}]
           /\ earner # Nobody /\ ~(w.percent + rate > maxTotalCommission)
    BY DEF PayLevel
  <2> HIDE DEF v, rate, earner
  <2>5. ~(w.percent + rate > maxTotalCommission) => w.percent + rate <= maxTotalCommission
    BY <1>2, <2>1, <2>4
  <2>6. CASE v = [w EXCEPT !.on = FALSE] \/ v = w
    BY <2>2, <2>6
  <2>7. CASE /\ v = [on |-> TRUE, percent |-> w.percent + rate, paid |-> w.paid \cup {k}]
             /\ earner # Nobody /\ ~(w.percent + rate > maxTotalCommission)
    <3>1. v.percent = w.percent + rate /\ v.paid = w.paid \cup {k}
      BY <2>7
    <3> QED BY <2>5, <2>7, <3>1
  <2> QED BY <2>3, <2>6, <2>7
<1> QED BY <1>3, <1>4, <1>5

LEMMA TraversalKept ==
  ASSUME NetworkTypeOK, NEW u \in People, NEW amount \in Nat
  PROVE  WithinLimit(Traversal(u), maxDepth, u, amount)
<1> DEFINE N == maxDepth
<1>0. N \in Nat
  BY NetworkAssumption
<1>1. PICK walk : IsWalk(walk, u) /\ Traversal(u) = walk[N]
  BY TraversalWalks
<1> DEFINE U == {k \in 0 .. N : WithinLimit(walk[k], k, u, amount)}
<1>2. 0 \in U
  BY <1>0, <1>1, KeptStart DEF IsWalk
<1>3. ASSUME NEW n \in 0 .. N, n < N, n \in U PROVE n + 1 \in U
  <2>1. n + 1 \in 0 .. N /\ n + 1 \in 1 .. N /\ (n + 1) - 1 = n
    BY <1>0, <1>3
  <2>2. walk[n + 1] = PayLevel(walk[n], n + 1, Upline(u)[n + 1])
    BY <1>1, <2>1 DEF IsWalk
  <2>3. WithinLimit(walk[n + 1], n + 1, u, amount)
    BY <1>3, <2>2, KeptStep
  <2> QED BY <2>1, <2>3
<1> HIDE DEF U
<1>4. \A n \in 0 .. N : n \in U
  BY <1>0, <1>2, <1>3, UpTo, Zenon
<1>5. N \in U
  BY <1>0, <1>4
<1> QED BY <1>1, <1>5 DEF U

LEMMA CommissionsAreSound ==
  ASSUME NetworkTypeOK, Acyclic
  PROVE  CommissionsSound
<1> SUFFICES ASSUME NEW u \in People, NEW amount \in NetworkPurchases
             PROVE  LET earned == calculateNetworkCommissions(u, amount)
                    IN  /\ \A e \in earned : e.referrerId \in People \ {u}
                        /\ \A e, g \in earned : e.referrerId = g.referrerId => e = g
                        /\ 100 * SumOver([e \in earned |-> e.amount], earned)
                             <= maxTotalCommission * amount + 50 * Cardinality(earned)
  BY DEF CommissionsSound
<1> DEFINE w == Traversal(u)
           earned == calculateNetworkCommissions(u, amount)
<1>0. amount \in Nat /\ maxTotalCommission \in Nat /\ maxDepth \in Nat /\ Nobody \notin People
  BY NetworkAssumption
<1>1. CASE amount < minPurchaseAmount
  <2>1. earned = {}
    BY <1>1 DEF calculateNetworkCommissions
  <2> HIDE DEF earned
  <2> DEFINE f == [e \in earned |-> e.amount]
  <2>2. SumOver(f, earned) = 0 /\ Cardinality(earned) = 0
    <3> HIDE DEF f
    <3> QED BY <2>1, SumNone, FS_EmptySet
  <2>3. maxTotalCommission * amount \in Nat
    BY <1>0
  <2>4. 100 * SumOver(f, earned) <= maxTotalCommission * amount + 50 * Cardinality(earned)
    <3> HIDE DEF f
    <3> QED BY <2>2, <2>3
  <2> QED BY <2>1, <2>4 DEF earned
<1>2. CASE ~(amount < minPurchaseAmount)
  <2>1. WithinLimit(w, maxDepth, u, amount)
    BY <1>0, TraversalKept
  <2>2. earned = Commissions(u, amount, w.paid)
    BY <1>2 DEF calculateNetworkCommissions, Commissions, Commission
  <2>3. /\ w.percent \in Nat /\ w.percent <= maxTotalCommission /\ w.paid \in SUBSET Levels
        /\ \A k \in w.paid : Upline(u)[k] # Nobody
        /\ 100 * SumOver(AmountsOf(u, amount), Commissions(u, amount, w.paid))
             <= w.percent * amount + 50 * Cardinality(Commissions(u, amount, w.paid))
        /\ IsFiniteSet(Commissions(u, amount, w.paid))
    BY <2>1 DEF WithinLimit, Along
  <2> HIDE DEF w, earned
  <2>4. \A e \in earned : \E k \in w.paid : e = Commission(u, amount, k)
    BY <2>2 DEF Commissions
  <2>5. \A k \in w.paid : k \in 0 .. maxDepth /\ k \in Levels /\ 0 < k
    BY <1>0, <2>3 DEF Levels
  <2>6. Upline(u) \in [0 .. maxDepth -> People \cup {Nobody}] /\ Upline(u)[0] = u
    BY UplineIs DEF IsUpline
  <2>7. ASSUME NEW k \in w.paid PROVE Upline(u)[k] \in People \ {u}
    <3>1. 0 \in 0 .. maxDepth
      BY <1>0
    <3>2. Upline(u)[0] # Upline(u)[k]
      BY <2>3, <2>5, <3>1, NobodyTwice
    <3> QED BY <2>3, <2>5, <2>6, <3>2
  <2>8. ASSUME NEW k \in w.paid, NEW j \in w.paid, Upline(u)[k] = Upline(u)[j] PROVE k = j
    <3>1. ~(k < j) /\ ~(j < k)
      BY <2>3, <2>5, <2>8, NobodyTwice
    <3>2. k \in Int /\ j \in Int
      BY <2>5
    <3> QED BY <3>1, <3>2
  <2>9. \A k : Commission(u, amount, k).referrerId = Upline(u)[k]
    BY DEF Commission
  <2>10. \A e \in earned : e.referrerId \in People \ {u}
    BY <2>4, <2>7, <2>9
  <2>11. \A e, g \in earned : e.referrerId = g.referrerId => e = g
    BY <2>4, <2>8, <2>9
  <2> DEFINE f == [e \in earned |-> e.amount]
  <2>12. SumOver(f, earned) = SumOver(AmountsOf(u, amount), earned)
    <3>1. earned \subseteq Commissions(u, amount, Levels)
      BY <2>2, <2>5 DEF Commissions
    <3>2. \A x \in earned : f[x] = AmountsOf(u, amount)[x]
      BY <3>1 DEF AmountsOf
    <3> HIDE DEF f
    <3> QED BY <3>2, SumAlike
  <2>13. w.percent * amount <= maxTotalCommission * amount
    <3> DEFINE d == maxTotalCommission - w.percent
    <3>1. d \in Nat /\ maxTotalCommission = w.percent + d
      BY <1>0, <2>3
    <3> HIDE DEF d
    <3>2. (w.percent + d) * amount = w.percent * amount + d * amount
      BY <1>0, <2>3, <3>1, Distributes
    <3>3. d * amount \in Nat /\ w.percent * amount \in Nat
      BY <1>0, <2>3, <3>1
    <3> QED BY <3>1, <3>2, <3>3
  <2>14. 100 * SumOver(f, earned) <= maxTotalCommission * amount + 50 * Cardinality(earned)
    <3> HIDE DEF f
    <3>9. IsFiniteSet(earned)
      BY <2>2, <2>3
    <3>10. 100 * SumOver(AmountsOf(u, amount), earned) <= w.percent * amount + 50 * Cardinality(earned)
      BY <2>2, <2>3
    <3> DEFINE total == SumOver(f, earned)
               p == w.percent * amount
               q == maxTotalCommission * amount
               c == Cardinality(earned)
    <3>1. p \in Nat /\ q \in Nat
      BY <1>0, <2>3
    <3>2. IsFiniteSet(earned) /\ c \in Nat
      BY <3>9, FS_CardinalityType
    <3>3. 100 * SumOver(AmountsOf(u, amount), earned) <= p + 50 * c
      BY <3>10
    <3>4. \A e \in earned : AmountsOf(u, amount)[e] \in Nat
      BY <1>0, <2>4, <2>5, CommissionType
    <3>5. total \in Nat
      BY <2>12, <3>2, <3>4, SumType
    <3>6. 100 * total <= p + 50 * c
      BY <2>12, <3>3
    <3> HIDE DEF total, p, q, c
    <3>7. p <= q
      BY <2>13 DEF p, q
    <3>8. 100 * total <= q + 50 * c
      BY <3>1, <3>2, <3>5, <3>6, <3>7
    <3> QED BY <3>8 DEF total, q, c
  <2> QED BY <2>10, <2>11, <2>14 DEF earned
<1> QED BY <1>1, <1>2

(* Commissions (multi-level-commissions.js:100): in a network of any depth *)
(* and any number of people, at any rates, a purchase pays nobody twice,   *)
(* never the purchaser, and no more than the maximum commission up to half *)
(* a cent a level, and counting the network from above and from below      *)
(* gives the same.                                                         *)
THEOREM PayoutsFairHolds == NetworkSpec => []PayoutsFair
<1>1. NetworkIInv => PayoutsFair
  BY CommissionsAreSound, CountsAgree DEF NetworkIInv, PayoutsFair
<1> QED BY <1>1, NetworkInitIInv, NetworkStepKeeps, PTL DEF NetworkSpec

-----------------------------------------------------------------------------
(* Dialogs.  A screen that is not stale was made from the menu and the     *)
(* list that its answer will be read from.                                 *)
LEMMA BackLeads ==
  ASSUME NEW menu \in Shape
  PROVE  _handleBack(menu) \in MenuIds \cup {"end"}
<1>1. menu.parent \in MenuIds \cup {NoMenu}
  BY DEF Shape
<1>2. menu.parent # NoMenu => menu.parent \in MenuIds
  BY <1>1
<1>3. Home \in MenuIds
  BY MenuAssumption
<1> DEFINE p == menu.parent
           b == menu.backAction
<1> HIDE DEF p, b
<1>4. _handleBack(menu) = CASE b = "parent" /\ p # NoMenu -> p
                            [] b = "main" -> Home
                            [] b = "end" -> "end"
                            [] OTHER -> IF p # NoMenu THEN p ELSE Home
  BY DEF _handleBack, p, b
<1>5. p # NoMenu => p \in MenuIds
  BY <1>2 DEF p
<1>6. CASE b = "parent" /\ p # NoMenu
  BY <1>4, <1>5, <1>6
<1>7. CASE b = "main"
  BY <1>3, <1>4, <1>7
<1>8. CASE b = "end"
  BY <1>4, <1>8
<1>9. CASE ~(b = "parent" /\ p # NoMenu) /\ b # "main" /\ b # "end"
  BY <1>3, <1>4, <1>5, <1>9
<1> QED BY <1>6, <1>7, <1>8, <1>9

\* Items without some of their numbers are items.
LEMMA EntriesOf ==
  /\ \A f \in Entries : \A N : [n \in DOMAIN f \ N |-> f[n]] \in Entries
  /\ \A f \in Entries : \A n : n \in DOMAIN f => f[n] \in Targets
  /\ NoLines \in Entries
<1>1. ASSUME NEW f \in Entries, NEW N
      PROVE  /\ [n \in DOMAIN f \ N |-> f[n]] \in Entries
             /\ \A n \in DOMAIN f : f[n] \in Targets
  <2>1. PICK M \in SUBSET Numbers : f \in [M -> Targets]
    BY DEF Entries
  <2>2. M \ N \in SUBSET Numbers /\ [n \in M \ N |-> f[n]] \in [M \ N -> Targets]
    BY <2>1
  <2>3. [n \in M \ N |-> f[n]] \in Entries
    BY <2>2 DEF Entries
  <2> QED BY <2>1, <2>3
<1>2. NoLines \in Entries
  <2>1. NoLines \in [{} -> Targets]
    BY DEF NoLines
  <2> QED BY <2>1 DEF Entries
<1> QED BY <1>1, <1>2

LEMMA LinesTyped ==
  ASSUME NEW menu \in Shape \cup {Missing}, NEW list \in Entries
  PROVE  Lines(menu, list) \in [own : Entries, listed : Entries]
<1>1. CASE menu = Missing
  BY <1>1, EntriesOf DEF Lines
<1>2. CASE menu # Missing
  <2>1. menu.items \in Entries
    BY <1>2 DEF Shape
  <2>2. [n \in DOMAIN menu.items \ menu.hidden |-> menu.items[n]] \in Entries
    BY <2>1, EntriesOf
  <2>3. (IF menu.dynamic THEN list ELSE NoLines) \in Entries
    BY EntriesOf
  <2>4. Lines(menu, list) = [own |-> [n \in DOMAIN menu.items \ menu.hidden |-> menu.items[n]],
                             listed |-> IF menu.dynamic THEN list ELSE NoLines]
    BY <1>2 DEF Lines
  <2> QED BY <2>2, <2>3, <2>4
<1> QED BY <1>1, <1>2

\* What a screen says of a number is what the menu and the list lead to.
LEMMA SaysSelected ==
  ASSUME NEW menu, menu # Missing, NEW list, NEW n, n \notin menu.hidden
  PROVE  Says(Lines(menu, list), n) = SelectedItem(menu, n, list)
<1> DEFINE own == [k \in DOMAIN menu.items \ menu.hidden |-> menu.items[k]]
           listed == IF menu.dynamic THEN list ELSE NoLines
           screen == Lines(menu, list)
<1>1. screen.own = own /\ screen.listed = listed
  BY DEF Lines
<1>2. n \in DOMAIN own <=> n \in DOMAIN menu.items
  OBVIOUS
<1>3. n \in DOMAIN own => own[n] = menu.items[n]
  OBVIOUS
<1>4. n \in DOMAIN listed <=> menu.dynamic /\ n \in DOMAIN list
  BY DEF NoLines
<1>5. menu.dynamic => listed = list
  OBVIOUS
<1>6. Says(screen, n) = CASE n \in DOMAIN own -> own[n]
                          [] n \notin DOMAIN own /\ n \in DOMAIN listed -> listed[n]
                          [] OTHER -> "invalid"
  BY <1>1 DEF Says
<1>7. SelectedItem(menu, n, list) =
        CASE n \in DOMAIN menu.items -> menu.items[n]
          [] n \notin DOMAIN menu.items /\ menu.dynamic /\ n \in DOMAIN list -> list[n]
          [] OTHER -> "invalid"
  BY DEF SelectedItem
<1> HIDE DEF own, listed
<1>8. CASE n \in DOMAIN menu.items
  BY <1>2, <1>3, <1>6, <1>7, <1>8
<1>9. CASE n \notin DOMAIN menu.items /\ n \in DOMAIN listed
  <2>1. Says(screen, n) = listed[n]
    BY <1>2, <1>6, <1>9
  <2>2. menu.dynamic /\ n \in DOMAIN list /\ listed = list
    BY <1>4, <1>5, <1>9
  <2>3. SelectedItem(menu, n, list) = list[n]
    BY <1>7, <1>9, <2>2
  <2> QED BY <2>1, <2>2, <2>3
<1>10. CASE n \notin DOMAIN menu.items /\ n \notin DOMAIN listed
  <2>1. ~(menu.dynamic /\ n \in DOMAIN list)
    BY <1>4, <1>10
  <2>2. SelectedItem(menu, n, list) = "invalid"
    BY <1>7, <1>10, <2>1
  <2>3. Says(screen, n) = "invalid"
    BY <1>2, <1>6, <1>10
  <2> QED BY <2>2, <2>3
<1> QED BY <1>8, <1>9, <1>10

ChosenAt(g) ==
  (/\ g.phase = "answered" /\ ~g.stale /\ g.input \in Numbers
   /\ g.menu # Missing /\ g.menu.inputType = "selection" /\ g.input \notin g.menu.hidden)
    => g.outcome \in {"refused", Says(g.screen, g.input)}

\* What a dialog that is not stale shows.
Current(g) ==
  ~g.stale =>
    /\ g.phase \in {"rendering", "shown"} => g.menu = Get(g.at)
    /\ g.phase \in {"shown", "handling"} => g.screen = Lines(g.menu, listing)
    /\ g.phase = "handling" => g.menu # Missing

DialogsInv == MenusTypeOK /\ \A d \in Dialogs : Current(dialogs[d]) /\ ChosenAt(dialogs[d])

LEMMA GetTyped ==
  ASSUME MenusTypeOK, NEW id
  PROVE  Get(id) \in Shape \cup {Missing}
BY DEF MenusTypeOK, Get

LEMMA OpenedIs ==
  ASSUME NEW id \in MenuIds, NEW phase \in {"rendering", "answered"},
         NEW menu \in Shape \cup {Missing}, NEW outcome \in Outcomes
  PROVE  LET g == Opened(id, phase, menu, outcome)
         IN  /\ g \in Dialog /\ g.at = id /\ g.phase = phase /\ g.menu = menu
             /\ g.input \notin Numbers
<1>1. NoLines \in Entries /\ "00" \in Inputs /\ "00" \notin Numbers
  BY EntriesOf, MenuAssumption DEF Inputs
<1>2. Opened(id, phase, menu, outcome) \in Dialog
  BY <1>1 DEF Opened, Dialog
<1> QED BY <1>1, <1>2 DEF Opened

LEMMA MenusStart == MenuInit => DialogsInv
<1> SUFFICES ASSUME MenuInit PROVE DialogsInv
  OBVIOUS
<1>1. /\ \A s \in MenuShapes : s \in Shape
      /\ Home \in MenuIds /\ Home \in Outcomes /\ Listings \subseteq Entries
  BY MenuAssumption DEF Outcomes, Targets
<1>2. menus \in [{Home} -> {s \in MenuShapes : s.parent = NoMenu}] /\ listing \in Entries
  BY <1>1 DEF MenuInit
<1>3. DOMAIN menus = {Home} /\ menus[Home] \in MenuShapes
  BY <1>2
<1> DEFINE g == Opened(Home, "answered", Missing, Home)
<1>4. /\ dialogs = [d \in Dialogs |-> g]
      /\ g \in Dialog /\ g.phase = "answered" /\ g.input \notin Numbers
  BY <1>1, OpenedIs DEF MenuInit
<1> HIDE DEF g
<1>5. MenusTypeOK
  BY <1>1, <1>2, <1>3, <1>4 DEF MenusTypeOK
<1>6. Current(g) /\ ChosenAt(g)
  BY <1>4 DEF Current, ChosenAt
<1> QED BY <1>4, <1>5, <1>6 DEF DialogsInv

\* A menu is added, replaced or removed, and no other.
LEMMA EditKeeps ==
  ASSUME DialogsInv, NEW id \in MenuIds, Outdated(Showing(id)), listing' = listing,
         \A i \in DOMAIN menus' : i \in MenuIds /\ menus'[i] \in Shape,
         \A i : i # id => Get(i)' = Get(i)
  PROVE  DialogsInv'
<1>1. MenusTypeOK /\ \A d \in Dialogs : dialogs[d] \in Dialog
  BY DEF DialogsInv, MenusTypeOK
<1>2. ASSUME NEW d \in Dialogs
      PROVE  dialogs'[d] \in Dialog /\ Current(dialogs[d])' /\ ChosenAt(dialogs[d])'
  <2> DEFINE g == dialogs[d]
             h == dialogs'[d]
             after(i) == IF i \in DOMAIN menus' THEN menus'[i] ELSE Missing
  <2>0. \A i : i # id => after(i) = Get(i)
    BY DEF Get
  <2>1. h = [g EXCEPT !.stale = @ \/ d \in Showing(id)]
    BY DEF Outdated
  <2>2. g \in Dialog /\ Current(g) /\ ChosenAt(g)
    BY <1>1 DEF DialogsInv
  <2>3. /\ h \in Dialog /\ h.at = g.at /\ h.phase = g.phase /\ h.menu = g.menu /\ h.screen = g.screen
        /\ h.input = g.input /\ h.outcome = g.outcome
        /\ ~h.stale => ~g.stale /\ d \notin Showing(id)
    BY <2>1, <2>2 DEF Dialog
  <2>4. d \notin Showing(id) /\ g.phase \in {"rendering", "shown"} => g.at # id
    BY DEF Showing
  <2>5. ~h.stale => /\ h.phase \in {"rendering", "shown"} => h.menu = after(h.at)
                    /\ h.phase \in {"shown", "handling"} => h.screen = Lines(h.menu, listing')
                    /\ h.phase = "handling" => h.menu # Missing
    <3> HIDE DEF g, h, after
    <3> QED BY <2>0, <2>2, <2>3, <2>4 DEF Current
  <2>6. Current(dialogs[d])'
    BY <2>5 DEF Current, Get
  <2>7. ChosenAt(dialogs[d])'
    BY <2>2, <2>3 DEF ChosenAt
  <2> QED BY <2>3, <2>6, <2>7
<1>3. dialogs' = [d \in Dialogs |-> dialogs'[d]]
  BY DEF Outdated
<1>4. dialogs' \in [Dialogs -> Dialog]
  BY <1>2, <1>3
<1>5. MenusTypeOK'
  BY <1>1, <1>4 DEF MenusTypeOK
<1> QED BY <1>2, <1>5 DEF DialogsInv

LEMMA RelistKeeps ==
  ASSUME DialogsInv, NEW list \in Listings, Relist(list)
  PROVE  DialogsInv'
<1> DEFINE changed == {d \in Dialogs : /\ dialogs[d].phase \in {"shown", "handling"}
                                       /\ dialogs[d].menu # Missing /\ dialogs[d].menu.dynamic}
<1>1. /\ MenusTypeOK /\ (\A d \in Dialogs : dialogs[d] \in Dialog)
      /\ listing' = list /\ list \in Entries /\ menus' = menus /\ Outdated(changed)
  BY MenuAssumption DEF DialogsInv, MenusTypeOK, Relist
<1>2. ASSUME NEW d \in Dialogs
      PROVE  dialogs'[d] \in Dialog /\ Current(dialogs[d])' /\ ChosenAt(dialogs[d])'
  <2> DEFINE g == dialogs[d]
             h == dialogs'[d]
  <2>1. h = [g EXCEPT !.stale = @ \/ d \in changed]
    BY <1>1 DEF Outdated
  <2>2. g \in Dialog /\ Current(g) /\ ChosenAt(g)
    BY <1>1 DEF DialogsInv
  <2>3. /\ h \in Dialog /\ h.at = g.at /\ h.phase = g.phase /\ h.menu = g.menu /\ h.screen = g.screen
        /\ h.input = g.input /\ h.outcome = g.outcome
        /\ ~h.stale => ~g.stale /\ d \notin changed
    BY <2>1, <2>2 DEF Dialog
  <2>4. d \notin changed /\ g.phase \in {"shown", "handling"} => g.menu = Missing \/ ~g.menu.dynamic
    OBVIOUS
  <2>5. g.menu = Missing \/ ~g.menu.dynamic => Lines(g.menu, list) = Lines(g.menu, listing)
    BY DEF Lines
  <2>7. ~h.stale => /\ h.phase \in {"rendering", "shown"} => h.menu = Get(h.at)
                    /\ h.phase \in {"shown", "handling"} => h.screen = Lines(h.menu, listing')
                    /\ h.phase = "handling" => h.menu # Missing
    <3> HIDE DEF g, h, changed
    <3> QED BY <1>1, <2>2, <2>3, <2>4, <2>5 DEF Current
  <2>8. Current(dialogs[d])'
    BY <1>1, <2>7 DEF Current, Get
  <2>9. ChosenAt(dialogs[d])'
    BY <2>2, <2>3 DEF ChosenAt
  <2> QED BY <2>3, <2>8, <2>9
<1>3. dialogs' = [d \in Dialogs |-> dialogs'[d]]
  BY <1>1 DEF Outdated
<1>4. dialogs' \in [Dialogs -> Dialog]
  BY <1>2, <1>3
<1>5. MenusTypeOK'
  BY <1>1, <1>4 DEF MenusTypeOK
<1> QED BY <1>2, <1>5 DEF DialogsInv

\* One dialog goes on.
LEMMA OneKeeps ==
  ASSUME DialogsInv, NEW d \in Dialogs, NEW h \in Dialog,
         dialogs' = [dialogs EXCEPT ![d] = h], UNCHANGED <<menus, listing>>,
         Current(h), ChosenAt(h)
  PROVE  DialogsInv'
<1>1. MenusTypeOK /\ (\A e \in Dialogs : Current(dialogs[e]) /\ ChosenAt(dialogs[e]))
  BY DEF DialogsInv
<1>2. MenusTypeOK'
  BY <1>1 DEF MenusTypeOK
<1>3. \A e \in Dialogs : dialogs'[e] = IF e = d THEN h ELSE dialogs[e]
  BY <1>1 DEF MenusTypeOK
<1>4. \A i : Get(i)' = Get(i)
  BY DEF Get
<1>5. ASSUME NEW e \in Dialogs PROVE Current(dialogs[e])' /\ ChosenAt(dialogs[e])'
  <2> DEFINE g == dialogs'[e]
  <2>1. Current(g) /\ ChosenAt(g)
    BY <1>1, <1>3
  <2>2. ChosenAt(dialogs[e])'
    BY <2>1 DEF ChosenAt
  <2>3. Current(dialogs[e])'
    BY <1>4, <2>1 DEF Current
  <2> QED BY <2>2, <2>3
<1> QED BY <1>2, <1>5 DEF DialogsInv

LEMMA DialogStep ==
  ASSUME DialogsInv, NEW d \in Dialogs,
         \/ render(d) \/ Rendered(d)
         \/ \E input \in Inputs : handleInput(d, input)
         \/ \E outcome \in Outcomes : Handled(d, outcome)
  PROVE  DialogsInv'
<1> DEFINE g == dialogs[d]
<1>0. MenusTypeOK /\ g \in Dialog /\ Current(g) /\ ChosenAt(g)
  BY DEF DialogsInv, MenusTypeOK
<1>1. CASE render(d)
  <2> DEFINE to == g.outcome
             next == IF to = "end" THEN Home ELSE IF to \in MenuIds THEN to ELSE g.at
             h == Opened(next, "rendering", Get(next), "continue")
  <2>1. next \in MenuIds /\ "continue" \in Outcomes
    BY <1>0, MenuAssumption DEF Dialog, Outcomes
  <2>2. dialogs' = [dialogs EXCEPT ![d] = h] /\ UNCHANGED <<menus, listing>>
    BY <1>1 DEF render
  <2> HIDE DEF next
  <2>3. /\ h \in Dialog /\ h.at = next /\ h.phase = "rendering" /\ h.menu = Get(next)
    BY <1>0, <2>1, GetTyped, OpenedIs
  <2> HIDE DEF h
  <2>4. Current(h) /\ ChosenAt(h)
    BY <2>3 DEF Current, ChosenAt
  <2> QED BY <2>2, <2>3, <2>4, OneKeeps
<1>2. CASE Rendered(d)
  <2> DEFINE h == [g EXCEPT !.phase = "shown", !.screen = Lines(g.menu, listing)]
  <2>1. /\ g.phase = "rendering"
        /\ dialogs' = [dialogs EXCEPT ![d] = h] /\ UNCHANGED <<menus, listing>>
    BY <1>2 DEF Rendered
  <2>2. Lines(g.menu, listing) \in [own : Entries, listed : Entries]
    BY <1>0, LinesTyped DEF MenusTypeOK, Dialog
  <2>3. /\ h \in Dialog /\ h.phase = "shown" /\ h.screen = Lines(g.menu, listing)
        /\ h.menu = g.menu /\ h.at = g.at /\ h.stale = g.stale
    BY <1>0, <2>2 DEF Dialog
  <2> HIDE DEF g, h
  <2>4. Current(h) /\ ChosenAt(h)
    BY <1>0, <2>1, <2>3 DEF Current, ChosenAt
  <2> QED BY <2>1, <2>3, <2>4, OneKeeps DEF g
<1>3. ASSUME NEW input \in Inputs, handleInput(d, input) PROVE DialogsInv'
  <2> DEFINE menu == Get(g.at)
             waits == menu # Missing /\ input \in Numbers
             h == [g EXCEPT !.menu = menu, !.input = input,
                            !.phase = IF waits THEN "handling" ELSE "answered",
                            !.outcome = IF waits THEN g.outcome ELSE Immediate(menu, input)]
  <2>1. /\ g.phase = "shown"
        /\ dialogs' = [dialogs EXCEPT ![d] = h] /\ UNCHANGED <<menus, listing>>
    BY <1>3 DEF handleInput
  <2>2. menu \in Shape \cup {Missing}
    BY <1>0, GetTyped
  <2>3. Immediate(menu, input) \in Outcomes
    <3>1. Home \in Outcomes /\ "menu not found" \in Outcomes /\ MenuIds \cup {"end"} \subseteq Outcomes
      BY MenuAssumption DEF Outcomes, Targets
    <3>2. menu # Missing => _handleBack(menu) \in Outcomes
      BY <2>2, <3>1, BackLeads
    <3>3. Immediate(menu, input) = CASE menu = Missing -> "menu not found"
                                     [] menu # Missing /\ input = "0" -> _handleBack(menu)
                                     [] OTHER -> Home
      BY DEF Immediate
    <3> HIDE DEF menu
    <3>4. CASE menu = Missing
      BY <3>1, <3>3, <3>4
    <3>5. CASE menu # Missing /\ input = "0"
      BY <3>2, <3>3, <3>5
    <3>6. CASE menu # Missing /\ input # "0"
      BY <3>1, <3>3, <3>6
    <3> QED BY <3>4, <3>5, <3>6
  <2> HIDE DEF menu
  <2>4. /\ h.menu = menu /\ h.input = input /\ h.at = g.at /\ h.screen = g.screen /\ h.stale = g.stale
        /\ h.phase = IF waits THEN "handling" ELSE "answered"
    BY <1>0 DEF Dialog
  <2>5. h \in Dialog
    <3>1. (IF waits THEN "handling" ELSE "answered") \in {"rendering", "shown", "handling", "answered"}
      OBVIOUS
    <3>2. (IF waits THEN g.outcome ELSE Immediate(menu, input)) \in Outcomes
      BY <1>0, <2>3 DEF Dialog
    <3> QED BY <1>0, <2>2, <3>1, <3>2 DEF Dialog
  <2>6. waits <=> menu # Missing /\ input \in Numbers
    OBVIOUS
  <2>7. ~g.stale => menu = g.menu /\ g.screen = Lines(g.menu, listing)
    BY <1>0, <2>1 DEF Current, menu
  <2> HIDE DEF g, h, waits
  <2>8. Current(h)
    BY <2>4, <2>6, <2>7 DEF Current
  <2>9. ChosenAt(h)
    BY <2>4, <2>6 DEF ChosenAt
  <2> QED BY <2>1, <2>5, <2>8, <2>9, OneKeeps DEF g
<1>4. ASSUME NEW outcome \in Outcomes, Handled(d, outcome) PROVE DialogsInv'
  <2> DEFINE h == [g EXCEPT !.phase = "answered", !.outcome = outcome]
  <2>1. /\ g.phase = "handling" /\ outcome \in Results(g.menu, g.input)
        /\ dialogs' = [dialogs EXCEPT ![d] = h] /\ UNCHANGED <<menus, listing>>
    BY <1>4 DEF Handled, Answers
  <2>2. /\ h \in Dialog /\ h.phase = "answered" /\ h.outcome = outcome /\ h.menu = g.menu
        /\ h.input = g.input /\ h.screen = g.screen /\ h.stale = g.stale
    BY <1>0 DEF Dialog
  <2>3. ~g.stale => g.screen = Lines(g.menu, listing) /\ g.menu # Missing
    BY <1>0, <2>1 DEF Current
  <2>4. g.menu.inputType = "selection"
          => outcome \in {"refused", SelectedItem(g.menu, g.input, listing)}
    BY <2>1 DEF Results
  <2> HIDE DEF g, h
  <2>5. ChosenAt(h)
    <3> SUFFICES ASSUME ~g.stale, g.menu # Missing, g.menu.inputType = "selection",
                        g.input \notin g.menu.hidden
                 PROVE  outcome \in {"refused", Says(g.screen, g.input)}
      BY <2>2 DEF ChosenAt
    <3>1. Says(g.screen, g.input) = SelectedItem(g.menu, g.input, listing)
      BY <2>3, SaysSelected
    <3> QED BY <2>4, <3>1
  <2>6. Current(h)
    BY <2>2 DEF Current
  <2> QED BY <2>1, <2>2, <2>5, <2>6, OneKeeps DEF g
<1> QED BY <1>1, <1>2, <1>3, <1>4

LEMMA MenusStep == DialogsInv /\ [MenuNext]_menuVars => DialogsInv'
<1> SUFFICES ASSUME DialogsInv, [MenuNext]_menuVars PROVE DialogsInv'
  OBVIOUS
<1>0. MenusTypeOK
  BY DEF DialogsInv
<1>1. ASSUME NEW id \in MenuIds, NEW shape \in MenuShapes, addMenu(id, shape) PROVE DialogsInv'
  <2>1. /\ shape \in Shape /\ Outdated(Showing(id)) /\ listing' = listing
        /\ menus' = [i \in DOMAIN menus \cup {id} |-> IF i = id THEN shape ELSE menus[i]]
    BY <1>1, MenuAssumption DEF addMenu
  <2>2. \A i \in DOMAIN menus' : i \in MenuIds /\ menus'[i] \in Shape
    BY <1>0, <2>1 DEF MenusTypeOK
  <2>3. \A i : i # id => Get(i)' = Get(i)
    BY <2>1 DEF Get
  <2> QED BY <2>1, <2>2, <2>3, EditKeeps
<1>2. ASSUME NEW id \in MenuIds, removeMenu(id) PROVE DialogsInv'
  <2>1. /\ Outdated(Showing(id)) /\ listing' = listing
        /\ menus' = [i \in DOMAIN menus \ {id} |-> menus[i]]
    BY <1>2 DEF removeMenu
  <2>2. \A i \in DOMAIN menus' : i \in MenuIds /\ menus'[i] \in Shape
    BY <1>0, <2>1 DEF MenusTypeOK
  <2>3. \A i : i # id => Get(i)' = Get(i)
    BY <2>1 DEF Get
  <2> QED BY <2>1, <2>2, <2>3, EditKeeps
<1>3. ASSUME NEW list \in Listings, Relist(list) PROVE DialogsInv'
  BY <1>3, RelistKeeps
<1>4. ASSUME NEW d \in Dialogs,
             \/ render(d) \/ Rendered(d)
             \/ \E input \in Inputs : handleInput(d, input)
             \/ \E outcome \in Outcomes : Handled(d, outcome)
      PROVE  DialogsInv'
  BY <1>4, DialogStep
<1>5. CASE UNCHANGED menuVars
  <2>1. menus' = menus /\ listing' = listing /\ dialogs' = dialogs
    BY <1>5 DEF menuVars
  <2> QED BY <2>1 DEF DialogsInv, MenusTypeOK, Current, ChosenAt, Get
<1> QED BY <1>1, <1>2, <1>3, <1>4, <1>5 DEF MenuNext

(* Dialogs (session-manager.js:12, menu-builder.js:95, :162): for any      *)
(* number of phones, sessions, menus and lists, sessions keep their limit  *)
(* and their stacks, and a number leads where the screen on the phone said *)
(* while menus are added, replaced and removed and lists change.           *)
THEOREM DialogsSoundHolds == UssdSpec /\ MenuSpec => []DialogsSound
<1>1. DialogsInv => ShownIsChosen
  BY DEF DialogsInv, ChosenAt, ShownIsChosen
<1>2. MenuSpec => []DialogsInv
  BY MenusStart, MenusStep, PTL DEF MenuSpec
<1>3. SessionsCoherent /\ ShownIsChosen => DialogsSound
  BY DEF DialogsSound
<1> QED BY <1>1, <1>2, <1>3, SessionsCoherentHolds, PTL
-----------------------------------------------------------------------------
(* Refunded amounts (refund-amount-calculator.js, partial-refund-          *)
(* calculator.js, restocking-fee-calculator.js, refund-timeline-           *)
(* calculator.js): what rounding can be off by, and what adds up.          *)
LEMMA RoundedIs ==
  ASSUME NEW n \in Nat, NEW d \in Nat \ {0}
  PROVE  /\ Rounded(n, d) \in Nat
         /\ 2 * (d * Rounded(n, d)) <= 2 * n + d
         /\ 2 * n + d < 2 * (d * Rounded(n, d)) + 2 * d
<1> DEFINE x == 2 * n + d
           w == 2 * d
           q == x \div w
<1>1. x \in Nat /\ w \in Nat \ {0} /\ Rounded(n, d) = q
  BY DEF Rounded
<1> HIDE DEF q
<1>2. q \in Nat /\ q * w <= x /\ x < q * w + w
  <2> HIDE DEF x, w
  <2> QED BY <1>1 DEF q
<1>3. q * w = 2 * (d * q)
  BY <1>2
<1> QED BY <1>1, <1>2, <1>3

(* A quotient below q + 1/2 is rounded to q at most; the larger of two is  *)
(* not rounded to less; whole numbers stay what they are.                  *)
LEMMA RoundedMost ==
  ASSUME NEW n \in Nat, NEW d \in Nat \ {0}, NEW q \in Int, 2 * n < 2 * (d * q) + d
  PROVE  Rounded(n, d) <= q
<1> DEFINE r == Rounded(n, d)
<1>1. r \in Nat /\ 2 * (d * r) <= 2 * n + d
  BY RoundedIs
<1> HIDE DEF r
<1>2. d * r \in Int /\ d * q \in Int /\ d * (q + 1) = d * q + d
  BY <1>1
<1>3. d * r < d * (q + 1)
  BY <1>1, <1>2
<1>4. r < q + 1
  BY <1>1, <1>3, ScalesBack, q + 1 \in Int
<1> QED BY <1>1, <1>4 DEF r

LEMMA RoundedOrder ==
  ASSUME NEW m \in Nat, NEW n \in Nat, m <= n, NEW d \in Nat \ {0}
  PROVE  Rounded(m, d) <= Rounded(n, d)
<1> DEFINE r == Rounded(n, d)
<1>1. r \in Nat /\ 2 * n + d < 2 * (d * r) + 2 * d
  BY RoundedIs
<1> HIDE DEF r
<1>2. 2 * m < 2 * (d * r) + d
  <2>1. d * r \in Int
    BY <1>1
  <2> QED BY <1>1, <2>1
<1> QED BY <1>1, <1>2, RoundedMost DEF r

LEMMA RoundedWhole ==
  ASSUME NEW q \in Nat, NEW d \in Nat \ {0}
  PROVE  Rounded(d * q, d) = q
<1> DEFINE p == d * q
           r == Rounded(p, d)
<1>1. p \in Nat /\ p = d * q
  OBVIOUS
<1> HIDE DEF p
<1>2. r <= q
  BY <1>1, RoundedMost
<1>3. r \in Nat /\ 2 * p + d < 2 * (d * r) + 2 * d
  BY <1>1, RoundedIs
<1> HIDE DEF r
<1>4. d * r \in Int /\ d * (r + 1) = d * r + d
  BY <1>3
<1>5. d * q < d * (r + 1)
  BY <1>1, <1>3, <1>4
<1>6. q < r + 1
  BY <1>3, <1>5, ScalesBack, r + 1 \in Int, q \in Int
<1> QED BY <1>1, <1>2, <1>3, <1>6 DEF p, r

(* A subscription of any length and price that is cancelled on any of its  *)
(* days (refund-amount-calculator.js:193) is refunded no more than it cost,*)
(* and no more the later it is cancelled.                                  *)
THEOREM ProratedFairHolds ==
  ASSUME NEW amounts \in SUBSET Nat, NEW days \in SUBSET Nat
  PROVE  ProratedFair(amounts, days)
<1> SUFFICES ASSUME NEW a \in amounts, NEW total \in days, NEW used \in days
             PROVE  /\ calculateProratedRefund(a, total, used) <= a
                    /\ calculateProratedRefund(a, total, used + 1)
                         <= calculateProratedRefund(a, total, used)
  BY DEF ProratedFair
<1>0. a \in Nat /\ total \in Nat /\ used \in Nat
  OBVIOUS
<1>1. CASE total <= 0
  BY <1>0, <1>1 DEF calculateProratedRefund
<1>2. CASE total > 0
  <2> DEFINE u == Unused(total, used)
             v == Unused(total, used + 1)
  <2>1. u \in Nat /\ v \in Nat /\ v <= u /\ u <= total /\ total \in Nat \ {0}
    BY <1>0, <1>2 DEF Unused, Larger
  <2>2. /\ calculateProratedRefund(a, total, used) = Rounded(a * u, total)
        /\ calculateProratedRefund(a, total, used + 1) = Rounded(a * v, total)
    BY <1>0, <1>2 DEF calculateProratedRefund
  <2> HIDE DEF u, v
  <2> DEFINE x == a * v
             y == a * u
             z == total * a
  <2>3. x \in Nat /\ y \in Nat /\ z \in Nat /\ x <= y /\ y <= z
    <3>1. a * v <= a * u /\ a * u <= a * total /\ a * total = total * a
      BY <1>0, <2>1, Scales
    <3> QED BY <1>0, <2>1, <3>1
  <2>4. Rounded(z, total) = a
    BY <1>0, <2>1, RoundedWhole
  <2> HIDE DEF x, y, z
  <2>5. Rounded(x, total) <= Rounded(y, total) /\ Rounded(y, total) <= a
    BY <2>1, <2>3, <2>4, RoundedOrder
  <2> QED BY <2>2, <2>5 DEF x, y
<1> QED BY <1>0, <1>1, <1>2

(* For any base fee, cap and price, and whichever conditions add up        *)
(* (restocking-fee-calculator.js:66), a restocking fee keeps its cap and   *)
(* one more condition never lowers it.                                     *)
THEOREM FeesCappedHolds ==
  ASSUME NEW bases \in SUBSET Nat, NEW caps \in SUBSET Nat, NEW prices \in SUBSET Nat
  PROVE  FeesCapped(bases, caps, prices)
<1> SUFFICES ASSUME NEW b \in bases, NEW cap \in caps, NEW p \in prices,
                    NEW cs \in SUBSET DOMAIN ConditionFees
             PROVE  /\ 100 * RestockingFee(b, cs, cap, p) <= cap * p + 50
                    /\ \A c \in cs : RestockingFee(b, cs \ {c}, cap, p) <= RestockingFee(b, cs, cap, p)
  BY DEF FeesCapped
<1>0. b \in Nat /\ cap \in Nat /\ p \in Nat
  OBVIOUS
<1>1. IsFiniteSet(cs) /\ \A c \in cs : ConditionFees[c] \in Nat
  <2>1. DOMAIN ConditionFees = {"opened", "used", "missing_packaging", "missing_accessories",
                                "damaged_packaging", "assembled", "installed"}
    BY DEF ConditionFees
  <2>2. IsFiniteSet(DOMAIN ConditionFees)
    <3>1. /\ IsFiniteSet({"opened"}) /\ IsFiniteSet({"used"}) /\ IsFiniteSet({"missing_packaging"})
          /\ IsFiniteSet({"missing_accessories"}) /\ IsFiniteSet({"damaged_packaging"})
          /\ IsFiniteSet({"assembled"}) /\ IsFiniteSet({"installed"})
      BY FS_Singleton
    <3>2. IsFiniteSet({"opened"} \cup {"used"} \cup {"missing_packaging"})
      BY <3>1, FS_Union
    <3>3. IsFiniteSet({"missing_accessories"} \cup {"damaged_packaging"})
          /\ IsFiniteSet({"assembled"} \cup {"installed"})
      BY <3>1, FS_Union
    <3> DEFINE A == {"opened"} \cup {"used"} \cup {"missing_packaging"}
               B == {"missing_accessories"} \cup {"damaged_packaging"}
               C == {"assembled"} \cup {"installed"}
    <3>4. DOMAIN ConditionFees = A \cup B \cup C
      BY <2>1
    <3> HIDE DEF A, B, C
    <3>5. IsFiniteSet(A) /\ IsFiniteSet(B) /\ IsFiniteSet(C)
      BY <3>2, <3>3 DEF A, B, C
    <3> QED BY <3>4, <3>5, FS_Union
  <2>3. \A c \in DOMAIN ConditionFees : ConditionFees[c] \in Nat
    BY <2>1 DEF ConditionFees
  <2> QED BY <2>2, <2>3, FS_Subset
<1> DEFINE F(c) == FeePercent(b, c, cap)
<1>2. ASSUME NEW c \in SUBSET cs
      PROVE  SumOver(ConditionFees, c) \in Nat /\ F(c) \in Nat /\ F(c) <= cap
             /\ p * F(c) \in Nat
  <2>1. SumOver(ConditionFees, c) \in Nat
    BY <1>1, FS_Subset, SumType
  <2>2. F(c) \in Nat /\ F(c) <= cap
    BY <1>0, <2>1 DEF FeePercent, Smaller
  <2> HIDE DEF F
  <2> QED BY <1>0, <2>1, <2>2
<1>3. 100 * RestockingFee(b, cs, cap, p) <= cap * p + 50
  <2> DEFINE n == p * F(cs)
  <2>1. n \in Nat /\ RestockingFee(b, cs, cap, p) = Rounded(n, 100) /\ n <= p * cap
    <3>1. RestockingFee(b, cs, cap, p) = Rounded(p * F(cs), 100)
      BY DEF RestockingFee
    <3> HIDE DEF F
    <3> QED BY <1>0, <1>2, <3>1, Scales
  <2> HIDE DEF n
  <2>2. 2 * (100 * Rounded(n, 100)) <= 2 * n + 100 /\ Rounded(n, 100) \in Nat
    BY <2>1, RoundedIs
  <2>3. p * cap = cap * p /\ cap * p \in Nat
    BY <1>0
  <2> QED BY <2>1, <2>2, <2>3
<1>4. ASSUME NEW c \in cs PROVE RestockingFee(b, cs \ {c}, cap, p) <= RestockingFee(b, cs, cap, p)
  <2> DEFINE m == p * F(cs \ {c})
             n == p * F(cs)
  <2>1. RestockingFee(b, cs, cap, p) = Rounded(n, 100)
        /\ RestockingFee(b, cs \ {c}, cap, p) = Rounded(m, 100)
    BY DEF RestockingFee
  <2>2. SumOver(ConditionFees, cs \ {c}) <= SumOver(ConditionFees, cs)
    <3>1. ConditionFees[c] \in Nat /\ SumOver(ConditionFees, cs \ {c}) \in Nat
      BY <1>1, <1>2
    <3>2. SumOver(ConditionFees, cs) = SumOver(ConditionFees, cs \ {c}) + ConditionFees[c]
      BY <1>1, SumWithout
    <3> QED BY <3>1, <3>2
  <2>3. F(cs \ {c}) <= F(cs)
    BY <1>0, <1>2, <2>2 DEF FeePercent, Smaller
  <2> HIDE DEF F
  <2>4. m \in Nat /\ n \in Nat /\ m <= n
    BY <1>0, <1>2, <2>3, Scales
  <2> HIDE DEF m, n
  <2> QED BY <2>1, <2>4, RoundedOrder
<1> QED BY <1>3, <1>4

-----------------------------------------------------------------------------
(* A weekend is skipped from Friday and from Saturday.                     *)
LEMMA SkippedIs ==
  ASSUME NEW w \in Nat
  PROVE  DaysSkipped(w) = CASE w % 7 = 5 -> 2 [] w % 7 = 6 -> 1 [] OTHER -> 0
<1> DEFINE Works(k) == (w + k + 1) % 7 \notin Weekend
           Earliest(k) == Works(k) /\ \A j \in 0 .. k - 1 : ~Works(j)
           v == w % 7
           s == CASE v = 5 -> 2 [] v = 6 -> 1 [] OTHER -> 0
<1>1. v \in 0 .. 6 /\ s \in 0 .. 2
  OBVIOUS
<1>2. /\ (w + 0 + 1) % 7 = (v + 1) % 7 /\ (w + 1 + 1) % 7 = (v + 2) % 7
      /\ (w + 2 + 1) % 7 = (v + 3) % 7
  OBVIOUS
<1>3. Works(0) <=> v \notin {5, 6}
  <2>1. Works(0) <=> (v + 1) % 7 \notin {0, 6}
    BY <1>2 DEF Weekend
  <2> HIDE DEF Works, v
  <2> QED BY <1>1, <2>1
<1>4. Works(1) <=> v \notin {4, 5}
  <2>1. Works(1) <=> (v + 2) % 7 \notin {0, 6}
    BY <1>2 DEF Weekend
  <2> HIDE DEF Works, v
  <2> QED BY <1>1, <2>1
<1>5. Works(2) <=> v \notin {3, 4}
  <2>1. Works(2) <=> (v + 3) % 7 \notin {0, 6}
    BY <1>2 DEF Weekend
  <2> HIDE DEF Works, v
  <2> QED BY <1>1, <2>1
<1>6. DaysSkipped(w) = CHOOSE k \in 0 .. 2 : Earliest(k)
  BY DEF DaysSkipped
<1> HIDE DEF Works, v
<1>7. /\ Earliest(0) <=> Works(0)
      /\ Earliest(1) <=> Works(1) /\ ~Works(0)
      /\ Earliest(2) <=> Works(2) /\ ~Works(1) /\ ~Works(0)
  OBVIOUS
<1> HIDE DEF Earliest
<1>8. \A k \in 0 .. 2 : Earliest(k) <=> k = s
  <2>1. \A k \in 0 .. 2 : k = 0 \/ k = 1 \/ k = 2
    OBVIOUS
  <2>2. Earliest(0) <=> s = 0
    BY <1>1, <1>3, <1>7
  <2>3. Earliest(1) <=> s = 1
    BY <1>1, <1>3, <1>4, <1>7
  <2>4. Earliest(2) <=> s = 2
    BY <1>1, <1>3, <1>4, <1>5, <1>7
  <2> QED BY <2>1, <2>2, <2>3, <2>4
<1> HIDE DEF s
<1>9. (CHOOSE k \in 0 .. 2 : Earliest(k)) = s
  BY <1>1, <1>8
<1> QED BY <1>6, <1>9 DEF s, v

(* What passes until a number of working days have begun: the days of the  *)
(* week it ends on limit how far it is ahead of seven days for five.       *)
InTime(w, k, r) ==
  /\ r \in Nat
  /\ k > 0 => (w + r) % 7 \in 1 .. 5
  /\ (w + r) % 7 \in 1 .. 5 => 5 * r <= 7 * k + 11 - 2 * ((w + r) % 7)
  /\ (w + r) % 7 \notin 1 .. 5 => 5 * r <= 7 * k

LEMMA NextInTime ==
  ASSUME NEW w \in 0 .. 6, NEW k \in Nat, NEW r, InTime(w, k, r)
  PROVE  InTime(w, k + 1, r + DaysSkipped(w + r) + 1)
<1> DEFINE d == (w + r) % 7
           s == DaysSkipped(w + r)
           t == r + s + 1
           e == (w + t) % 7
<1>1. r \in Nat /\ w + r \in Nat /\ d \in 0 .. 6
  BY DEF InTime
<1>2. s = CASE d = 5 -> 2 [] d = 6 -> 1 [] OTHER -> 0
  BY <1>1, SkippedIs
<1> HIDE DEF s
<1>3. s \in 0 .. 2 /\ t \in Nat
  BY <1>1, <1>2
<1>4. e = (d + s + 1) % 7
  BY <1>1, <1>3
<1>5. /\ d \in 1 .. 5 => 5 * r <= 7 * k + 11 - 2 * d
      /\ d \notin 1 .. 5 => 5 * r <= 7 * k
  BY DEF InTime
<1> HIDE DEF d, e
<1>6. e = CASE d = 5 -> 1 [] d = 6 -> 1 [] OTHER -> d + 1
  BY <1>1, <1>2, <1>4
<1>7. e \in 1 .. 5
  BY <1>1, <1>6
<1>8. 5 * t <= 7 * (k + 1) + 11 - 2 * e
  BY <1>1, <1>2, <1>3, <1>5, <1>6
<1> QED BY <1>3, <1>7, <1>8 DEF InTime, e, s

(* For every number of working days (refund-timeline-calculator.js:175)    *)
(* from every day of the week, processing ends on a working day, at most   *)
(* one day after the calendar days promised with it.                       *)
THEOREM TimelineCloseHolds ==
  ASSUME NEW days \in SUBSET Nat
  PROVE  TimelineClose(days)
<1> SUFFICES ASSUME NEW w \in 0 .. 6, NEW n \in days
             PROVE  /\ n > 0 => (w + _addBusinessDays(w, n)) % 7 \notin Weekend
                    /\ _addBusinessDays(w, n) <= _businessToCalendar(n) + 1
  BY DEF TimelineClose
<1> DEFINE turn == [passed \in Nat |-> passed + DaysSkipped(w + passed) + 1]
           st == [added \in 1 .. n |-> turn]
           R(k) == Iterated(st, 0, k)
           U == {k \in 0 .. n : InTime(w, k, R(k))}
<1>0. n \in Nat /\ w \in Nat
  OBVIOUS
<1>1. \A p \in Nat : turn[p] \in Nat /\ turn[p] = p + DaysSkipped(w + p) + 1
  <2>1. \A p \in Nat : DaysSkipped(w + p) \in 0 .. 2
    <3> TAKE p \in Nat
    <3>1. w + p \in Nat
      BY <1>0
    <3> DEFINE v == (w + p) % 7
    <3> HIDE DEF v
    <3>2. DaysSkipped(w + p) = CASE v = 5 -> 2 [] v = 6 -> 1 [] OTHER -> 0
      BY <3>1, SkippedIs DEF v
    <3> QED BY <3>2
  <2> QED BY <2>1
<1>2. turn \in [Nat -> Nat]
  BY <1>1
<1>3. \A k \in 0 .. n : StepsOver(st, k, Nat)
  <2>1. \A k \in 0 .. n : \A j \in 1 .. k : j \in 1 .. n
    BY <1>0
  <2>2. \A j \in 1 .. n : st[j] = turn
    OBVIOUS
  <2> HIDE DEF st, turn
  <2> QED BY <1>2, <2>1, <2>2 DEF StepsOver
<1>4. _addBusinessDays(w, n) = R(n)
  BY DEF _addBusinessDays
<1>5. \A k \in 1 .. n : st[k] = turn
  OBVIOUS
<1> HIDE DEF turn, st
<1>6. 0 \in U
  <2>1. R(0) = 0
    BY IteratedNone
  <2>2. InTime(w, 0, 0)
    BY <1>0 DEF InTime
  <2> QED BY <1>0, <2>1, <2>2
<1>7. ASSUME NEW k \in 0 .. n, k < n, k \in U PROVE k + 1 \in U
  <2>1. k \in Nat /\ k + 1 \in 0 .. n /\ k + 1 \in 1 .. n
    BY <1>0, <1>7
  <2>2. R(k) \in Nat /\ R(k + 1) = st[k + 1][R(k)]
    BY <1>3, <2>1, IteratedStep, 0 \in Nat
  <2>3. R(k + 1) = R(k) + DaysSkipped(w + R(k)) + 1
    BY <1>1, <1>5, <2>1, <2>2
  <2>4. InTime(w, k, R(k))
    BY <1>7
  <2> HIDE DEF R
  <2>5. InTime(w, k + 1, R(k + 1))
    BY <2>1, <2>3, <2>4, NextInTime
  <2> QED BY <2>1, <2>5
<1> HIDE DEF U
<1>8. \A k \in 0 .. n : k \in U
  BY <1>0, <1>6, <1>7, UpTo, Zenon
<1>9. n \in 0 .. n
  BY <1>0
<1>10. InTime(w, n, R(n))
  BY <1>8, <1>9 DEF U
<1> DEFINE r == R(n)
           d == (w + r) % 7
<1> HIDE DEF R
<1>11. r \in Nat /\ d \in 0 .. 6 /\ 5 * r <= 7 * n + 9 /\ (n > 0 => d \in 1 .. 5)
  <2>1. r \in Nat /\ (n > 0 => d \in 1 .. 5)
        /\ (d \in 1 .. 5 => 5 * r <= 7 * n + 11 - 2 * d)
        /\ (d \notin 1 .. 5 => 5 * r <= 7 * n)
    BY <1>10 DEF InTime
  <2>2. d \in 0 .. 6
    BY <1>0, <2>1
  <2> HIDE DEF r, d
  <2> QED BY <1>0, <2>1, <2>2
<1>12. n > 0 => d \notin Weekend
  BY <1>11 DEF Weekend
<1>13. r <= (7 * n + 4) \div 5 + 1
  <2> HIDE DEF r, d
  <2> QED BY <1>0, <1>11
<1> QED BY <1>4, <1>12, <1>13 DEF _businessToCalendar

-----------------------------------------------------------------------------
(* Rounding errors add up: each of e[k] amounts is off by half a unit.     *)
CloseTo(y, x, e, d) == 2 * (d * y) <= 2 * x + d * e /\ 2 * x <= 2 * (d * y) + d * e

AllClose(y, x, e, d, n) == \A k \in 1 .. n : CloseTo(y[k], x[k], e[k], d)

LEMMA ErrorsAdd ==
  ASSUME NEW d \in Nat,
         NEW x \in Int, NEW y \in Int, NEW e \in Int, NEW p \in Int, NEW q \in Int, NEW g \in Int,
         CloseTo(y, x, e, d), CloseTo(q, p, g, d)
  PROVE  CloseTo(y + q, x + p, e + g, d)
<1>1. d * (y + q) = d * y + d * q /\ d * (e + g) = d * e + d * g
  OBVIOUS
<1>2. d * y \in Int /\ d * q \in Int /\ d * e \in Int /\ d * g \in Int
  OBVIOUS
<1> QED BY <1>1, <1>2 DEF CloseTo

LEMMA TotalsClose ==
  ASSUME NEW n \in Nat, NEW d \in Nat, NEW x, NEW y, NEW e,
         AllInts(x, n), AllInts(y, n), AllInts(e, n), AllClose(y, x, e, d, n)
  PROVE  CloseTo(Total(y, n), Total(x, n), Total(e, n), d)
<1> DEFINE U == {m \in 0 .. n : CloseTo(Total(y, m), Total(x, m), Total(e, m), d)}
<1>0. \A k \in 1 .. n : x[k] \in Int /\ y[k] \in Int /\ e[k] \in Int /\ CloseTo(y[k], x[k], e[k], d)
  BY DEF AllInts, AllClose
<1>1. 0 \in U
  <2>1. Total(y, 0) = 0 /\ Total(x, 0) = 0 /\ Total(e, 0) = 0
    BY TotalNone
  <2>2. CloseTo(0, 0, 0, d)
    BY DEF CloseTo
  <2> QED BY <2>1, <2>2
<1>2. ASSUME NEW m \in 0 .. n, m < n, m \in U PROVE m + 1 \in U
  <2>1. m \in Nat /\ m + 1 \in 1 .. n /\ \A k \in 1 .. m + 1 : k \in 1 .. n
    BY <1>2
  <2>2. Total(x, m) \in Int /\ Total(x, m + 1) = Total(x, m) + x[m + 1]
    BY <1>0, <2>1, TotalStep
  <2>3. Total(y, m) \in Int /\ Total(y, m + 1) = Total(y, m) + y[m + 1]
    BY <1>0, <2>1, TotalStep
  <2>4. Total(e, m) \in Int /\ Total(e, m + 1) = Total(e, m) + e[m + 1]
    BY <1>0, <2>1, TotalStep
  <2>5. CloseTo(Total(y, m) + y[m + 1], Total(x, m) + x[m + 1], Total(e, m) + e[m + 1], d)
    BY <1>0, <1>2, <2>1, <2>2, <2>3, <2>4, ErrorsAdd
  <2> QED BY <2>1, <2>2, <2>3, <2>4, <2>5
<1> HIDE DEF U
<1>3. \A m \in 0 .. n : m \in U
  BY <1>1, <1>2, UpTo, Zenon
<1> QED BY <1>3 DEF U

LEMMA RoundedClose ==
  ASSUME NEW n \in Nat, NEW d \in Nat \ {0}
  PROVE  CloseTo(Rounded(n, d), n, 1, d) /\ Rounded(n, d) \in Nat
<1> DEFINE r == Rounded(n, d)
<1>1. r \in Nat /\ 2 * (d * r) <= 2 * n + d /\ 2 * n + d < 2 * (d * r) + 2 * d
  BY RoundedIs
<1> HIDE DEF r
<1>2. d * r \in Int
  BY <1>1
<1> QED BY <1>1, <1>2 DEF CloseTo, r

(* What is close to a multiple of d.                                       *)
LEMMA CloseToMultiple ==
  ASSUME NEW y \in Int, NEW z \in Int, NEW e \in Int, NEW d \in Nat \ {0}, CloseTo(y, d * z, e, d)
  PROVE  2 * y <= 2 * z + e /\ 2 * z <= 2 * y + e
<1>1. /\ d * (2 * z + e) = 2 * (d * z) + d * e /\ d * (2 * y + e) = 2 * (d * y) + d * e
      /\ d * (2 * y) = 2 * (d * y) /\ d * (2 * z) = 2 * (d * z)
  OBVIOUS
<1>2. d * (2 * y) <= d * (2 * z + e) /\ d * (2 * z) <= d * (2 * y + e)
  BY <1>1 DEF CloseTo
<1>3. 2 * y \in Int /\ 2 * z \in Int /\ 2 * z + e \in Int /\ 2 * y + e \in Int
  OBVIOUS
<1>4. ~(2 * z + e < 2 * y) /\ ~(2 * y + e < 2 * z)
  <2>1. ASSUME NEW a \in Int, NEW b \in Int, a < b PROVE d * a < d * b
    <3>1. d * a + d * 1 = d * (a + 1) /\ d * (a + 1) <= d * b
      BY <2>1, Scales
    <3>2. d * a \in Int /\ d * b \in Int /\ d * 1 = d
      OBVIOUS
    <3> QED BY <3>1, <3>2
  <2>2. \A a, b \in Int : d * a \in Int /\ d * b \in Int
    OBVIOUS
  <2> QED BY <1>2, <1>3, <2>1, <2>2
<1> QED BY <1>3, <1>4

-----------------------------------------------------------------------------
(* The amounts of an order's items: tax in hundredths of a cent, tax, and  *)
(* shares of an amount that all items share.                               *)
ExactTaxes(o) == [i \in DOMAIN o.items |-> Price(o.items[i]) * o.items[i].taxRate]
Taxes(o) == [i \in DOMAIN o.items |-> Rounded(Price(o.items[i]) * o.items[i].taxRate, 100)]
ExactShares(o, x) == [i \in DOMAIN o.items |-> x * Price(o.items[i])]
Shares(o, x) == [i \in DOMAIN o.items |-> Rounded(x * Price(o.items[i]), Subtotal(o))]
Ones(o) == [i \in DOMAIN o.items |-> 1]

LEMMA BasketIs ==
  ASSUME NEW o \in Baskets
  PROVE  /\ Len(o.items) \in Nat /\ DOMAIN o.items = 1 .. Len(o.items)
         /\ o.shippingCost \in Nat /\ o.discount \in Nat
         /\ Subtotal(o) \in Nat \ {0} /\ o.discount <= Subtotal(o)
         /\ \A i \in 1 .. Len(o.items) :
              /\ Prices(o)[i] = Price(o.items[i]) /\ Price(o.items[i]) \in Nat
              /\ o.items[i].taxRate \in Nat
<1> DEFINE I == [price : Nat, quantity : Nat \ {0}, taxRate : Nat]
<1>1. /\ o.items \in Seq(I) /\ o.shippingCost \in Nat /\ o.discount \in Nat
      /\ Subtotal(o) > 0 /\ o.discount <= Subtotal(o)
  BY DEF Baskets
<1>2. Len(o.items) \in Nat /\ DOMAIN o.items = 1 .. Len(o.items)
      /\ \A i \in 1 .. Len(o.items) : o.items[i] \in I
  <2> HIDE DEF I
  <2> QED BY <1>1
<1>3. \A i \in 1 .. Len(o.items) : Price(o.items[i]) \in Nat /\ o.items[i].taxRate \in Nat
  <2> TAKE i \in 1 .. Len(o.items)
  <2> DEFINE p == o.items[i].price
             q == o.items[i].quantity
  <2>1. p \in Nat /\ q \in Nat /\ o.items[i].taxRate \in Nat
    BY <1>2
  <2> HIDE DEF p, q
  <2>2. p * q \in Nat
    BY <2>1
  <2> QED BY <2>1, <2>2 DEF Price, p, q
<1>4. \A i \in 1 .. Len(o.items) : Prices(o)[i] = Price(o.items[i])
  BY <1>2 DEF Prices
<1>5. Subtotal(o) \in Int
  <2>1. AllInts(Prices(o), Len(o.items))
    BY <1>3, <1>4 DEF AllInts
  <2> QED BY <1>2, <2>1, TotalType DEF Subtotal, AllOf
<1> QED BY <1>1, <1>2, <1>3, <1>4, <1>5

(* Each of them is a number, and close to what it rounds.                  *)
LEMMA AmountsAre ==
  ASSUME NEW o \in Baskets, NEW x \in Nat, NEW i \in 1 .. Len(o.items)
  PROVE  /\ ExactTaxes(o)[i] = Price(o.items[i]) * o.items[i].taxRate /\ ExactTaxes(o)[i] \in Nat
         /\ Taxes(o)[i] = Rounded(Price(o.items[i]) * o.items[i].taxRate, 100)
         /\ Taxes(o)[i] \in Nat /\ CloseTo(Taxes(o)[i], ExactTaxes(o)[i], 1, 100)
         /\ ExactShares(o, x)[i] = x * Price(o.items[i]) /\ ExactShares(o, x)[i] \in Nat
         /\ Shares(o, x)[i] = Rounded(x * Price(o.items[i]), Subtotal(o))
         /\ Shares(o, x)[i] \in Nat
         /\ CloseTo(Shares(o, x)[i], ExactShares(o, x)[i], 1, Subtotal(o))
         /\ x <= Subtotal(o) => Shares(o, x)[i] <= Price(o.items[i])
<1> DEFINE p == Price(o.items[i])
           r == o.items[i].taxRate
           W == Subtotal(o)
<1>1. p \in Nat /\ r \in Nat /\ W \in Nat \ {0} /\ i \in DOMAIN o.items
  BY BasketIs
<1>2. /\ ExactTaxes(o)[i] = p * r /\ Taxes(o)[i] = Rounded(p * r, 100)
      /\ ExactShares(o, x)[i] = x * p /\ Shares(o, x)[i] = Rounded(x * p, W)
  BY <1>1 DEF ExactTaxes, Taxes, ExactShares, Shares
<1> HIDE DEF p, r, W
<1>3. p * r \in Nat /\ x * p \in Nat
  BY <1>1
<1>4. CloseTo(Rounded(p * r, 100), p * r, 1, 100) /\ Rounded(p * r, 100) \in Nat
  <2> DEFINE n == p * r
  <2>1. n \in Nat /\ 100 \in Nat \ {0}
    BY <1>3
  <2> HIDE DEF n
  <2>2. CloseTo(Rounded(n, 100), n, 1, 100) /\ Rounded(n, 100) \in Nat
    BY <2>1, RoundedClose
  <2> QED BY <2>2 DEF n
<1>5. CloseTo(Rounded(x * p, W), x * p, 1, W) /\ Rounded(x * p, W) \in Nat
  BY <1>1, <1>3, RoundedClose
<1>6. ASSUME x <= W PROVE Rounded(x * p, W) <= p
  <2>1. p * x <= p * W /\ p * x = x * p /\ p * W = W * p /\ W * p \in Nat
    BY <1>1, <1>6, Scales
  <2>2. Rounded(x * p, W) <= Rounded(W * p, W)
    BY <1>1, <1>3, <2>1, RoundedOrder
  <2> QED BY <1>1, <2>2, RoundedWhole
<1> QED BY <1>2, <1>3, <1>4, <1>5, <1>6 DEF p, r, W

(* What is refunded of an item, when the whole item is.                    *)
LEMMA RefundIs ==
  ASSUME NEW o \in Baskets, NEW i \in 1 .. Len(o.items)
  PROVE  Refunded(o, Whole)[i] = Prices(o)[i] + Taxes(o)[i] + Shares(o, o.shippingCost)[i]
                                   - Shares(o, o.discount)[i]
<1> DEFINE item == o.items[i]
           p == Price(item)
           t == Taxes(o)[i]
           h == Shares(o, o.shippingCost)[i]
           d == Shares(o, o.discount)[i]
           W == Subtotal(o)
<1>1. i \in DOMAIN o.items /\ Prices(o)[i] = p /\ p \in Nat /\ o.shippingCost \in Nat /\ o.discount \in Nat
      /\ o.discount <= W /\ W \in Nat \ {0}
  BY BasketIs
<1>2. t \in Nat /\ h \in Nat /\ d \in Nat /\ d <= p
  BY <1>1, AmountsAre
<1>3. /\ t = Rounded(p * item.taxRate, 100) /\ h = Rounded(o.shippingCost * p, W)
      /\ d = Rounded(o.discount * p, W)
  BY <1>1 DEF Taxes, Shares
<1>4. Rounded(p * 0, 100) = 0
  BY <1>1 DEF Rounded
<1>5. /\ Whole.refundShipping = TRUE /\ Whole.restockingFeePercent = 0
      /\ Whole.isPartialRefund = FALSE
  BY DEF Whole
<1>6. Deductions(item, o, Whole, p) = 0 + d
  BY <1>3, <1>4, <1>5 DEF Deductions
<1>7. calculateRefund(item, o, Whole) = Larger(0, p + t + h - Deductions(item, o, Whole, p))
  <2>1. p = item.price * item.quantity
    BY DEF Price
  <2> HIDE DEF p, t, h, d, W, item
  <2> QED BY <1>3, <1>5, <2>1 DEF calculateRefund, W
<1>8. Refunded(o, Whole)[i] = calculateRefund(item, o, Whole)
  BY <1>1 DEF Refunded
<1> HIDE DEF p, t, h, d, W, item
<1>9. Larger(0, p + t + h - (0 + d)) = p + t + h - d
  BY <1>1, <1>2 DEF Larger
<1> QED BY <1>1, <1>6, <1>7, <1>8, <1>9 DEF t, h, d

Nets(f, s, t, h, d, n) == \A k \in 1 .. n : f[k] = s[k] + t[k] + h[k] - d[k]

LEMMA TotalNet ==
  ASSUME NEW n \in Nat, NEW s, NEW t, NEW h, NEW d, NEW f,
         AllInts(s, n), AllInts(t, n), AllInts(h, n), AllInts(d, n), Nets(f, s, t, h, d, n)
  PROVE  /\ Total(s, n) \in Int /\ Total(t, n) \in Int /\ Total(h, n) \in Int /\ Total(d, n) \in Int
         /\ Total(f, n) = Total(s, n) + Total(t, n) + Total(h, n) - Total(d, n)
<1> DEFINE a == [k \in 1 .. n |-> s[k] + t[k]]
           b == [k \in 1 .. n |-> h[k] - d[k]]
<1>1. \A k \in 1 .. n : a[k] \in Int /\ b[k] \in Int /\ a[k] = 1 * s[k] + 1 * t[k]
                        /\ b[k] = 1 * h[k] + (-1) * d[k] /\ f[k] = 1 * a[k] + 1 * b[k]
  BY DEF AllInts, Nets
<1> HIDE DEF a, b
<1>2. /\ AllInts(a, n) /\ AllInts(b, n) /\ Mixes(a, 1, s, 1, t, n) /\ Mixes(b, 1, h, -1, d, n)
      /\ Mixes(f, 1, a, 1, b, n) /\ 1 \in Int /\ -1 \in Int
  BY <1>1 DEF AllInts, Mixes
<1>3. Total(a, n) = 1 * Total(s, n) + 1 * Total(t, n)
  BY <1>2, TotalSum
<1>4. Total(b, n) = 1 * Total(h, n) + (-1) * Total(d, n)
  BY <1>2, TotalSum
<1>5. Total(f, n) = 1 * Total(a, n) + 1 * Total(b, n)
  BY <1>2, TotalSum
<1>6. Total(s, n) \in Int /\ Total(t, n) \in Int /\ Total(h, n) \in Int /\ Total(d, n) \in Int
  BY TotalType
<1> QED BY <1>3, <1>4, <1>5, <1>6

(* The amounts of all items of an order: numbers that add up.              *)
LEMMA BasketSums ==
  ASSUME NEW o \in Baskets, NEW x \in Nat
  PROVE  LET n == Len(o.items)
         IN  /\ AllInts(Prices(o), n) /\ AllInts(Taxes(o), n) /\ AllInts(ExactTaxes(o), n)
             /\ AllInts(Shares(o, x), n) /\ AllInts(ExactShares(o, x), n) /\ AllInts(Ones(o), n)
             /\ AllClose(Taxes(o), ExactTaxes(o), Ones(o), 100, n)
             /\ AllClose(Shares(o, x), ExactShares(o, x), Ones(o), Subtotal(o), n)
             /\ Mixes(ExactShares(o, x), x, Prices(o), 0, Prices(o), n)
             /\ Total(Ones(o), n) = n
             /\ Nets(Refunded(o, Whole), Prices(o), Taxes(o), Shares(o, o.shippingCost),
                     Shares(o, o.discount), n)
<1> DEFINE n == Len(o.items)
<1>1. /\ n \in Nat /\ DOMAIN o.items = 1 .. n
      /\ \A i \in 1 .. n : Prices(o)[i] = Price(o.items[i]) /\ Price(o.items[i]) \in Nat
  BY BasketIs
<1>2. ASSUME NEW i \in 1 .. n
      PROVE  /\ ExactTaxes(o)[i] \in Nat /\ Taxes(o)[i] \in Nat
             /\ ExactShares(o, x)[i] \in Nat /\ Shares(o, x)[i] \in Nat
             /\ CloseTo(Taxes(o)[i], ExactTaxes(o)[i], 1, 100)
             /\ CloseTo(Shares(o, x)[i], ExactShares(o, x)[i], 1, Subtotal(o))
             /\ ExactShares(o, x)[i] = x * Price(o.items[i])
  BY AmountsAre
<1>3. \A i \in 1 .. n : Ones(o)[i] = 1
  BY <1>1 DEF Ones
<1>4. \A i \in 1 .. n : x * Price(o.items[i]) = x * Price(o.items[i]) + 0 * Price(o.items[i])
  BY <1>1
<1>5. Nets(Refunded(o, Whole), Prices(o), Taxes(o), Shares(o, o.shippingCost), Shares(o, o.discount), n)
  BY RefundIs DEF Nets
<1> HIDE DEF n
<1>6. Total(Ones(o), n) = n
  BY <1>1, <1>3, TotalOnes
<1>7. /\ AllInts(Prices(o), n) /\ AllInts(Taxes(o), n) /\ AllInts(ExactTaxes(o), n)
      /\ AllInts(Shares(o, x), n) /\ AllInts(ExactShares(o, x), n) /\ AllInts(Ones(o), n)
  BY <1>1, <1>2, <1>3 DEF AllInts
<1>8. /\ AllClose(Taxes(o), ExactTaxes(o), Ones(o), 100, n)
      /\ AllClose(Shares(o, x), ExactShares(o, x), Ones(o), Subtotal(o), n)
  BY <1>2, <1>3 DEF AllClose
<1>9. Mixes(ExactShares(o, x), x, Prices(o), 0, Prices(o), n)
  BY <1>1, <1>2, <1>4 DEF Mixes
<1> QED BY <1>5, <1>6, <1>7, <1>8, <1>9 DEF n

(* However many items an order has, and whatever its prices, rates,        *)
(* shipping cost and discount, refunding it item by item (refund-amount-   *)
(* calculator.js:44) pays back what was paid, up to the rounding of three  *)
(* amounts of each item.                                                   *)
THEOREM OrderRefundExactHolds ==
  ASSUME NEW orders \in SUBSET Baskets
  PROVE  OrderRefundExact(orders)
<1> DEFINE taxed(o) == [i \in DOMAIN o.items |-> Price(o.items[i]) * (100 + o.items[i].taxRate)]
           paid(o) == AllOf(o, taxed(o)) + 100 * (o.shippingCost - o.discount)
<1> SUFFICES ASSUME NEW o \in orders
             PROVE  Distance(100 * calculateOrderRefund(o, Whole), paid(o)) <= 150 * Len(o.items)
  BY DEF OrderRefundExact
<1> DEFINE n == Len(o.items)
           W == Subtotal(o)
           sh == o.shippingCost
           di == o.discount
           xt == Total(ExactTaxes(o), n)
           t == Total(Taxes(o), n)
           h == Total(Shares(o, sh), n)
           d == Total(Shares(o, di), n)
<1>0. /\ o \in Baskets /\ n \in Nat /\ DOMAIN o.items = 1 .. n /\ sh \in Nat /\ di \in Nat
      /\ W \in Nat \ {0} /\ W = Total(Prices(o), n)
      /\ \A i \in 1 .. n : Prices(o)[i] = Price(o.items[i]) /\ Price(o.items[i]) \in Nat
                           /\ o.items[i].taxRate \in Nat
  BY BasketIs DEF Subtotal, AllOf
<1>1. \A x \in Nat :
        /\ AllInts(Prices(o), n) /\ AllInts(Taxes(o), n) /\ AllInts(ExactTaxes(o), n)
        /\ AllInts(Shares(o, x), n) /\ AllInts(ExactShares(o, x), n) /\ AllInts(Ones(o), n)
        /\ AllClose(Taxes(o), ExactTaxes(o), Ones(o), 100, n)
        /\ AllClose(Shares(o, x), ExactShares(o, x), Ones(o), W, n)
        /\ Mixes(ExactShares(o, x), x, Prices(o), 0, Prices(o), n)
        /\ Total(Ones(o), n) = n
        /\ Nets(Refunded(o, Whole), Prices(o), Taxes(o), Shares(o, sh), Shares(o, di), n)
  BY <1>0, BasketSums
<1>2. calculateOrderRefund(o, Whole) = W + t + h - d /\ t \in Int /\ h \in Int /\ d \in Int
  <2>1. calculateOrderRefund(o, Whole) = Total(Refunded(o, Whole), n)
    BY DEF calculateOrderRefund, AllOf
  <2> HIDE DEF n, sh, di, W
  <2> QED BY <1>0, <1>1, <2>1, TotalNet
<1>3. AllOf(o, taxed(o)) = 100 * W + xt /\ xt \in Int
  <2>1. ASSUME NEW i \in 1 .. n PROVE taxed(o)[i] = 100 * Prices(o)[i] + 1 * ExactTaxes(o)[i]
    <3> DEFINE p == Price(o.items[i])
               r == o.items[i].taxRate
    <3>1. taxed(o)[i] = p * (100 + r) /\ ExactTaxes(o)[i] = p * r /\ Prices(o)[i] = p
          /\ p \in Nat /\ r \in Nat
      BY <1>0 DEF ExactTaxes
    <3> HIDE DEF p, r, taxed
    <3>2. p * (100 + r) = 100 * p + 1 * (p * r)
      BY <3>1
    <3> QED BY <3>1, <3>2
  <2> HIDE DEF taxed
  <2>2. Mixes(taxed(o), 100, Prices(o), 1, ExactTaxes(o), n)
    BY <2>1 DEF Mixes
  <2>3. AllOf(o, taxed(o)) = Total(taxed(o), n)
    BY DEF AllOf
  <2> HIDE DEF n
  <2>4. Total(taxed(o), n) = 100 * Total(Prices(o), n) + 1 * xt
    BY <1>0, <1>1, <2>2, TotalSum, 100 \in Int, 1 \in Int, 0 \in Nat
  <2>5. xt \in Int
    BY <1>0, <1>1, TotalType, 0 \in Nat
  <2> QED BY <1>0, <2>3, <2>4, <2>5
<1>4. ASSUME NEW x \in Nat
      PROVE  2 * Total(Shares(o, x), n) <= 2 * x + n /\ 2 * x <= 2 * Total(Shares(o, x), n) + n
  <2> HIDE DEF n, W
  <2>1. CloseTo(Total(Shares(o, x), n), Total(ExactShares(o, x), n), Total(Ones(o), n), W)
    BY <1>0, <1>1, TotalsClose
  <2>2. Total(ExactShares(o, x), n) = x * W + 0 * W
    BY <1>0, <1>1, TotalSum, x \in Int, 0 \in Int
  <2>3. x * W + 0 * W = W * x
    BY <1>0
  <2>4. Total(Shares(o, x), n) \in Int /\ Total(Ones(o), n) = n
    BY <1>0, <1>1, TotalType
  <2> DEFINE y == Total(Shares(o, x), n)
  <2>5. CloseTo(y, W * x, n, W)
    BY <2>1, <2>2, <2>3, <2>4
  <2> HIDE DEF y
  <2>6. y \in Int /\ x \in Int /\ n \in Int /\ W \in Nat \ {0}
    BY <1>0, <2>4 DEF y
  <2>7. 2 * y <= 2 * x + n /\ 2 * x <= 2 * y + n
    BY <2>5, <2>6, CloseToMultiple
  <2> QED BY <2>7 DEF y
<1>5. CloseTo(t, xt, n, 100)
  <2> HIDE DEF n
  <2>1. CloseTo(t, xt, Total(Ones(o), n), 100)
    BY <1>0, <1>1, TotalsClose, 100 \in Nat, 0 \in Nat
  <2> QED BY <1>1, <2>1, 0 \in Nat
<1>6. /\ 2 * h <= 2 * sh + n /\ 2 * sh <= 2 * h + n
      /\ 2 * d <= 2 * di + n /\ 2 * di <= 2 * d + n
  BY <1>0, <1>4
<1>7. 2 * (100 * t) <= 2 * xt + 100 * n /\ 2 * xt <= 2 * (100 * t) + 100 * n
  BY <1>5 DEF CloseTo
<1> HIDE DEF n, W, sh, di, xt, t, h, d, taxed
<1>8. paid(o) = 100 * W + xt + 100 * (sh - di)
  BY <1>0, <1>3 DEF sh, di
<1> HIDE DEF paid
<1> DEFINE a == 100 * (W + t + h - d)
           b == 100 * W + xt + 100 * (sh - di)
<1>9. a \in Int /\ b \in Int /\ a - b <= 150 * n /\ b - a <= 150 * n
  <2>1. /\ n \in Int /\ W \in Int /\ sh \in Int /\ di \in Int /\ t \in Int /\ h \in Int /\ d \in Int
        /\ xt \in Int
    BY <1>0, <1>2, <1>3
  <2> QED BY ONLY <2>1, <1>6, <1>7
<1>10. calculateOrderRefund(o, Whole) = W + t + h - d /\ paid(o) = b
  BY <1>2, <1>8
<1> HIDE DEF a, b
<1>11. Distance(a, b) <= 150 * n
  BY <1>0, <1>9 DEF Distance, Larger
<1> QED BY <1>10, <1>11 DEF a, n

(* Of some items: as many amounts as there are items among them.           *)
LEMMA OnlyIs ==
  ASSUME NEW n \in Nat, NEW f, DOMAIN f = 1 .. n, NEW S
  PROVE  \A k \in 1 .. n : OnlyOf(f, S)[k] = IF k \in S THEN f[k] ELSE 0
BY DEF OnlyOf

LEMMA OnesCount ==
  ASSUME NEW n \in Nat, NEW S \in SUBSET (1 .. n), NEW f,
         \A k \in 1 .. n : f[k] = IF k \in S THEN 1 ELSE 0
  PROVE  Total(f, n) = Cardinality(S) /\ Cardinality(S) \in Nat
<1> DEFINE U == {m \in 0 .. n : IsFiniteSet(S \cap (1 .. m)) /\ Total(f, m) = Cardinality(S \cap (1 .. m))}
<1>1. 0 \in U
  <2>1. S \cap (1 .. 0) = {} /\ Total(f, 0) = 0
    BY TotalNone
  <2> QED BY <2>1, FS_EmptySet
<1>2. ASSUME NEW m \in 0 .. n, m < n, m \in U PROVE m + 1 \in U
  <2>1. m \in Nat /\ m + 1 \in 1 .. n /\ \A k \in 1 .. m + 1 : k \in 1 .. n /\ f[k] \in Int
    BY <1>2
  <2>2. Total(f, m + 1) = Total(f, m) + f[m + 1]
    BY <2>1, TotalStep
  <2> DEFINE A == S \cap (1 .. m)
             B == S \cap (1 .. m + 1)
  <2>3. IsFiniteSet(A) /\ Total(f, m) = Cardinality(A) /\ Cardinality(A) \in Nat
    BY <1>2, FS_CardinalityType
  <2>4. CASE m + 1 \in S
    <3>1. B = A \cup {m + 1} /\ m + 1 \notin A /\ f[m + 1] = 1
      BY <2>1, <2>4
    <3> HIDE DEF A, B
    <3>2. IsFiniteSet(B) /\ Cardinality(B) = Cardinality(A) + 1
      BY <2>3, <3>1, FS_AddElement
    <3> QED BY <2>1, <2>2, <2>3, <3>1, <3>2 DEF B
  <2>5. CASE m + 1 \notin S
    <3>1. B = A /\ f[m + 1] = 0
      BY <2>1, <2>5
    <3> HIDE DEF A, B
    <3>2. IsFiniteSet(B) /\ Total(f, m + 1) = Cardinality(B)
      BY <2>2, <2>3, <3>1
    <3> QED BY <2>1, <3>2 DEF B
  <2> QED BY <2>4, <2>5
<1> HIDE DEF U
<1>3. \A m \in 0 .. n : m \in U
  BY <1>1, <1>2, UpTo, Zenon
<1>4. n \in U /\ S \cap (1 .. n) = S
  <2>1. n \in 0 .. n
    OBVIOUS
  <2> QED BY <1>3, <2>1
<1> QED BY <1>4, FS_CardinalityType DEF U

LEMMA OnlySums ==
  ASSUME NEW o \in Baskets, NEW x \in Nat, NEW S \in SUBSET DOMAIN o.items
  PROVE  LET n == Len(o.items)
             Of(f) == OnlyOf(f, S)
         IN  /\ AllInts(Of(Prices(o)), n) /\ AllInts(Of(Taxes(o)), n) /\ AllInts(Of(ExactTaxes(o)), n)
             /\ AllInts(Of(Shares(o, x)), n) /\ AllInts(Of(ExactShares(o, x)), n)
             /\ AllInts(Of(Ones(o)), n)
             /\ AllClose(Of(Taxes(o)), Of(ExactTaxes(o)), Of(Ones(o)), 100, n)
             /\ AllClose(Of(Shares(o, x)), Of(ExactShares(o, x)), Of(Ones(o)), Subtotal(o), n)
             /\ Mixes(Of(ExactShares(o, x)), x, Of(Prices(o)), 0, Of(Prices(o)), n)
             /\ Total(Of(Ones(o)), n) = Cardinality(S) /\ Cardinality(S) \in Nat
             /\ Nets(Of(Refunded(o, Whole)), Of(Prices(o)), Of(Taxes(o)),
                     Of(Shares(o, o.shippingCost)), Of(Shares(o, o.discount)), n)
             /\ NowhereAbove(Of(Prices(o)), Prices(o), n)
             /\ \A k \in 1 .. n : Of(Prices(o))[k] >= 0
<1> DEFINE n == Len(o.items)
           Of(f) == OnlyOf(f, S)
<1>0. /\ n \in Nat /\ DOMAIN o.items = 1 .. n /\ Subtotal(o) \in Nat \ {0}
      /\ o.shippingCost \in Nat /\ o.discount \in Nat
      /\ \A i \in 1 .. n : Prices(o)[i] \in Nat
  BY BasketIs
<1>1. /\ AllInts(Prices(o), n) /\ AllInts(Taxes(o), n) /\ AllInts(ExactTaxes(o), n)
      /\ AllInts(Shares(o, x), n) /\ AllInts(ExactShares(o, x), n) /\ AllInts(Ones(o), n)
      /\ AllClose(Taxes(o), ExactTaxes(o), Ones(o), 100, n)
      /\ AllClose(Shares(o, x), ExactShares(o, x), Ones(o), Subtotal(o), n)
      /\ Mixes(ExactShares(o, x), x, Prices(o), 0, Prices(o), n)
      /\ Nets(Refunded(o, Whole), Prices(o), Taxes(o), Shares(o, o.shippingCost),
              Shares(o, o.discount), n)
  BY BasketSums
<1>2. /\ DOMAIN Prices(o) = 1 .. n /\ DOMAIN Taxes(o) = 1 .. n /\ DOMAIN ExactTaxes(o) = 1 .. n
      /\ \A y : DOMAIN Shares(o, y) = 1 .. n /\ DOMAIN ExactShares(o, y) = 1 .. n
      /\ DOMAIN Ones(o) = 1 .. n /\ DOMAIN Refunded(o, Whole) = 1 .. n
  BY <1>0 DEF Prices, Taxes, ExactTaxes, Shares, ExactShares, Ones, Refunded
<1>3. \A i \in 1 .. n : Ones(o)[i] = 1
  BY <1>0 DEF Ones
<1>4. S \in SUBSET (1 .. n)
  BY <1>0
<1> HIDE DEF n
<1>5. ASSUME NEW f, DOMAIN f = 1 .. n
      PROVE  \A k \in 1 .. n : Of(f)[k] = IF k \in S THEN f[k] ELSE 0
  BY <1>0, <1>5, OnlyIs
<1> HIDE DEF Of
<1>6. ASSUME NEW f, DOMAIN f = 1 .. n, AllInts(f, n) PROVE AllInts(Of(f), n)
  <2>1. \A k \in 1 .. n : Of(f)[k] = IF k \in S THEN f[k] ELSE 0
    BY <1>5, <1>6
  <2>2. \A k \in 1 .. n : f[k] \in Int
    BY <1>6 DEF AllInts
  <2>3. \A k \in 1 .. n : Of(f)[k] \in Int
    BY <2>1, <2>2
  <2> QED BY <2>3 DEF AllInts
<1>7. ASSUME NEW y, NEW z, NEW d \in Nat, DOMAIN y = 1 .. n, DOMAIN z = 1 .. n,
             AllClose(y, z, Ones(o), d, n)
      PROVE  AllClose(Of(y), Of(z), Of(Ones(o)), d, n)
  <2> SUFFICES ASSUME NEW k \in 1 .. n
               PROVE  CloseTo(Of(y)[k], Of(z)[k], Of(Ones(o))[k], d)
    BY DEF AllClose
  <2>1. CASE k \in S
    <3>1. Of(y)[k] = y[k] /\ Of(z)[k] = z[k] /\ Of(Ones(o))[k] = Ones(o)[k]
      BY <1>2, <1>5, <1>7, <2>1
    <3> QED BY <1>7, <3>1 DEF AllClose
  <2>2. CASE k \notin S
    <3>1. Of(y)[k] = 0 /\ Of(z)[k] = 0 /\ Of(Ones(o))[k] = 0
      BY <1>2, <1>5, <1>7, <2>2
    <3>2. CloseTo(0, 0, 0, d)
      BY <1>7 DEF CloseTo
    <3> QED BY <3>1, <3>2
  <2> QED BY <2>1, <2>2
<1>8. Mixes(Of(ExactShares(o, x)), x, Of(Prices(o)), 0, Of(Prices(o)), n)
  <2> SUFFICES ASSUME NEW k \in 1 .. n
               PROVE  Of(ExactShares(o, x))[k] = x * Of(Prices(o))[k] + 0 * Of(Prices(o))[k]
    BY DEF Mixes
  <2>1. Of(ExactShares(o, x))[k] = (IF k \in S THEN ExactShares(o, x)[k] ELSE 0)
        /\ Of(Prices(o))[k] = (IF k \in S THEN Prices(o)[k] ELSE 0)
    BY <1>2, <1>5
  <2>2. ExactShares(o, x)[k] = x * Prices(o)[k] + 0 * Prices(o)[k]
    BY <1>1 DEF Mixes
  <2>3. x * 0 + 0 * 0 = 0
    OBVIOUS
  <2> QED BY <2>1, <2>2, <2>3
<1>9. Nets(Of(Refunded(o, Whole)), Of(Prices(o)), Of(Taxes(o)),
           Of(Shares(o, o.shippingCost)), Of(Shares(o, o.discount)), n)
  <2> SUFFICES ASSUME NEW k \in 1 .. n
               PROVE  Of(Refunded(o, Whole))[k] = Of(Prices(o))[k] + Of(Taxes(o))[k]
                        + Of(Shares(o, o.shippingCost))[k] - Of(Shares(o, o.discount))[k]
    BY DEF Nets
  <2> DEFINE a == Refunded(o, Whole)
             b == Prices(o)
             c == Taxes(o)
             d == Shares(o, o.shippingCost)
             e == Shares(o, o.discount)
  <2>1. /\ Of(a)[k] = (IF k \in S THEN a[k] ELSE 0) /\ Of(b)[k] = (IF k \in S THEN b[k] ELSE 0)
        /\ Of(c)[k] = (IF k \in S THEN c[k] ELSE 0) /\ Of(d)[k] = (IF k \in S THEN d[k] ELSE 0)
        /\ Of(e)[k] = (IF k \in S THEN e[k] ELSE 0)
    BY <1>2, <1>5
  <2>2. a[k] = b[k] + c[k] + d[k] - e[k]
    BY <1>1 DEF Nets
  <2> HIDE DEF a, b, c, d, e
  <2>3. Of(a)[k] = Of(b)[k] + Of(c)[k] + Of(d)[k] - Of(e)[k]
    BY <2>1, <2>2
  <2> QED BY <2>3 DEF a, b, c, d, e
<1>10. Total(Of(Ones(o)), n) = Cardinality(S) /\ Cardinality(S) \in Nat
  <2>1. \A k \in 1 .. n : Of(Ones(o))[k] = IF k \in S THEN 1 ELSE 0
    BY <1>2, <1>3, <1>5
  <2> QED BY <1>0, <1>4, <2>1, OnesCount
<1>11. NowhereAbove(Of(Prices(o)), Prices(o), n) /\ \A k \in 1 .. n : Of(Prices(o))[k] >= 0
  <2>1. \A k \in 1 .. n : Of(Prices(o))[k] = IF k \in S THEN Prices(o)[k] ELSE 0
    BY <1>2, <1>5
  <2> QED BY <1>0, <2>1 DEF NowhereAbove
<1>12. /\ AllInts(Of(Prices(o)), n) /\ AllInts(Of(Taxes(o)), n) /\ AllInts(Of(ExactTaxes(o)), n)
       /\ AllInts(Of(Shares(o, x)), n) /\ AllInts(Of(ExactShares(o, x)), n)
       /\ AllInts(Of(Ones(o)), n)
  BY <1>1, <1>2, <1>6
<1>13. AllClose(Of(Taxes(o)), Of(ExactTaxes(o)), Of(Ones(o)), 100, n)
  BY <1>1, <1>2, <1>7, 100 \in Nat
<1>14. AllClose(Of(Shares(o, x)), Of(ExactShares(o, x)), Of(Ones(o)), Subtotal(o), n)
  BY <1>0, <1>1, <1>2, <1>7
<1> QED BY <1>8, <1>9, <1>10, <1>11, <1>12, <1>13, <1>14 DEF n, Of

(* What the rounding of the tax, of the three amounts of each selected item*)
(* and of the result can be off by.                                        *)
LEMMA SelectionClose ==
  ASSUME NEW W \in Nat \ {0}, NEW s \in Nat, s <= W, NEW n \in Nat, NEW c \in Nat,
         NEW r \in Nat, NEW sh \in Nat, NEW di \in Nat,
         NEW tax \in Int, NEW t \in Int, NEW h \in Int, NEW d \in Int, NEW q \in Int,
         CloseTo(tax, r * W, n, 100), CloseTo(t, r * s, c, 100),
         CloseTo(h, sh * s, c, W), CloseTo(d, di * s, c, W),
         CloseTo(q, W * s + s * (tax + sh - di), 1, W)
  PROVE  /\ 2 * q <= 2 * (s + t + h - d) + n + 3 * c + 1
         /\ 2 * (s + t + h - d) <= 2 * q + n + 3 * c + 1
<1> DEFINE Ws == W * s
           st == s * tax
           Wt == W * t
           Wh == W * h
           Wd == W * d
           Wq == W * q
           hs == sh * s
           ds == di * s
           Wc == W * c
           Wn == W * n
           rsW == r * s * W
           sn == s * n
<1>1. /\ Ws \in Int /\ st \in Int /\ Wt \in Int /\ Wh \in Int /\ Wd \in Int /\ Wq \in Int
      /\ hs \in Int /\ ds \in Int /\ Wc \in Nat /\ Wn \in Nat /\ rsW \in Int /\ sn \in Nat
  OBVIOUS
<1>2. sn <= Wn
  <2>1. n * s <= n * W
    BY Scales
  <2>2. n * s = s * n /\ n * W = W * n
    OBVIOUS
  <2> QED BY <2>1, <2>2
<1>3. 2 * Wq <= 2 * (Ws + st + hs - ds) + W /\ 2 * (Ws + st + hs - ds) <= 2 * Wq + W
  <2>1. W * s + s * (tax + sh - di) = Ws + st + hs - ds
    OBVIOUS
  <2> QED BY <2>1 DEF CloseTo
<1>4. 200 * st <= 2 * rsW + 100 * sn /\ 2 * rsW <= 200 * st + 100 * sn
  <2> DEFINE a == 2 * (100 * tax)
             b == 2 * (r * W)
  <2>1. a \in Int /\ b \in Int /\ 100 * n \in Int /\ a <= b + 100 * n /\ b <= a + 100 * n
    <3>1. r * W \in Int
      OBVIOUS
    <3> QED BY <3>1 DEF CloseTo
  <2>2. s * a = 200 * st /\ s * b = 2 * rsW /\ s * (b + 100 * n) = 2 * rsW + 100 * sn
        /\ s * (a + 100 * n) = 200 * st + 100 * sn
    OBVIOUS
  <2> HIDE DEF a, b
  <2>3. s * a <= s * (b + 100 * n) /\ s * b <= s * (a + 100 * n)
    BY <2>1, Scales, s \in Nat
  <2> QED BY <2>2, <2>3
<1>5. 200 * Wt <= 2 * rsW + 100 * Wc /\ 2 * rsW <= 200 * Wt + 100 * Wc
  <2> DEFINE a == 2 * (100 * t)
             b == 2 * (r * s)
  <2>1. a \in Int /\ b \in Int /\ 100 * c \in Int /\ a <= b + 100 * c /\ b <= a + 100 * c
    <3>1. r * s \in Int
      OBVIOUS
    <3> QED BY <3>1 DEF CloseTo
  <2>2. W * a = 200 * Wt /\ W * b = 2 * rsW /\ W * (b + 100 * c) = 2 * rsW + 100 * Wc
        /\ W * (a + 100 * c) = 200 * Wt + 100 * Wc
    OBVIOUS
  <2> HIDE DEF a, b
  <2>3. W * a <= W * (b + 100 * c) /\ W * b <= W * (a + 100 * c)
    BY <2>1, Scales, W \in Nat
  <2> QED BY <2>2, <2>3
<1>6. /\ 2 * Wh <= 2 * hs + Wc /\ 2 * hs <= 2 * Wh + Wc
      /\ 2 * Wd <= 2 * ds + Wc /\ 2 * ds <= 2 * Wd + Wc
  BY DEF CloseTo
<1> DEFINE y == s + t + h - d
           e == n + 3 * c + 1
<1>7. /\ y \in Int /\ e \in Nat /\ 2 * y + e \in Int /\ 2 * q + e \in Int /\ 2 * q \in Int /\ 2 * y \in Int
      /\ W * (2 * q) = 2 * Wq /\ W * (2 * y) = 2 * Ws + 2 * Wt + 2 * Wh - 2 * Wd
      /\ W * (2 * y + e) = 2 * Ws + 2 * Wt + 2 * Wh - 2 * Wd + Wn + 3 * Wc + W
      /\ W * (2 * q + e) = 2 * Wq + Wn + 3 * Wc + W
  OBVIOUS
<1> HIDE DEF Ws, st, Wt, Wh, Wd, Wq, hs, ds, Wc, Wn, rsW, sn, y, e
<1>8. W * (2 * q) <= W * (2 * y + e) /\ W * (2 * y) <= W * (2 * q + e)
  BY <1>1, <1>2, <1>3, <1>4, <1>5, <1>6, <1>7
<1>9. ASSUME NEW a \in Int, NEW b \in Int, W * a <= W * b PROVE a <= b
  <2>1. ASSUME b < a PROVE FALSE
    <3>1. b + 1 <= a /\ b + 1 \in Int
      BY <2>1
    <3>2. W * (b + 1) <= W * a
      BY <3>1, Scales, W \in Nat
    <3>3. W * (b + 1) = W * b + W /\ W * b \in Int /\ W * a \in Int
      OBVIOUS
    <3> QED BY <1>9, <3>2, <3>3
  <2> QED BY <2>1
<1>10. 2 * q <= 2 * y + e /\ 2 * y <= 2 * q + e
  BY <1>7, <1>8, <1>9
<1>11. e = n + 3 * c + 1
  BY DEF e
<1> QED BY <1>7, <1>10, <1>11 DEF y

(* For every order taxed at one rate and every selection of its items, the *)
(* two calculators (partial-refund-calculator.js:32, refund-amount-        *)
(* calculator.js:44) differ by what they round at most.                    *)
THEOREM CalculatorsAgreeHolds ==
  ASSUME NEW orders \in SUBSET Baskets
  PROVE  CalculatorsAgree(orders)
<1> SUFFICES ASSUME NEW o \in orders, NEW S \in SUBSET DOMAIN o.items,
                    \A i, j \in DOMAIN o.items : o.items[i].taxRate = o.items[j].taxRate
             PROVE  /\ 2 * Distance(calculateItemSelection(o, AllOf(o, Taxes(o)), S),
                                    AllOf(o, OnlyOf(Refunded(o, Whole), S)))
                         <= 3 * Cardinality(S) + Len(o.items) + 1
                    /\ \A i \in S, p \in CompensationRates :
                         calculateShare(o.items[i], p) <= Price(o.items[i])
  BY DEF CalculatorsAgree, Taxes
<1> DEFINE n == Len(o.items)
           W == Subtotal(o)
           sh == o.shippingCost
           di == o.discount
           c == Cardinality(S)
           Of(f) == OnlyOf(f, S)
           s == Total(Of(Prices(o)), n)
           t == Total(Of(Taxes(o)), n)
           h == Total(Of(Shares(o, sh)), n)
           d == Total(Of(Shares(o, di)), n)
           tax == Total(Taxes(o), n)
<1>0. /\ o \in Baskets /\ n \in Nat /\ DOMAIN o.items = 1 .. n /\ sh \in Nat /\ di \in Nat
      /\ W \in Nat \ {0} /\ di <= W /\ W = Total(Prices(o), n)
      /\ \A i \in 1 .. n : Prices(o)[i] = Price(o.items[i]) /\ Price(o.items[i]) \in Nat
                           /\ o.items[i].taxRate \in Nat
  BY BasketIs DEF Subtotal, AllOf
<1>1. \A i \in S, p \in CompensationRates : calculateShare(o.items[i], p) <= Price(o.items[i])
  <2> SUFFICES ASSUME NEW i \in S, NEW p \in CompensationRates
               PROVE  calculateShare(o.items[i], p) <= Price(o.items[i])
    OBVIOUS
  <2> DEFINE v == Price(o.items[i])
  <2>1. v \in Nat /\ p \in 0 .. 100 /\ calculateShare(o.items[i], p) = Rounded(v * Larger(0, p), 100)
    BY <1>0 DEF CompensationRates, calculateShare
  <2> HIDE DEF v
  <2>2. Larger(0, p) = p
    BY <2>1 DEF Larger
  <2> DEFINE a == v * p
             b == 100 * v
  <2>3. a \in Nat /\ b \in Nat /\ a <= b /\ Rounded(b, 100) = v
    <3>1. v * p <= v * 100 /\ v * 100 = 100 * v
      BY <2>1, Scales, p \in Int
    <3>2. Rounded(100 * v, 100) = v
      BY <2>1, RoundedWhole, 100 \in Nat \ {0}
    <3> QED BY <2>1, <3>1, <3>2
  <2> HIDE DEF a, b
  <2>4. Rounded(a, 100) <= v
    BY <2>3, RoundedOrder, 100 \in Nat \ {0}
  <2> QED BY <2>1, <2>2, <2>4 DEF a, v
<1>2. /\ AllInts(Prices(o), n) /\ AllInts(Taxes(o), n) /\ AllInts(ExactTaxes(o), n)
      /\ AllInts(Ones(o), n) /\ Total(Ones(o), n) = n
      /\ AllClose(Taxes(o), ExactTaxes(o), Ones(o), 100, n)
  BY <1>0, BasketSums, 0 \in Nat
<1>3. \A x \in Nat :
        /\ AllInts(Of(Prices(o)), n) /\ AllInts(Of(Taxes(o)), n) /\ AllInts(Of(ExactTaxes(o)), n)
        /\ AllInts(Of(Shares(o, x)), n) /\ AllInts(Of(ExactShares(o, x)), n) /\ AllInts(Of(Ones(o)), n)
        /\ AllClose(Of(Taxes(o)), Of(ExactTaxes(o)), Of(Ones(o)), 100, n)
        /\ AllClose(Of(Shares(o, x)), Of(ExactShares(o, x)), Of(Ones(o)), W, n)
        /\ Mixes(Of(ExactShares(o, x)), x, Of(Prices(o)), 0, Of(Prices(o)), n)
        /\ Total(Of(Ones(o)), n) = c /\ c \in Nat
        /\ Nets(Of(Refunded(o, Whole)), Of(Prices(o)), Of(Taxes(o)), Of(Shares(o, sh)),
                Of(Shares(o, di)), n)
        /\ NowhereAbove(Of(Prices(o)), Prices(o), n)
        /\ \A k \in 1 .. n : Of(Prices(o))[k] >= 0
  BY <1>0, OnlySums
<1>4. \E r \in Nat : /\ Mixes(ExactTaxes(o), r, Prices(o), 0, Prices(o), n)
                     /\ Mixes(Of(ExactTaxes(o)), r, Of(Prices(o)), 0, Of(Prices(o)), n)
  <2>1. PICK r \in Nat : \A i \in 1 .. n : o.items[i].taxRate = r
    <3>1. CASE n = 0
      BY <3>1
    <3>2. CASE n # 0
      <4>1. 1 \in 1 .. n
        BY <1>0, <3>2
      <4>2. o.items[1].taxRate \in Nat
        BY <1>0, <4>1
      <4>3. \A i \in 1 .. n : o.items[i].taxRate = o.items[1].taxRate
        BY <1>0, <4>1
      <4> QED BY <4>2, <4>3
    <3> QED BY <3>1, <3>2
  <2>2. ASSUME NEW i \in 1 .. n PROVE ExactTaxes(o)[i] = r * Prices(o)[i] + 0 * Prices(o)[i]
    <3> DEFINE v == Price(o.items[i])
    <3>1. ExactTaxes(o)[i] = v * r /\ Prices(o)[i] = v /\ v \in Nat
      BY <1>0, <2>1 DEF ExactTaxes
    <3> HIDE DEF v
    <3> QED BY <3>1
  <2>3. /\ DOMAIN ExactTaxes(o) = 1 .. n /\ DOMAIN Prices(o) = 1 .. n
    BY <1>0 DEF ExactTaxes, Prices
  <2> HIDE DEF n
  <2>4. \A k \in 1 .. n : /\ Of(ExactTaxes(o))[k] = (IF k \in S THEN ExactTaxes(o)[k] ELSE 0)
                          /\ Of(Prices(o))[k] = (IF k \in S THEN Prices(o)[k] ELSE 0)
    BY <1>0, <2>3, OnlyIs
  <2> HIDE DEF Of
  <2>5. r * 0 + 0 * 0 = 0
    OBVIOUS
  <2>6. \A k \in 1 .. n : Of(ExactTaxes(o))[k] = r * Of(Prices(o))[k] + 0 * Of(Prices(o))[k]
    BY <2>2, <2>4, <2>5
  <2> QED BY <2>2, <2>6 DEF Mixes
<1>5. PICK r \in Nat : /\ Mixes(ExactTaxes(o), r, Prices(o), 0, Prices(o), n)
                       /\ Mixes(Of(ExactTaxes(o)), r, Of(Prices(o)), 0, Of(Prices(o)), n)
  BY <1>4
<1>6. AllOf(o, OnlyOf(Refunded(o, Whole), S)) = s + t + h - d
      /\ s \in Int /\ t \in Int /\ h \in Int /\ d \in Int
  <2>1. AllOf(o, OnlyOf(Refunded(o, Whole), S)) = Total(Of(Refunded(o, Whole)), n)
    BY DEF AllOf
  <2> HIDE DEF n, Of, sh, di, W, c
  <2> QED BY <1>0, <1>3, <2>1, TotalNet
<1>7. 0 <= s /\ s <= W
  <2>1. \A k \in 1 .. n : Of(Prices(o))[k] \in Nat
    BY <1>3, 0 \in Nat DEF AllInts
  <2> HIDE DEF n, Of
  <2>2. s \in Nat
    BY <1>0, <2>1, TotalNatural
  <2>3. s <= W
    BY <1>0, <1>2, <1>3, TotalOrder, 0 \in Nat
  <2> QED BY <2>2, <2>3
<1>8. ASSUME NEW x \in Nat PROVE CloseTo(Total(Of(Shares(o, x)), n), x * s, c, W)
  <2> HIDE DEF n, Of, W, c
  <2>1. CloseTo(Total(Of(Shares(o, x)), n), Total(Of(ExactShares(o, x)), n), Total(Of(Ones(o)), n), W)
    BY <1>0, <1>3, TotalsClose
  <2>2. Total(Of(ExactShares(o, x)), n) = x * s + 0 * s
    BY <1>0, <1>3, TotalSum, x \in Int, 0 \in Int
  <2>3. x * s + 0 * s = x * s
    BY <1>6
  <2> QED BY <1>3, <2>1, <2>2, <2>3
<1>9. CloseTo(t, r * s, c, 100)
  <2> HIDE DEF n, Of, c
  <2>1. CloseTo(t, Total(Of(ExactTaxes(o)), n), Total(Of(Ones(o)), n), 100)
    BY <1>0, <1>3, TotalsClose, 100 \in Nat, 0 \in Nat
  <2>2. Total(Of(ExactTaxes(o)), n) = r * s + 0 * s
    BY <1>0, <1>3, <1>5, TotalSum, r \in Int, 0 \in Int, 0 \in Nat
  <2>3. r * s + 0 * s = r * s
    BY <1>6
  <2> QED BY <1>3, <2>1, <2>2, <2>3, 0 \in Nat
<1>10. CloseTo(tax, r * W, n, 100) /\ tax \in Int
  <2> HIDE DEF n, W
  <2>1. CloseTo(tax, Total(ExactTaxes(o), n), Total(Ones(o), n), 100)
    BY <1>0, <1>2, TotalsClose, 100 \in Nat, 0 \in Nat
  <2>2. Total(ExactTaxes(o), n) = r * W + 0 * W
    BY <1>0, <1>2, <1>5, TotalSum, r \in Int, 0 \in Int, 0 \in Nat
  <2>3. r * W + 0 * W = r * W /\ tax \in Int
    BY <1>0, <1>2, TotalType, 0 \in Nat
  <2> QED BY <1>2, <2>1, <2>2, <2>3, 0 \in Nat
<1> DEFINE m == W * s + s * (tax + sh - di)
           q == Rounded(m, W)
<1>11. calculateItemSelection(o, AllOf(o, Taxes(o)), S) = q
  BY DEF calculateItemSelection, ItemSelected, AllOf
<1>12. c \in Nat
  BY <1>3, 0 \in Nat
<1>12a. tax >= 0
  <2>1. \A k \in 1 .. n : Taxes(o)[k] \in Nat
    BY <1>0, AmountsAre, 0 \in Nat
  <2> HIDE DEF n
  <2>2. tax \in Nat
    BY <1>0, <2>1, TotalNatural
  <2> QED BY <2>2
<1> HIDE DEF n, W, sh, di, c, Of, s, t, h, d, tax, m, q
<1>13. m \in Nat
  <2> DEFINE u == W + tax + sh - di
  <2>1. u \in Nat /\ s \in Nat
    BY <1>0, <1>6, <1>7, <1>10, <1>12a
  <2>2. m = s * u
    BY <1>0, <1>6, <1>10 DEF m
  <2> HIDE DEF u
  <2> QED BY <2>1, <2>2
<1>14. CloseTo(q, m, 1, W) /\ q \in Nat
  BY <1>0, <1>13, RoundedClose DEF q
<1>15. /\ 2 * q <= 2 * (s + t + h - d) + n + 3 * c + 1
       /\ 2 * (s + t + h - d) <= 2 * q + n + 3 * c + 1
  <2>1. CloseTo(h, sh * s, c, W) /\ CloseTo(d, di * s, c, W)
    BY <1>0, <1>8 DEF h, d
  <2>2. s \in Nat /\ q \in Int
    BY <1>6, <1>7, <1>14
  <2>3. CloseTo(q, W * s + s * (tax + sh - di), 1, W)
    BY <1>14 DEF m
  <2> QED BY <1>0, <1>6, <1>7, <1>9, <1>10, <1>12, <2>1, <2>2, <2>3, SelectionClose
<1> DEFINE y == s + t + h - d
<1>16. y \in Int
  BY <1>6
<1>17. 2 * q <= 2 * y + n + 3 * c + 1 /\ 2 * y <= 2 * q + n + 3 * c + 1
  BY <1>15
<1>18. AllOf(o, OnlyOf(Refunded(o, Whole), S)) = y
  BY <1>6
<1> HIDE DEF y
<1>19. 2 * Distance(q, y) <= 3 * c + n + 1
  BY <1>0, <1>12, <1>14, <1>16, <1>17 DEF Distance, Larger
<1> QED BY <1>1, <1>11, <1>18, <1>19 DEF c, n

-----------------------------------------------------------------------------
(* Pages and cut messages.  The length of a text, line by line.            *)
LEMMA WeightNone == Weight(<<>>) = 0
BY TotalNone DEF Weight

LEMMA WeightAppend ==
  ASSUME NEW s \in Seq(Int), NEW x \in Int
  PROVE  Weight(s) \in Int /\ Weight(Append(s, x)) = Weight(s) + x + 1
<1>1. Total(s, Len(s)) \in Int /\ Total(Append(s, x), Len(Append(s, x))) = Total(s, Len(s)) + x
  BY TotalAppend
<1>2. Len(s) \in Nat /\ Len(Append(s, x)) = Len(s) + 1
  OBVIOUS
<1> QED BY <1>1, <1>2 DEF Weight

LEMMA TextInts == \A s \in Texts : s \in Seq(Int)
<1> SUFFICES ASSUME NEW s \in Seq(Nat) PROVE s \in Seq(Int)
  BY DEF Texts
<1>1. \A i \in 1 .. Len(s) : s[i] \in Int
  OBVIOUS
<1>2. s = [i \in 1 .. Len(s) |-> s[i]] /\ Len(s) \in Nat
  OBVIOUS
<1> QED BY <1>1, <1>2

LEMMA WeightIs == \A s \in Texts : Weight(s) \in Nat
<1> SUFFICES ASSUME NEW s \in Seq(Nat) PROVE Weight(s) \in Nat
  BY DEF Texts
<1>1. Len(s) \in Nat /\ \A k \in 1 .. Len(s) : s[k] \in Nat
  OBVIOUS
<1>2. Total(s, Len(s)) \in Nat
  BY <1>1, TotalNatural
<1> QED BY <1>1, <1>2 DEF Weight

LEMMA WeightConcat ==
  ASSUME NEW a \in Texts
  PROVE  \A b \in Texts : Weight(a \o b) = Weight(a) + Weight(b)
<1> DEFINE D == {b \in Texts : Weight(a \o b) = Weight(a) + Weight(b)}
<1>0. a \in Seq(Nat) /\ Weight(a) \in Nat
  BY WeightIs DEF Texts
<1>1. <<>> \in D
  <2>1. a \o <<>> = a /\ <<>> \in Texts
    BY <1>0 DEF Texts
  <2> QED BY <1>0, <2>1, WeightNone
<1>2. ASSUME NEW s \in Seq(Nat), NEW x \in Nat, s \in D PROVE Append(s, x) \in D
  <2>1. Weight(a \o s) = Weight(a) + Weight(s)
    BY <1>2
  <2>2. a \o s \in Texts /\ s \in Texts /\ Append(s, x) \in Texts /\ a \o Append(s, x) = Append(a \o s, x)
    BY <1>0 DEF Texts
  <2>3. a \o s \in Seq(Int) /\ s \in Seq(Int) /\ x \in Int
    BY <2>2, TextInts
  <2>4. Weight(Append(s, x)) = Weight(s) + x + 1 /\ Weight(Append(a \o s, x)) = Weight(a \o s) + x + 1
    BY <2>3, WeightAppend
  <2>5. Weight(s) \in Nat
    BY <2>2, WeightIs
  <2>6. Weight(a \o Append(s, x)) = Weight(a) + Weight(Append(s, x))
    BY <1>0, <2>1, <2>2, <2>4, <2>5
  <2> QED BY <2>2, <2>6
<1> HIDE DEF D
<1>3. \A s \in Seq(Nat) : s \in D
  BY <1>1, <1>2, BySequence, Zenon
<1> QED BY <1>3 DEF D, Texts

(* All lines of pages, and of one page more.                               *)
LEMMA AllLinesNone == AllLines(<<>>) = <<>>
<1>1. Len(<<>>) = 0
  OBVIOUS
<1> QED BY <1>1, IteratedNone DEF AllLines

Joins(pages) == [n \in DOMAIN pages |-> [text \in Texts |-> text \o pages[n]]]

LEMMA AllLinesAppend ==
  ASSUME NEW pages \in Seq(Texts), NEW page \in Texts
  PROVE  AllLines(pages) \in Texts /\ AllLines(Append(pages, page)) = AllLines(pages) \o page
<1> DEFINE more == Append(pages, page)
           n == Len(pages)
           st == Joins(pages)
           su == Joins(more)
           none == <<>>
<1>1. /\ n \in Nat /\ more \in Seq(Texts) /\ Len(more) = n + 1 /\ more[n + 1] = page
      /\ DOMAIN more = 1 .. n + 1 /\ DOMAIN pages = 1 .. n
      /\ \A k \in 1 .. n : more[k] = pages[k] /\ pages[k] \in Texts /\ k \in 1 .. n + 1
  OBVIOUS
<1>2. \A t, u \in Texts : t \o u \in Texts
  BY DEF Texts
<1>3. AllLines(pages) = Iterated(st, none, n) /\ AllLines(more) = Iterated(su, none, n + 1)
  BY <1>1 DEF AllLines, Joins
<1>4. none \in Texts
  BY DEF Texts
<1> HIDE DEF more, n
<1>5. \A k \in 1 .. n + 1 : su[k] = [text \in Texts |-> text \o more[k]]
  BY <1>1 DEF Joins
<1>6. \A k \in 1 .. n : st[k] = [text \in Texts |-> text \o pages[k]]
  BY <1>1 DEF Joins
<1> HIDE DEF st, su, none
<1>7. \A k \in 1 .. n : su[k] = st[k]
  BY <1>1, <1>5, <1>6
<1>8. StepsOver(su, n + 1, Texts)
  <2> SUFFICES ASSUME NEW k \in 1 .. n + 1 PROVE su[k] \in [Texts -> Texts]
    BY DEF StepsOver
  <2>1. more[k] \in Texts
    BY <1>1
  <2> QED BY <1>2, <1>5, <2>1
<1>9. StepsOver(st, n, Texts)
  <2> SUFFICES ASSUME NEW k \in 1 .. n PROVE st[k] \in [Texts -> Texts]
    BY DEF StepsOver
  <2>1. pages[k] \in Texts
    BY <1>1
  <2> QED BY <1>2, <1>6, <2>1
<1>10. Iterated(su, none, n) = Iterated(st, none, n)
  BY <1>1, <1>4, <1>7, <1>9, IteratedAlike
<1>11. Iterated(su, none, n) \in Texts /\ Iterated(su, none, n + 1) = su[n + 1][Iterated(su, none, n)]
  BY <1>1, <1>4, <1>8, IteratedStep
<1>12. n + 1 \in 1 .. n + 1
  BY <1>1
<1>13. su[n + 1] = [text \in Texts |-> text \o page]
  BY <1>1, <1>5, <1>12
<1>14. AllLines(pages) \in Texts /\ AllLines(more) = su[n + 1][AllLines(pages)]
  BY <1>3, <1>10, <1>11
<1> QED BY <1>13, <1>14 DEF more
(* The least and the greatest of some places.                              *)
LEMMA Extremes ==
  ASSUME NEW n \in Nat \ {0}, NEW F \in SUBSET (1 .. n), F # {}
  PROVE  Min(F) \in F /\ Max(F) \in F /\ \A i \in F : Min(F) <= i /\ i <= Max(F)
<1> DEFINE up == [i \in 1 .. n |-> IF i \in F THEN i ELSE 0]
           down == [i \in 1 .. n |-> IF i \in F THEN 0 - i ELSE 0 - (n + 1)]
<1>1. /\ \A i \in 1 .. n : up[i] \in Int /\ down[i] \in Int
      /\ \A i \in F : i \in 1 .. n /\ up[i] = i /\ down[i] = 0 - i
      /\ \A i \in 1 .. n : i \notin F => up[i] = 0 /\ down[i] = 0 - (n + 1)
  OBVIOUS
<1> HIDE DEF up, down
<1>2. PICK k \in 1 .. n : \A i \in 1 .. n : up[i] <= up[k]
  BY <1>1, Greatest
<1>3. PICK m \in 1 .. n : \A i \in 1 .. n : down[i] <= down[m]
  BY <1>1, Greatest
<1> PICK e \in F : TRUE
  OBVIOUS
<1>3a. e \in 1 .. n /\ up[e] = e /\ down[e] = 0 - e /\ e \in Int /\ 1 <= e /\ e <= n
  BY <1>1
<1>3b. e <= up[k] /\ 0 - e <= down[m]
  BY <1>2, <1>3, <1>3a
<1>3c. k \in F
  <2>1. k \notin F => up[k] = 0
    BY <1>1
  <2> QED BY <1>3a, <1>3b, <2>1
<1>3d. m \in F
  <2>1. m \notin F => down[m] = 0 - (n + 1)
    BY <1>1
  <2> QED BY <1>3a, <1>3b, <2>1
<1>4. k \in F /\ \A i \in F : k >= i
  BY <1>1, <1>2, <1>3c
<1>5. m \in F /\ \A i \in F : m =< i
  <2> SUFFICES ASSUME NEW i \in F PROVE m =< i
    BY <1>3d
  <2>1. down[i] = 0 - i /\ down[m] = 0 - m /\ down[i] <= down[m] /\ i \in Int /\ m \in Int
    BY <1>1, <1>3, <1>3d
  <2> QED BY <2>1
<1>6. Max(F) \in F /\ \A i \in F : Max(F) >= i
  BY <1>4, Zenon DEF Max
<1>7. Min(F) \in F /\ \A i \in F : Min(F) =< i
  BY <1>5, Zenon DEF Min
<1> QED BY <1>1, <1>6, <1>7

(* What is cut off a page at its ends is empty lines.                      *)
LEMMA NonEmptyBlank ==
  ASSUME NEW s \in Texts, \A i \in 1 .. Len(s) : s[i] = 0
  PROVE  NonEmpty(s) = <<>>
<1> DEFINE T == Nat \ {0}
           p == Passing(s, T)
<1>1. s \in Seq(Nat)
  BY DEF Texts
<1>2. p \in Seq(Nat) /\ Elems(p) = Elems(s) \cap T
  BY <1>1, PassingType, PassingElems
<1>3. Elems(s) \cap T = {}
  BY DEF Elems
<1> HIDE DEF p
<1>4. Len(p) \in Nat /\ (Len(p) = 0 => p = <<>>)
  BY <1>2
<1>5. \A i \in 1 .. Len(p) : p[i] \in Elems(p)
  BY <1>2, ElemsIn
<1>6. Len(p) > 0 => 1 \in 1 .. Len(p)
  BY <1>4
<1>7. Len(p) = 0
  BY <1>2, <1>3, <1>4, <1>5, <1>6
<1> QED BY <1>4, <1>7 DEF NonEmpty, p

LEMMA TrimmedSplits ==
  ASSUME NEW t \in Texts
  PROVE  \E a \in Texts, b \in Texts :
           /\ Trimmed(t) \in Texts /\ t = a \o (Trimmed(t) \o b)
           /\ NonEmpty(a) = <<>> /\ NonEmpty(b) = <<>>
<1> DEFINE F == {n \in DOMAIN t : t[n] > 0}
           N == Len(t)
<1>1. /\ t \in Seq(Nat) /\ N \in Nat /\ F \in SUBSET (1 .. N)
      /\ \A n \in 1 .. N : n \in F <=> t[n] > 0
      /\ \A n \in 1 .. N : t[n] \in Nat
  BY DEF Texts
<1>2. Trimmed(t) = IF F = {} THEN <<>> ELSE SubSeq(t, Min(F), Max(F))
  BY DEF Trimmed
<1> HIDE DEF F, N
<1>3. CASE F = {}
  <2> DEFINE none == <<>>
  <2>1. none \in Texts /\ Len(none) = 0 /\ t = t \o (none \o none) /\ Trimmed(t) = none
    BY <1>1, <1>2, <1>3 DEF Texts
  <2>2. (\A i \in 1 .. Len(none) : none[i] = 0) /\ \A i \in 1 .. Len(t) : t[i] = 0
    BY <1>1, <1>3, <2>1 DEF N
  <2> HIDE DEF none
  <2>3. NonEmpty(none) = <<>> /\ NonEmpty(t) = <<>>
    BY <2>1, <2>2, NonEmptyBlank
  <2> QED BY <2>1, <2>3
<1>4. CASE F # {}
  <2> DEFINE lo == Min(F)
             hi == Max(F)
  <2>0. N \in Nat \ {0}
    <3>1. PICK e \in F : TRUE
      BY <1>4
    <3>2. e \in 1 .. N
      BY <1>1
    <3> QED BY <1>1, <3>2
  <2>1. lo \in F /\ hi \in F /\ \A i \in F : lo <= i /\ i <= hi
    BY <1>1, <1>4, <2>0, Extremes
  <2>2. Trimmed(t) = SubSeq(t, lo, hi)
    BY <1>2, <1>4
  <2> HIDE DEF lo, hi
  <2>3. lo \in 1 .. N /\ hi \in lo .. N
    BY <1>1, <2>1
  <2>3a. PICK a \in Seq(Nat), c \in Seq(Nat), b \in Seq(Nat) : Surround(a, c, b, t, lo, hi)
    BY <1>1, <2>3, ThreeParts DEF N
  <2>4. /\ c = SubSeq(t, lo, hi) /\ t = a \o (c \o b)
        /\ Len(a) = lo - 1 /\ \A i \in 1 .. lo - 1 : a[i] = t[i]
        /\ Len(b) = N - hi /\ \A i \in 1 .. N - hi : b[i] = t[hi + i]
    BY <2>3a DEF Surround, N
  <2>5. \A i \in 1 .. lo - 1 : i \in 1 .. N /\ i \notin F
    BY <1>1, <2>1, <2>3
  <2>6. \A i \in 1 .. N - hi : hi + i \in 1 .. N /\ hi + i \notin F
    BY <1>1, <2>1, <2>3
  <2>7. \A i \in 1 .. Len(a) : a[i] = 0
    BY <1>1, <2>4, <2>5
  <2>8. \A i \in 1 .. Len(b) : b[i] = 0
    <3> SUFFICES ASSUME NEW i \in 1 .. N - hi PROVE b[i] = 0
      BY <2>4
    <3>1. b[i] = t[hi + i] /\ hi + i \in 1 .. N /\ hi + i \notin F
      BY <2>4, <2>6
    <3>2. t[hi + i] \in Nat /\ ~(t[hi + i] > 0)
      BY <1>1, <3>1
    <3> QED BY <3>1, <3>2
  <2>9. a \in Texts /\ b \in Texts /\ c \in Texts
    BY DEF Texts
  <2>10. NonEmpty(a) = <<>> /\ NonEmpty(b) = <<>>
    BY <2>7, <2>8, <2>9, NonEmptyBlank
  <2> QED BY <2>2, <2>4, <2>9, <2>10
<1> QED BY <1>3, <1>4

(* Trimming a page loses no line that is not empty, and adds nothing.      *)
LEMMA TrimmedKeeps ==
  ASSUME NEW t \in Texts
  PROVE  /\ Trimmed(t) \in Texts /\ NonEmpty(Trimmed(t)) = NonEmpty(t)
         /\ Weight(Trimmed(t)) <= Weight(t) /\ Len(Trimmed(t)) <= Len(t)
<1>1. PICK a \in Texts, b \in Texts :
        /\ Trimmed(t) \in Texts /\ t = a \o (Trimmed(t) \o b)
        /\ NonEmpty(a) = <<>> /\ NonEmpty(b) = <<>>
  BY TrimmedSplits
<1> DEFINE c == Trimmed(t)
           d == c \o b
<1> HIDE DEF c
<1>2. a \in Seq(Nat) /\ b \in Seq(Nat) /\ c \in Seq(Nat) /\ d \in Seq(Nat) /\ d \in Texts /\ t = a \o d
  BY <1>1 DEF Texts, c
<1>3. Len(t) = Len(a) + Len(d) /\ Len(d) = Len(c) + Len(b) /\ Len(a) \in Nat /\ Len(b) \in Nat /\ Len(c) \in Nat
  BY <1>2
<1>4. Weight(d) = Weight(c) + Weight(b)
  BY <1>1, WeightConcat DEF c
<1>5. NonEmpty(d) = NonEmpty(c) \o NonEmpty(b)
  BY <1>2, PassingConcat DEF NonEmpty
<1> HIDE DEF d
<1>6. Weight(t) = Weight(a) + Weight(d) /\ NonEmpty(t) = NonEmpty(a) \o NonEmpty(d)
  BY <1>2, WeightConcat, PassingConcat DEF NonEmpty
<1>7. Weight(a) \in Nat /\ Weight(b) \in Nat /\ Weight(c) \in Nat
  BY <1>1, WeightIs DEF c
<1>8. NonEmpty(c) \in Seq(Nat)
  BY <1>2, PassingType DEF NonEmpty
<1>9. NonEmpty(t) = NonEmpty(c)
  BY <1>1, <1>5, <1>6, <1>8
<1> QED BY <1>1, <1>3, <1>4, <1>6, <1>7, <1>9 DEF c

(* A sequence is what is before its last element, and that element.        *)
LEMMA FrontLast ==
  ASSUME NEW S, NEW s \in Seq(S), s # <<>>
  PROVE  Front(s) \in Seq(S) /\ Last(s) \in S /\ s = Append(Front(s), Last(s))
         /\ Len(s) = Len(Front(s)) + 1
<1>1. PICK t \in Seq(S), x \in S : s = Append(t, x)
  BY SequenceEmptyOrAppend
<1> DEFINE n == Len(t)
<1>2. n \in Nat /\ Len(s) = n + 1 /\ s[n + 1] = x /\ \A i \in 1 .. n : s[i] = t[i] /\ s[i] \in S
  BY <1>1
<1> HIDE DEF n
<1>3. SubSeq(s, 1, n) \in Seq(S) /\ Len(SubSeq(s, 1, n)) = n
      /\ \A i \in 1 .. n : SubSeq(s, 1, n)[i] = t[i]
  <2>1. /\ SubSeq(s, 1, n) \in Seq(S) /\ Len(SubSeq(s, 1, n)) = IF 1 <= n THEN n - 1 + 1 ELSE 0
        /\ \A i \in 1 .. n - 1 + 1 : SubSeq(s, 1, n)[i] = s[1 + i - 1]
    BY <1>2, 1 \in Int, n \in Int, SubSeqProperties
  <2>2. n - 1 + 1 = n /\ \A i \in 1 .. n : 1 + i - 1 = i
    BY <1>2
  <2> QED BY <1>2, <2>1, <2>2
<1>4. Front(s) = SubSeq(s, 1, n) /\ Last(s) = x
  BY <1>2 DEF Front, Last
<1>5. Front(s) = t
  BY <1>3, <1>4, SeqEqual DEF n
<1> QED BY <1>1, <1>2, <1>4, <1>5 DEF n

(* What paginate() has when it has read some lines.                        *)
Drafts == Seq(Texts) \ {<<>>}

LEMMA DraftsGrow ==
  ASSUME NEW P \in Seq(Texts), NEW page \in Texts
  PROVE  Append(P, page) \in Drafts
BY AppendProperties DEF Drafts

LEMMA OneLonger ==
  ASSUME NEW t \in Seq(Nat), NEW x \in Nat
  PROVE  /\ Len(Append(t, x)) = Len(t) + 1 /\ Append(t, x) # <<>>
         /\ t = <<>> => Len(t) = 0
         /\ t # <<>> => Append(t, x)[1] = t[1]
<1>1. Len(Append(t, x)) = Len(t) + 1 /\ Append(t, x) # <<>>
      /\ \A i \in 1 .. Len(t) : Append(t, x)[i] = t[i]
  BY AppendProperties
<1>2. Len(t) \in Nat /\ (t = <<>> <=> Len(t) = 0)
  OBVIOUS
<1>3. t # <<>> => 1 \in 1 .. Len(t)
  BY <1>2
<1> QED BY <1>1, <1>2, <1>3

LEMMA PlacedType ==
  ASSUME NEW P \in Drafts, NEW x \in Nat, NEW z \in Nat
  PROVE  Placed(P, x, z) \in Drafts
<1>1. P \in Seq(Texts) /\ P # <<>>
  BY DEF Drafts
<1>2. Front(P) \in Seq(Texts) /\ Last(P) \in Texts
  BY <1>1, FrontLast
<1>3. <<x>> \in Texts /\ Append(Last(P), x) \in Texts
  BY <1>2 DEF Texts
<1>4. Append(P, <<x>>) \in Drafts /\ Append(Front(P), Append(Last(P), x)) \in Drafts
  BY <1>1, <1>2, <1>3, DraftsGrow
<1> QED BY <1>4 DEF Placed

Places(s, z) == [n \in DOMAIN s |-> [pages \in Drafts |-> Placed(pages, s[n], z)]]

LEMMA FilledNone == ASSUME NEW z PROVE Filled(<<>>, z) = << <<>> >>
<1>1. Len(<<>>) = 0
  OBVIOUS
<1> QED BY <1>1, IteratedNone DEF Filled

LEMMA FilledAppend ==
  ASSUME NEW s \in Texts, NEW x \in Nat, NEW z \in Nat
  PROVE  Filled(s, z) \in Drafts /\ Filled(Append(s, x), z) = Placed(Filled(s, z), x, z)
<1> DEFINE more == Append(s, x)
           n == Len(s)
           st == Places(s, z)
           su == Places(more, z)
           blank == << <<>> >>
<1>0. s \in Seq(Nat)
  BY DEF Texts
<1>1. /\ n \in Nat /\ Len(more) = n + 1 /\ more[n + 1] = x
      /\ DOMAIN more = 1 .. n + 1 /\ DOMAIN s = 1 .. n
      /\ (\A k \in 1 .. n : more[k] = s[k] /\ s[k] \in Nat /\ k \in 1 .. n + 1)
      /\ \A k \in 1 .. n + 1 : more[k] \in Nat
  BY <1>0
<1>2. Filled(s, z) = Iterated(st, blank, n) /\ Filled(more, z) = Iterated(su, blank, n + 1)
  BY <1>1 DEF Filled, Places, Drafts
<1>3. blank \in Drafts
  BY DEF Texts, Drafts
<1> HIDE DEF more, n
<1>4. \A k \in 1 .. n + 1 : su[k] = [pages \in Drafts |-> Placed(pages, more[k], z)]
  BY <1>1 DEF Places
<1>5. \A k \in 1 .. n : st[k] = [pages \in Drafts |-> Placed(pages, s[k], z)]
  BY <1>1 DEF Places
<1> HIDE DEF st, su, blank
<1>6. \A k \in 1 .. n : su[k] = st[k]
  BY <1>1, <1>4, <1>5
<1>7. StepsOver(su, n + 1, Drafts)
  <2> SUFFICES ASSUME NEW k \in 1 .. n + 1 PROVE su[k] \in [Drafts -> Drafts]
    BY DEF StepsOver
  <2>1. more[k] \in Nat
    BY <1>1
  <2>2. \A P \in Drafts : Placed(P, more[k], z) \in Drafts
    BY <2>1, PlacedType
  <2> QED BY <1>4, <2>2
<1>8. StepsOver(st, n, Drafts)
  <2> SUFFICES ASSUME NEW k \in 1 .. n PROVE st[k] \in [Drafts -> Drafts]
    BY DEF StepsOver
  <2>1. s[k] \in Nat
    BY <1>1
  <2>2. \A P \in Drafts : Placed(P, s[k], z) \in Drafts
    BY <2>1, PlacedType
  <2> QED BY <1>5, <2>2
<1>9. Iterated(su, blank, n) = Iterated(st, blank, n)
  BY <1>1, <1>3, <1>6, <1>8, IteratedAlike
<1>10. Iterated(su, blank, n) \in Drafts /\ Iterated(su, blank, n + 1) = su[n + 1][Iterated(su, blank, n)]
  BY <1>1, <1>3, <1>7, IteratedStep
<1>11. n + 1 \in 1 .. n + 1
  BY <1>1
<1>12. su[n + 1] = [pages \in Drafts |-> Placed(pages, x, z)]
  BY <1>1, <1>4, <1>11
<1>13. Filled(s, z) \in Drafts /\ Filled(more, z) = su[n + 1][Filled(s, z)]
  BY <1>2, <1>9, <1>10
<1> QED BY <1>12, <1>13 DEF more

(* Together they are the lines read so far; a page keeps to its size       *)
(* unless it is a single longer line, and no two neighbours fit on one.    *)
PagesOf(P, s, z) ==
  /\ P \in Drafts /\ AllLines(P) = s
  /\ \A i \in 1 .. Len(P) : Weight(P[i]) > z => Len(P[i]) = 1
  /\ \A i \in 1 .. Len(P) - 1 : P[i + 1] # <<>> /\ Weight(P[i]) + P[i + 1][1] + 1 > z

LEMMA PlacedKeeps ==
  ASSUME NEW z \in Nat, NEW s \in Texts, NEW x \in Nat, NEW P, PagesOf(P, s, z)
  PROVE  PagesOf(Placed(P, x, z), Append(s, x), z)
<1> DEFINE page == Last(P)
           Q == Front(P)
           n == Len(Q)
<1>1. P \in Seq(Texts) /\ P # <<>> /\ P \in Drafts /\ AllLines(P) = s
  BY DEF PagesOf, Drafts
<1>2. Q \in Seq(Texts) /\ page \in Texts /\ P = Append(Q, page) /\ Len(P) = n + 1 /\ n \in Nat
  BY <1>1, FrontLast
<1> HIDE DEF Q, page, n
<1>3. P[n + 1] = page /\ \A i \in 1 .. n : P[i] = Q[i] /\ Q[i] \in Texts
  BY <1>2 DEF n
<1>4. /\ \A i \in 1 .. n + 1 : Weight(P[i]) > z => Len(P[i]) = 1
      /\ \A i \in 1 .. n : P[i + 1] # <<>> /\ Weight(P[i]) + P[i + 1][1] + 1 > z
  <2>1. Len(P) = n + 1 /\ Len(P) - 1 = n
    BY <1>2
  <2>2. /\ \A i \in 1 .. Len(P) : Weight(P[i]) > z => Len(P[i]) = 1
        /\ \A i \in 1 .. Len(P) - 1 : P[i + 1] # <<>> /\ Weight(P[i]) + P[i + 1][1] + 1 > z
    BY DEF PagesOf
  <2> QED BY <2>1, <2>2, Zenon
<1>5. s \in Seq(Nat) /\ page \in Seq(Nat) /\ Append(page, x) \in Texts /\ <<x>> \in Texts
  BY <1>2 DEF Texts
<1>6. CASE Weight(page) + x + 1 > z /\ page # <<>>
  <2> DEFINE R == Append(P, <<x>>)
  <2>1. Placed(P, x, z) = R
    BY <1>6 DEF Placed, page
  <2>2. AllLines(R) = Append(s, x)
    <3>1. AllLines(R) = s \o <<x>>
      BY <1>1, <1>5, AllLinesAppend
    <3> QED BY <1>5, <3>1
  <2>3. /\ R \in Drafts /\ Len(R) = n + 2 /\ R[n + 2] = <<x>>
        /\ \A i \in 1 .. n + 1 : R[i] = P[i]
    <3> DEFINE new == <<x>>
    <3>1. new \in Texts /\ P \in Seq(Texts) /\ Len(P) = n + 1 /\ n \in Nat
      BY <1>1, <1>2, <1>5
    <3> HIDE DEF new
    <3>2. \A Q1 \in Seq(Texts), y \in Texts :
             /\ Append(Q1, y) \in Seq(Texts) /\ Append(Q1, y) # <<>>
             /\ Len(Append(Q1, y)) = Len(Q1) + 1 /\ Append(Q1, y)[Len(Q1) + 1] = y
             /\ \A i \in 1 .. Len(Q1) : Append(Q1, y)[i] = Q1[i]
      BY SMTT(20)
    <3>3. /\ Append(P, new) \in Seq(Texts) /\ Append(P, new) # <<>>
          /\ Len(Append(P, new)) = Len(P) + 1 /\ Append(P, new)[Len(P) + 1] = new
          /\ \A i \in 1 .. Len(P) : Append(P, new)[i] = P[i]
      BY <3>1, <3>2, Zenon
    <3>4. Len(P) + 1 = n + 2
      BY <3>1
    <3> QED BY <3>1, <3>3, <3>4 DEF R, new, Drafts
  <2> HIDE DEF R
  <2>4. \A i \in 1 .. n + 2 : Weight(R[i]) > z => Len(R[i]) = 1
    <3>1. Len(<<x>>) = 1 /\ \A i \in 1 .. n + 2 : i \in 1 .. n + 1 \/ i = n + 2
      BY <1>2
    <3> QED BY <1>4, <2>3, <3>1
  <2>5. \A i \in 1 .. n + 1 : R[i + 1] # <<>> /\ Weight(R[i]) + R[i + 1][1] + 1 > z
    <3> SUFFICES ASSUME NEW i \in 1 .. n + 1
                 PROVE  R[i + 1] # <<>> /\ Weight(R[i]) + R[i + 1][1] + 1 > z
      OBVIOUS
    <3>1. CASE i \in 1 .. n
      <4>1. i + 1 \in 1 .. n + 1
        BY <1>2, <3>1
      <4> QED BY <1>4, <2>3, <3>1, <4>1
    <3>2. CASE i = n + 1
      <4>1. R[i + 1] = <<x>> /\ R[i] = page /\ <<x>>[1] = x /\ <<x>> # <<>>
        BY <1>2, <1>3, <2>3, <3>2
      <4> QED BY <1>6, <4>1
    <3> QED BY <1>2, <3>1, <3>2
  <2>6. Len(R) - 1 = n + 1
    BY <1>2, <2>3
  <2> QED BY <2>1, <2>2, <2>3, <2>4, <2>5, <2>6 DEF PagesOf
<1>7. CASE ~(Weight(page) + x + 1 > z /\ page # <<>>)
  <2> DEFINE longer == Append(page, x)
             R == Append(Q, longer)
  <2>1. Placed(P, x, z) = R
    BY <1>7 DEF Placed, page, Q
  <2>2. AllLines(R) = Append(s, x)
    <3>1. AllLines(Q) \in Texts /\ AllLines(R) = AllLines(Q) \o longer /\ s = AllLines(Q) \o page
      BY <1>1, <1>2, <1>5, AllLinesAppend
    <3>2. AllLines(Q) \o longer = Append(AllLines(Q) \o page, x)
      BY <1>5, <3>1 DEF Texts
    <3> QED BY <3>1, <3>2
  <2>3. /\ R \in Drafts /\ Len(R) = n + 1 /\ R[n + 1] = longer
        /\ \A i \in 1 .. n : R[i] = P[i]
    <3> HIDE DEF longer
    <3>1. R \in Drafts
      BY <1>2, <1>5, DraftsGrow DEF longer
    <3>2. longer \in Texts
      BY <1>5 DEF longer
    <3>3. Len(R) = Len(Q) + 1 /\ R[Len(Q) + 1] = longer /\ \A i \in 1 .. Len(Q) : R[i] = Q[i]
      BY <1>2, <3>2, AppendProperties
    <3> QED BY <1>3, <3>1, <3>3 DEF n
  <2>4. page \in Seq(Int) /\ Weight(longer) = Weight(page) + x + 1
    BY <1>2, TextInts, WeightAppend
  <2>5. Len(longer) = Len(page) + 1 /\ longer # <<>> /\ (page = <<>> => Len(page) = 0)
        /\ (page # <<>> => longer[1] = page[1])
    BY <1>5, OneLonger
  <2> HIDE DEF R, longer
  <2>6. \A i \in 1 .. n + 1 : Weight(R[i]) > z => Len(R[i]) = 1
    <3>1. Weight(longer) > z => Len(longer) = 1
      BY <1>7, <2>4, <2>5
    <3>2. \A i \in 1 .. n + 1 : i \in 1 .. n \/ i = n + 1
      BY <1>2
    <3> QED BY <1>4, <2>3, <3>1, <3>2
  <2>7. \A i \in 1 .. n : R[i + 1] # <<>> /\ Weight(R[i]) + R[i + 1][1] + 1 > z
    <3> SUFFICES ASSUME NEW i \in 1 .. n
                 PROVE  R[i + 1] # <<>> /\ Weight(R[i]) + R[i + 1][1] + 1 > z
      OBVIOUS
    <3>1. R[i] = P[i] /\ P[i + 1] # <<>> /\ Weight(P[i]) + P[i + 1][1] + 1 > z
      BY <1>4, <2>3
    <3>2. CASE i + 1 \in 1 .. n
      BY <2>3, <3>1, <3>2
    <3>3. CASE i = n
      <4>1. R[i + 1] = longer /\ P[i + 1] = page
        BY <1>3, <2>3, <3>3
      <4> QED BY <2>5, <3>1, <4>1
    <3> QED BY <1>2, <3>2, <3>3
  <2>8. Len(R) - 1 = n
    BY <1>2, <2>3
  <2> QED BY <2>1, <2>2, <2>3, <2>6, <2>7, <2>8 DEF PagesOf
<1> QED BY <1>6, <1>7

LEMMA FilledIs ==
  ASSUME NEW z \in Nat
  PROVE  \A s \in Texts : PagesOf(Filled(s, z), s, z)
<1> DEFINE D == {s \in Texts : PagesOf(Filled(s, z), s, z)}
           blank == << <<>> >>
<1>1. <<>> \in D
  <2>1. blank \in Drafts /\ Len(blank) = 1 /\ blank[1] = <<>> /\ <<>> \in Texts
        /\ blank = Append(<<>>, <<>>) /\ <<>> \in Seq(Texts)
    BY DEF Drafts, Texts
  <2>2. AllLines(blank) = <<>>
    <3>1. AllLines(Append(<<>>, <<>>)) = AllLines(<<>>) \o <<>>
      BY <2>1, AllLinesAppend
    <3> QED BY <2>1, <3>1, AllLinesNone
  <2> HIDE DEF blank
  <2>3. ~(Weight(<<>>) > z)
    BY WeightNone
  <2>4. PagesOf(blank, <<>>, z)
    BY <2>1, <2>2, <2>3 DEF PagesOf
  <2> QED BY <2>1, <2>4, FilledNone DEF blank
<1>2. ASSUME NEW s \in Seq(Nat), NEW x \in Nat, s \in D PROVE Append(s, x) \in D
  <2>1. s \in Texts /\ Append(s, x) \in Texts /\ PagesOf(Filled(s, z), s, z)
    BY <1>2 DEF Texts
  <2>2. Filled(Append(s, x), z) = Placed(Filled(s, z), x, z)
    BY <2>1, FilledAppend
  <2>3. PagesOf(Placed(Filled(s, z), x, z), Append(s, x), z)
    BY <2>1, PlacedKeeps
  <2> QED BY <2>1, <2>2, <2>3
<1> HIDE DEF D
<1>3. \A s \in Seq(Nat) : s \in D
  BY <1>1, <1>2, BySequence, Zenon
<1> QED BY <1>3 DEF D, Texts

LEMMA NonEmptyConcat ==
  ASSUME NEW a \in Texts, NEW b \in Texts
  PROVE  NonEmpty(a \o b) = NonEmpty(a) \o NonEmpty(b)
BY PassingConcat DEF NonEmpty, Texts

(* Trimming each page by itself loses no line that is not empty.           *)
Each(P) == [i \in DOMAIN P |-> Trimmed(P[i])]

LEMMA EachAppend ==
  ASSUME NEW P \in Seq(Texts), NEW t \in Texts, Each(P) \in Seq(Texts)
  PROVE  Each(Append(P, t)) \in Seq(Texts) /\ Each(Append(P, t)) = Append(Each(P), Trimmed(t))
<1> DEFINE n == Len(P)
           more == Append(P, t)
           u == Append(Each(P), Trimmed(t))
<1>1. /\ n \in Nat /\ Len(more) = n + 1 /\ more[n + 1] = t
      /\ DOMAIN more = 1 .. n + 1 /\ DOMAIN P = 1 .. n
      /\ \A k \in 1 .. n : more[k] = P[k]
  OBVIOUS
<1>2. Len(Each(P)) = n /\ \A k \in 1 .. n : Each(P)[k] = Trimmed(P[k])
  BY <1>1 DEF Each
<1>3. Trimmed(t) \in Texts
  BY TrimmedKeeps
<1>4. u \in Seq(Texts) /\ Len(u) = n + 1 /\ u[n + 1] = Trimmed(t)
      /\ \A k \in 1 .. n : u[k] = Trimmed(P[k])
  BY <1>2, <1>3, AppendProperties
<1> HIDE DEF n, more, u
<1>5. Each(more) = [k \in 1 .. n + 1 |-> Trimmed(more[k])]
  BY <1>1 DEF Each
<1>6. u = [k \in 1 .. n + 1 |-> u[k]]
  BY <1>1, <1>4
<1>7. \A k \in 1 .. n + 1 : u[k] = Trimmed(more[k])
  <2>1. \A k \in 1 .. n + 1 : k \in 1 .. n \/ k = n + 1
    BY <1>1
  <2> QED BY <1>1, <1>4, <2>1
<1>8. Each(more) = u
  BY <1>5, <1>6, <1>7
<1> QED BY <1>4, <1>8 DEF more, u

LEMMA EachKeeps ==
  \A P \in Seq(Texts) : Each(P) \in Seq(Texts) /\ NonEmpty(AllLines(Each(P))) = NonEmpty(AllLines(P))
<1> DEFINE Keeps(P) == Each(P) \in Seq(Texts) /\ NonEmpty(AllLines(Each(P))) = NonEmpty(AllLines(P))
           D == {P \in Seq(Texts) : Keeps(P)}
<1>1. <<>> \in D
  <2>1. Each(<<>>) = <<>> /\ <<>> \in Seq(Texts)
    BY DEF Each
  <2> QED BY <2>1
<1>2. ASSUME NEW P \in Seq(Texts), NEW t \in Texts, P \in D PROVE Append(P, t) \in D
  <2> DEFINE a == AllLines(P)
             b == AllLines(Each(P))
             c == Trimmed(t)
  <2>1. Each(P) \in Seq(Texts) /\ NonEmpty(b) = NonEmpty(a)
    BY <1>2
  <2>2. c \in Texts /\ NonEmpty(c) = NonEmpty(t)
    BY TrimmedKeeps
  <2>3. a \in Texts /\ AllLines(Append(P, t)) = a \o t
    BY AllLinesAppend
  <2>4. b \in Texts /\ AllLines(Append(Each(P), c)) = b \o c
    BY <2>1, <2>2, AllLinesAppend
  <2>5. Each(Append(P, t)) \in Seq(Texts) /\ Each(Append(P, t)) = Append(Each(P), c)
    BY <2>1, EachAppend
  <2> HIDE DEF a, b, c
  <2>7. NonEmpty(a \o t) = NonEmpty(a) \o NonEmpty(t) /\ NonEmpty(b \o c) = NonEmpty(b) \o NonEmpty(c)
    BY <2>2, <2>3, <2>4, NonEmptyConcat
  <2>8. NonEmpty(AllLines(Each(Append(P, t)))) = NonEmpty(AllLines(Append(P, t)))
    BY <2>1, <2>2, <2>3, <2>4, <2>5, <2>7
  <2>9. Append(P, t) \in Seq(Texts)
    BY AppendProperties
  <2> QED BY <2>5, <2>8, <2>9
<1> HIDE DEF D
<1>3. \A P \in Seq(Texts) : P \in D
  BY <1>1, <1>2, BySequence, Zenon
<1> QED BY <1>3 DEF D

(* For any message and any size of a page (response-formatter.js:395), no  *)
(* line is lost or out of its order, a page is no larger unless it is one  *)
(* line, and no page could have taken the next one's first line.           *)
THEOREM PagesCompleteHolds ==
  ASSUME NEW messages \in SUBSET Texts, NEW pageSize \in Nat
  PROVE  PagesComplete(messages, pageSize)
<1> SUFFICES ASSUME NEW lines \in messages
             PROVE  LET pages == paginate(lines, pageSize)
                        filled == Filled(lines, pageSize)
                    IN  /\ NonEmpty(AllLines(pages)) = NonEmpty(lines)
                        /\ \A i \in DOMAIN pages : Weight(pages[i]) > pageSize => Len(pages[i]) = 1
                        /\ \A i \in 1 .. Len(filled) - 1 :
                             Weight(filled[i]) + filled[i + 1][1] + 1 > pageSize
  BY DEF PagesComplete
<1> DEFINE P == Filled(lines, pageSize)
           kept == IF Trimmed(Last(P)) = <<>> THEN Front(P) ELSE P
<1>1. paginate(lines, pageSize) = Each(kept)
  BY DEF paginate, Each
<1>2. PagesOf(P, lines, pageSize) /\ lines \in Texts
  BY FilledIs
<1> HIDE DEF P
<1>3. P \in Seq(Texts) /\ P # <<>> /\ AllLines(P) = lines
  BY <1>2 DEF PagesOf, Drafts
<1>4. /\ Front(P) \in Seq(Texts) /\ Last(P) \in Texts /\ P = Append(Front(P), Last(P))
      /\ Len(P) = Len(Front(P)) + 1
  BY <1>3, FrontLast
<1>5. kept \in Seq(Texts) /\ NonEmpty(AllLines(kept)) = NonEmpty(lines)
  <2>1. CASE Trimmed(Last(P)) = <<>>
    <3>1. kept = Front(P)
      BY <2>1
    <3> HIDE DEF kept
    <3>2. NonEmpty(Last(P)) = <<>>
      <4>1. NonEmpty(Last(P)) = NonEmpty(<<>>)
        BY <1>4, <2>1, TrimmedKeeps
      <4> QED BY <4>1, PassingNone DEF NonEmpty
    <3>3. AllLines(kept) \in Texts /\ lines = AllLines(kept) \o Last(P)
      BY <1>3, <1>4, <3>1, AllLinesAppend
    <3>4. AllLines(kept) \in Seq(Nat) /\ Last(P) \in Seq(Nat)
      BY <1>4, <3>3 DEF Texts
    <3>5. NonEmpty(lines) = NonEmpty(AllLines(kept)) \o NonEmpty(Last(P))
      BY <3>3, <3>4, PassingConcat DEF NonEmpty
    <3>6. NonEmpty(AllLines(kept)) \in Seq(Nat)
      BY <3>4, PassingType DEF NonEmpty
    <3> QED BY <1>4, <3>1, <3>2, <3>5, <3>6
  <2>2. CASE Trimmed(Last(P)) # <<>>
    BY <1>3, <2>2
  <2> QED BY <2>1, <2>2
<1>6. \A i \in DOMAIN kept : i \in 1 .. Len(P) /\ kept[i] = P[i]
  <2>1. Len(Front(P)) \in Nat /\ DOMAIN Front(P) = 1 .. Len(Front(P)) /\ DOMAIN P = 1 .. Len(P)
    BY <1>3, <1>4
  <2>2. \A i \in 1 .. Len(Front(P)) : P[i] = Front(P)[i]
    BY <1>4, AppendProperties
  <2> QED BY <1>4, <2>1, <2>2
<1> HIDE DEF kept
<1>7. NonEmpty(AllLines(Each(kept))) = NonEmpty(lines)
  BY <1>5, EachKeeps
<1>8. ASSUME NEW i \in DOMAIN Each(kept), Weight(Each(kept)[i]) > pageSize
      PROVE  Len(Each(kept)[i]) = 1
  <2> DEFINE t == P[i]
             u == Trimmed(t)
  <2>1. Each(kept)[i] = u /\ i \in 1 .. Len(P)
    BY <1>6 DEF Each
  <2>2. t \in Texts
    BY <1>3, <2>1
  <2>3. Weight(t) > pageSize => Len(t) = 1
    BY <1>2, <2>1 DEF PagesOf
  <2> HIDE DEF t
  <2>4. u \in Texts /\ Weight(u) <= Weight(t) /\ Len(u) <= Len(t)
    BY <2>2, TrimmedKeeps
  <2> HIDE DEF u
  <2>5. Weight(t) \in Nat /\ Weight(u) \in Nat /\ Len(u) \in Nat /\ (Len(u) = 0 => u = <<>>)
    BY <2>2, <2>4, WeightIs DEF Texts
  <2>6. Weight(u) > pageSize
    BY <1>8, <2>1
  <2>7. Len(u) # 0
    BY <2>5, <2>6, WeightNone
  <2>8. Len(u) = 1
    <3>1. Weight(t) > pageSize
      BY <2>4, <2>5, <2>6
    <3>2. Len(t) = 1
      BY <2>3, <3>1
    <3> DEFINE k == Len(u)
    <3>3. k <= 1 /\ k \in Nat /\ k # 0
      BY <2>4, <2>5, <2>7, <3>2
    <3> HIDE DEF k
    <3>4. k = 1
      BY <3>3
    <3> QED BY <3>4 DEF k
  <2> QED BY <2>1, <2>8
<1>9. \A i \in 1 .. Len(P) - 1 : Weight(P[i]) + P[i + 1][1] + 1 > pageSize
  BY <1>2 DEF PagesOf
<1> QED BY <1>1, <1>7, <1>8, <1>9 DEF P

(* However long a message is, what the network is sent (response-          *)
(* formatter.js:365) keeps to its limit, three characters at least, and    *)
(* begins as the message does.                                             *)
THEOREM CutKeepsLimitHolds ==
  ASSUME NEW messages \in SUBSET Texts, NEW maxLength \in Nat, maxLength >= 3
  PROVE  CutKeepsLimit(messages, maxLength)
<1> SUFFICES ASSUME NEW lines \in messages
             PROVE  LET cut == truncate(lines, maxLength)
                    IN  /\ Weight(cut) - 1 <= maxLength
                        /\ \A i \in 1 .. Len(cut) - 1 : cut[i] = lines[i]
  BY DEF CutKeepsLimit
<1> DEFINE fits(n) == Weight(SubSeq(lines, 1, n)) - 1 < maxLength - 3
           whole == {n \in 0 .. Len(lines) : fits(n) /\ n < Len(lines)}
           last == CHOOSE n \in whole : \A k \in whole : k <= n
           head == SubSeq(lines, 1, last)
           N == Len(lines)
           first == SubSeq(lines, 1, 0)
<1>1. lines \in Texts /\ lines \in Seq(Nat) /\ N \in Nat /\ Weight(lines) \in Nat
  BY WeightIs DEF Texts
<1>2. CASE Weight(lines) - 1 <= maxLength
  BY <1>2 DEF truncate
<1>3. CASE ~(Weight(lines) - 1 <= maxLength)
  <2>1. truncate(lines, maxLength) =
          IF 10 * (Weight(head) - 1) > 8 * maxLength
          THEN Append(Front(head), Last(head) + 3)
          ELSE Append(head, maxLength - Weight(head))
    BY <1>3 DEF truncate
  <2>2. N > 0
    <3>1. N = 0 => lines = <<>>
      BY <1>1
    <3> QED BY <1>1, <1>3, <3>1, WeightNone
  <2>3. 0 \in whole
    <3>1. first = <<>>
      <4>1. \A i \in 1 .. 0 : lines[i] \in Nat
        OBVIOUS
      <4>2. first \in Seq(Nat) /\ Len(first) = 0
        BY <4>1, 0 \in Int, 1 \in Int, SubSeqProperties
      <4> QED BY <4>2
    <3>2. fits(0)
      <4>1. Weight(first) = 0
        BY <3>1, WeightNone
      <4>2. 0 - 1 < maxLength - 3
        OBVIOUS
      <4> QED BY <4>1, <4>2
    <3> QED BY <1>1, <2>2, <3>2
  <2>4. last \in whole
    <3>1. \A n \in whole : n \in 0 .. N /\ n < N
      OBVIOUS
    <3> HIDE DEF whole
    <3>2. \E n \in whole : \A k \in whole : k <= n
      <4> DEFINE f == [i \in 1 .. N |-> IF i - 1 \in whole THEN i - 1 ELSE 0 - 1]
      <4>1. \A i \in 1 .. N : f[i] \in Int /\ f[i] = IF i - 1 \in whole THEN i - 1 ELSE 0 - 1
        OBVIOUS
      <4> HIDE DEF f
      <4>2. PICK m \in 1 .. N : \A i \in 1 .. N : f[i] <= f[m]
        <5>1. N \in Nat \ {0}
          BY <1>1, <2>2
        <5> QED BY <4>1, <5>1, Greatest
      <4>3. \A k \in whole : k + 1 \in 1 .. N /\ (k + 1) - 1 = k
        BY <1>1, <3>1
      <4>4. \A k \in whole : f[k + 1] = k /\ k <= f[m]
        BY <4>1, <4>2, <4>3
      <4>5. 0 <= f[m]
        BY <2>3, <4>4
      <4>6. m - 1 \in whole /\ f[m] = m - 1
        BY <4>1, <4>5
      <4> QED BY <4>4, <4>6
    <3> QED BY <3>2
  <2>5. last \in 0 .. N /\ last < N /\ Weight(head) - 1 < maxLength - 3
    BY <2>4
  <2> HIDE DEF whole, last
  <2>6. head \in Seq(Nat) /\ Len(head) = last /\ \A i \in 1 .. last : head[i] = lines[i]
    <3>1. \A i \in 1 .. last : lines[i] \in Nat
      BY <1>1, <2>5
    <3>2. /\ head \in Seq(Nat) /\ Len(head) = IF 1 <= last THEN last - 1 + 1 ELSE 0
          /\ \A i \in 1 .. last - 1 + 1 : head[i] = lines[1 + i - 1]
      BY <2>5, <3>1, 1 \in Int, last \in Int, SubSeqProperties
    <3>3. last - 1 + 1 = last /\ \A i \in 1 .. last : 1 + i - 1 = i
      BY <2>5
    <3> QED BY <2>5, <3>2, <3>3
  <2> HIDE DEF head
  <2>7. head \in Texts /\ head \in Seq(Int) /\ Weight(head) \in Nat
    BY <2>6, TextInts, WeightIs DEF Texts
  <2>8. CASE 10 * (Weight(head) - 1) > 8 * maxLength
    <3> DEFINE front == Front(head)
               end == Last(head)
               cut == Append(front, end + 3)
    <3>1. truncate(lines, maxLength) = cut
      BY <2>1, <2>8
    <3>2. head # <<>>
      BY <2>8, WeightNone
    <3>3. front \in Seq(Nat) /\ end \in Nat /\ head = Append(front, end) /\ last = Len(front) + 1
      BY <2>6, <3>2, FrontLast
    <3> HIDE DEF front, end
    <3>4. front \in Seq(Int) /\ end \in Int /\ end + 3 \in Int /\ Len(front) \in Nat
      BY <3>3, TextInts DEF Texts
    <3>5. Weight(cut) = Weight(front) + (end + 3) + 1 /\ Weight(head) = Weight(front) + end + 1
          /\ Weight(front) \in Int
      BY <3>3, <3>4, WeightAppend
    <3>6. Weight(cut) - 1 <= maxLength
      BY <2>5, <2>7, <3>4, <3>5
    <3>7. Len(cut) - 1 = Len(front) /\ \A i \in 1 .. Len(front) : cut[i] = front[i] /\ head[i] = front[i]
      BY <3>3, <3>4, AppendProperties
    <3>8. \A i \in 1 .. Len(front) : i \in 1 .. last
      BY <3>3, <3>4
    <3>9. \A i \in 1 .. Len(cut) - 1 : cut[i] = lines[i]
      BY <2>6, <3>7, <3>8
    <3> QED BY <3>1, <3>6, <3>9
  <2>9. CASE ~(10 * (Weight(head) - 1) > 8 * maxLength)
    <3> DEFINE dots == maxLength - Weight(head)
               cut == Append(head, dots)
    <3>1. truncate(lines, maxLength) = cut
      BY <2>1, <2>9
    <3>2. dots \in Int /\ dots + Weight(head) = maxLength
      BY <2>7
    <3> HIDE DEF dots
    <3>3. Weight(cut) = Weight(head) + dots + 1
      BY <2>7, <3>2, WeightAppend
    <3>4. Weight(cut) - 1 <= maxLength
      BY <2>7, <3>2, <3>3
    <3>5. Len(cut) - 1 = last /\ \A i \in 1 .. last : cut[i] = head[i]
      BY <2>6, <2>7, <3>2, AppendProperties
    <3>6. \A i \in 1 .. Len(cut) - 1 : cut[i] = lines[i]
      BY <2>6, <3>5
    <3> QED BY <3>1, <3>4, <3>6
  <2> QED BY <2>8, <2>9
<1> QED BY <1>2, <1>3

-----------------------------------------------------------------------------
(* The instances that the runs check are some of all of them.              *)
LEMMA BasketPaid ==
  ASSUME NEW p \in BasketItems
  PROVE  p \in [price : Nat, quantity : Nat \ {0}, taxRate : Nat] /\ Price(p) \in Nat \ {0}
<1> DEFINE a == p.price
           b == p.quantity
<1>1. p \in [price : Nat, quantity : Nat \ {0}, taxRate : Nat] /\ a \in Nat \ {0} /\ b \in Nat \ {0}
  BY DEF BasketItems
<1> HIDE DEF a, b
<1>2. a * 1 <= a * b /\ a * b \in Int /\ a * 1 = a
  BY <1>1, 1 \in Int, Scales
<1>3. a * b \in Nat \ {0}
  BY <1>1, <1>2
<1> QED BY <1>1, <1>3 DEF Price, a, b

LEMMA BasketsTotal ==
  ASSUME NEW o, o.items \in Seq(BasketItems), Len(o.items) > 0
  PROVE  Subtotal(o) > 0
<1> DEFINE f == Prices(o)
           n == Len(o.items)
           g == [k \in 1 .. n |-> 1]
<1>1. n \in Nat /\ n > 0 /\ DOMAIN o.items = 1 .. n /\ \A i \in 1 .. n : o.items[i] \in BasketItems
  OBVIOUS
<1>2. \A i \in 1 .. n : f[i] = Price(o.items[i])
  BY <1>1 DEF Prices
<1> HIDE DEF f, n
<1>3. \A i \in 1 .. n : f[i] \in Nat \ {0}
  BY <1>1, <1>2, BasketPaid
<1>4. AllInts(f, n) /\ AllInts(g, n) /\ NowhereAbove(g, f, n) /\ \A k \in 1 .. n : g[k] = 1
  BY <1>3 DEF AllInts, NowhereAbove
<1> HIDE DEF g
<1>5. Total(g, n) = n /\ Total(g, n) <= Total(f, n) /\ Total(f, n) \in Int
  BY <1>1, <1>4, TotalOnes, TotalOrder, TotalType
<1>6. Total(f, n) > 0
  BY <1>1, <1>5
<1> QED BY <1>6 DEF Subtotal, AllOf, f, n

LEMMA BasketsPaid == MCBaskets \in SUBSET Baskets
<1> SUFFICES ASSUME NEW o \in MCBaskets PROVE o \in Baskets
  OBVIOUS
<1> DEFINE Lists == {<<p>> : p \in BasketItems} \cup {<<p, q>> : p, q \in BasketItems}
           Bought == [price : Nat, quantity : Nat \ {0}, taxRate : Nat]
<1>1. o \in {[items |-> items, shippingCost |-> s, discount |-> d] :
               items \in Lists, s \in {0, 499}, d \in {0, 301}} /\ o.discount <= Subtotal(o)
  BY DEF MCBaskets
<1> HIDE DEF Lists
<1>2. PICK items \in Lists, s \in {0, 499}, d \in {0, 301} :
        o = [items |-> items, shippingCost |-> s, discount |-> d]
  BY <1>1
<1>3. items \in Seq(BasketItems) /\ Len(items) > 0
  <2>1. CASE items \in {<<p>> : p \in BasketItems}
    <3>1. PICK p \in BasketItems : items = <<p>>
      BY <2>1
    <3> QED BY <3>1
  <2>2. CASE items \in {<<p, q>> : p, q \in BasketItems}
    <3>1. PICK p \in BasketItems, q \in BasketItems : items = <<p, q>>
      BY <2>2
    <3> QED BY <3>1
  <2> QED BY <2>1, <2>2 DEF Lists
<1>4. items \in Seq(Bought)
  <2> HIDE DEF Bought
  <2>1. Len(items) \in Nat /\ items = [i \in 1 .. Len(items) |-> items[i]]
        /\ \A i \in 1 .. Len(items) : items[i] \in BasketItems
    BY <1>3
  <2>2. \A i \in 1 .. Len(items) : items[i] \in Bought
    BY <2>1, BasketPaid DEF Bought
  <2> QED BY <2>1, <2>2
<1>5. Subtotal(o) > 0
  BY <1>2, <1>3, BasketsTotal
<1>6. o \in [items : Seq(Bought), shippingCost : Nat, discount : Nat]
  BY <1>2, <1>4
<1> QED BY <1>1, <1>5, <1>6 DEF Baskets

LEMMA TiersRise == MCTiers \in SUBSET Tier /\ IsFiniteSet(MCTiers) /\ Rising(MCTiers)
<1> DEFINE low == [threshold |-> 100, type |-> "fixed", amount |-> 5]
           high == [threshold |-> 200, type |-> "percent", amount |-> 10]
<1>1. MCTiers = {low, high}
  BY DEF MCTiers
<1>2. low \in Tier /\ high \in Tier
  BY DEF Tier
<1>3. \A amount \in Int : Pays(low, amount) = 5
  BY DEF Pays
<1>4. Pays(high, high.threshold) = 20
  <2>1. Percent(10, 200) = 20
    BY DEF Percent
  <2> QED BY <2>1 DEF Pays
<1>5. low.threshold = 100 /\ high.threshold = 200
  OBVIOUS
<1> HIDE DEF low, high
<1>6. IsFiniteSet({low, high})
  <2>1. IsFiniteSet({} \cup {low})
    BY FS_EmptySet, FS_AddElement
  <2>2. IsFiniteSet(({} \cup {low}) \cup {high})
    BY <2>1, FS_AddElement
  <2>3. ({} \cup {low}) \cup {high} = {low, high}
    OBVIOUS
  <2> QED BY <2>2, <2>3
<1>7. Rising(MCTiers)
  <2> SUFFICES ASSUME NEW s \in MCTiers, NEW t \in MCTiers, s.threshold < t.threshold,
                      NEW amount \in Nat, amount < t.threshold
               PROVE  Pays(s, amount) <= Pays(t, t.threshold)
    BY DEF Rising
  <2>1. s = low /\ t = high
    BY <1>1, <1>5
  <2> QED BY <1>3, <1>4, <2>1
<1> QED BY <1>1, <1>2, <1>6, <1>7

LEMMA RewardsRise == MCRewards \in SUBSET {w \in Rewards : IsFiniteSet(w.tiers) /\ Rising(w.tiers)}
<1>1. IsFiniteSet({}) /\ Rising({})
  BY FS_EmptySet DEF Rising
<1> SUFFICES ASSUME NEW w \in MCRewards
             PROVE  w \in Rewards /\ (w.tiers = {} \/ w.tiers = MCTiers)
  BY <1>1, TiersRise
<1> DEFINE fixed == Reward("fixed", 2)
           percent == Reward("percent", 10)
           tiered == [Reward("tiered", 0) EXCEPT !.tiers = MCTiers]
           bounded == [Reward("percent", 50) EXCEPT !.minAmount = 3, !.maxAmount = 60]
           hybrid == [Reward("hybrid", 0) EXCEPT !.fixedAmount = 7, !.percentAmount = 5, !.maxAmount = 15]
<1>2. fixed \in Rewards /\ fixed.tiers = {}
  BY DEF Reward, Rewards
<1>3. percent \in Rewards /\ percent.tiers = {}
  BY DEF Reward, Rewards
<1>4. tiered \in Rewards /\ tiered.tiers = MCTiers
  BY TiersRise DEF Reward, Rewards
<1>5. bounded \in Rewards /\ bounded.tiers = {}
  BY DEF Reward, Rewards
<1>6. hybrid \in Rewards /\ hybrid.tiers = {}
  BY DEF Reward, Rewards
<1>7. w \in {fixed, percent, tiered, bounded, hybrid}
  BY DEF MCRewards
<1> HIDE DEF fixed, percent, tiered, bounded, hybrid
<1> QED BY <1>2, <1>3, <1>4, <1>5, <1>6, <1>7

(* The calculators keep what is said of them in every state, since it      *)
(* holds of all orders, subscriptions, fees, days, rewards and messages.   *)
THEOREM CalculatorsSoundHolds == CalculatorsSound
<1>1. OrderRefundExact(MCBaskets) /\ CalculatorsAgree(MCBaskets)
  BY BasketsPaid, OrderRefundExactHolds, CalculatorsAgreeHolds
<1>2. ProratedFair({0, 999, 5000}, 0 .. 31)
  <2>1. {0, 999, 5000} \in SUBSET Nat /\ 0 .. 31 \in SUBSET Nat
    OBVIOUS
  <2> QED BY <2>1, ProratedFairHolds
<1>3. FeesCapped({5, 15, 30}, {10, 50}, {1, 333, 1000})
  <2>1. {5, 15, 30} \in SUBSET Nat /\ {10, 50} \in SUBSET Nat /\ {1, 333, 1000} \in SUBSET Nat
    OBVIOUS
  <2> QED BY <2>1, FeesCappedHolds
<1>4. TimelineClose(0 .. 15)
  <2>1. 0 .. 15 \in SUBSET Nat
    OBVIOUS
  <2> QED BY <2>1, TimelineCloseHolds
<1>5. CommissionFair(MCRewards, MCAmounts)
  <2>1. MCAmounts \in SUBSET Nat
    BY DEF MCAmounts
  <2> QED BY <2>1, RewardsRise, CommissionFairHolds
<1>6. PagesComplete(MCTexts, 10) /\ CutKeepsLimit(MCTexts, 12)
  <2>1. MCTexts \in SUBSET Texts
    <3> SUFFICES ASSUME NEW n \in 1 .. 4, NEW t \in [1 .. n -> {0, 3, 5, 9}] PROVE t \in Texts
      BY DEF MCTexts
    <3>1. n \in Nat /\ t \in [1 .. n -> Nat]
      OBVIOUS
    <3> QED BY <3>1 DEF Texts
  <2>2. 10 \in Nat /\ 12 \in Nat /\ 12 >= 3
    OBVIOUS
  <2> QED BY <2>1, <2>2, PagesCompleteHolds, CutKeepsLimitHolds
<1> QED BY <1>1, <1>2, <1>3, <1>4, <1>5, <1>6 DEF CalculatorsSound, AmountsSound
=============================================================================
