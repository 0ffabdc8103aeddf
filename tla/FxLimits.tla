------------------------------ MODULE FxLimits ------------------------------
(***************************************************************************)
(* Trading limits: shared-models/src/fx-limit.js.  One corporate client    *)
(* and one currency pair: a row of limits for the pair and one for all     *)
(* currencies.  A trade is checked against one row, executed, recorded in  *)
(* every row that covers it and settled later, each in a statement of its  *)
(* own; cron jobs reset the rows meanwhile.  No caller in the repository   *)
(* connects these calls; "Comprehensive limit check before executing a     *)
(* trade" (fx-limit.js:249) and the comments of the others do.             *)
(*                                                                         *)
(* A row's three volumes are kept in one function.  New rows are taken to  *)
(* start at zero, which is left to the defaults of the table.  approve()   *)
(* and suspend() throw in BaseModel.update(), and recordBreach() passes    *)
(* three values for the placeholders $1 to $4: none of the three changes a *)
(* row, so none becomes inactive.  The columns are taken to be numbers.    *)
(***************************************************************************)
EXTENDS Integers, FiniteSets, FiniteSetsExt, Collections

CONSTANTS
  Traders,          \* requests that trade at the same time
  Amounts,          \* amounts of a trade
  FxTerms,          \* the configured numbers of a row, see below
  Day, Month,       \* in ticks of the clock
  Jitter,           \* how many ticks after midnight a cron job may run
  MaxFxTime         \* bound on the clock

ASSUME FxAssumption ==
  /\ IsFiniteSet(Traders) /\ Traders # {}
  /\ IsFiniteSet(Amounts) /\ Amounts # {} /\ Amounts \subseteq Nat \ {0}
  /\ {Day, Month} \subseteq Nat \ {0} /\ {Jitter, MaxFxTime} \subseteq Nat
  /\ FxTerms \in [maxTrade : Nat, minTrade : Nat, daily : Nat, monthly : Nat, annual : Nat,
                  positions : Nat, notional : Nat]

VARIABLES
  limits,           \* row -> the row, or NoRow
  trade,            \* trader -> its trade
  fxNow

fxVars == <<limits, trade, fxNow>>

Scopes == {"currency_pair", "all_currencies"}
Spans == {"daily", "monthly", "annual"}
NoRow == [configured |-> FALSE]

FreshRow(dailyReset, monthlyReset, first) ==
  [configured |-> TRUE, used |-> [s \in Spans |-> 0], notional |-> 0, positions |-> 0,
   daily_reset_at |-> dailyReset, monthly_reset_at |-> monthlyReset, first |-> first]

\* A row that is configured, and a trade as it may come.
Row == [configured : {TRUE}, used : [Spans -> Nat], notional : Nat, positions : Nat,
        daily_reset_at : Int, monthly_reset_at : Int, first : BOOLEAN]
Trades == [st : {"none", "allowed", "open"}, amount : Amounts \cup {0}, isNewPosition : BOOLEAN]

FxTypeOK ==
  /\ limits \in [Scopes -> {NoRow} \cup Row]
  /\ trade \in [Traders -> Trades]
  /\ \A t \in Traders : trade[t].st # "none" => trade[t].amount \in Amounts
  /\ fxNow \in 0 .. MaxFxTime

Rows == {s \in Scopes : limits[s].configured}

\* A trade is "none", "allowed" by checkLimits() or "open".
NoTrade == [st |-> "none", amount |-> 0, isNewPosition |-> FALSE]

InState(st) == {t \in Traders : trade[t].st = st}

\* getLimits(): the pair's own row.  The search for the other one compares
\* a column with NULL, which no row satisfies.
getLimits == Rows \cap {"currency_pair"}

NextMultiple(n) == (fxNow \div n + 1) * n

-----------------------------------------------------------------------------
\* Both rows may have been configured before, the pair's by create().
FxInit ==
  /\ fxNow = 0
  /\ limits \in [Scopes -> {NoRow, FreshRow(Day, Month, TRUE)}]
  /\ trade = [t \in Traders |-> NoTrade]

\* setupDefaults(): the row for all currencies; a second call would make
\* one more, which is left out.
setupDefaults ==
  /\ "all_currencies" \notin Rows
  /\ limits' = [limits EXCEPT !["all_currencies"] =
                  FreshRow(NextMultiple(Day), NextMultiple(Month), FALSE)]
  /\ UNCHANGED <<trade, fxNow>>

Within(limit, proposed) == limit = 0 \/ proposed <= limit

\* Mutant: a trade is let through when the day's limit is not yet used up.
Passed_Open(row, amount) ==
  /\ amount <= FxTerms.maxTrade /\ amount >= FxTerms.minTrade
  /\ \A s \in Spans : FxTerms[s] = 0 \/ row.used[s] < FxTerms[s]
  /\ FxTerms.positions = 0 \/ row.positions < FxTerms.positions
  /\ Within(FxTerms.notional, row.notional + amount)

\* The checks that can fail; a warning and the margin are only reported,
\* and whatever fails, by whichever action, the trade is not allowed.
Passed(row, amount) ==
  /\ amount <= FxTerms.maxTrade /\ amount >= FxTerms.minTrade
  /\ \A s \in Spans : Within(FxTerms[s], row.used[s] + amount)
  /\ FxTerms.positions = 0 \/ row.positions < FxTerms.positions
  /\ Within(FxTerms.notional, row.notional + amount)

\* checkLimits(): reads a row; what it answers is acted upon later.
checkLimits(t, amount, isNew) ==
  /\ trade[t].st = "none"
  /\ \E s \in getLimits : Passed(limits[s], amount)
  /\ trade' = [trade EXCEPT ![t] = [st |-> "allowed", amount |-> amount, isNewPosition |-> isNew]]
  /\ UNCHANGED <<limits, fxNow>>

\* recordUsage(): one statement over every row that covers the pair.
recordUsage(t) ==
  LET x == trade[t]
  IN  /\ x.st = "allowed"
      /\ limits' = [s \in Scopes |->
            IF s \notin Rows THEN NoRow
            ELSE [limits[s] EXCEPT
                    !.used = [span \in Spans |-> @[span] + x.amount],
                    !.notional = @ + x.amount,
                    !.positions = IF x.isNewPosition THEN @ + 1 ELSE @]]
      /\ trade' = [trade EXCEPT ![t].st = "open"]
      /\ UNCHANGED fxNow

Floor0(n) == IF n < 0 THEN 0 ELSE n

\* recordSettlement(): a position is closed whether or not the trade had
\* opened one.
recordSettlement(t) ==
  /\ trade[t].st = "open"
  /\ limits' = [s \in Scopes |->
        IF s \notin Rows THEN NoRow
        ELSE [limits[s] EXCEPT !.notional = Floor0(@ - trade[t].amount),
                               !.positions = Floor0(@ - 1)]]
  /\ trade' = [trade EXCEPT ![t] = NoTrade]
  /\ UNCHANGED fxNow

\* resetDailyLimits(): "called by cron job at midnight".
resetDailyLimits ==
  /\ fxNow % Day <= Jitter
  /\ limits' = [s \in Scopes |->
        IF s \in Rows /\ limits[s].daily_reset_at < fxNow
        THEN [limits[s] EXCEPT !.used["daily"] = 0, !.daily_reset_at = fxNow + Day]
        ELSE limits[s]]
  /\ limits' # limits
  /\ UNCHANGED <<trade, fxNow>>

\* resetMonthlyLimits(): "called by cron job on 1st of month"; nothing
\* resets the annual volume.
resetMonthlyLimits ==
  /\ fxNow % Month <= Jitter
  /\ limits' = [s \in Scopes |->
        IF s \in Rows /\ limits[s].monthly_reset_at < fxNow
        THEN [limits[s] EXCEPT !.used["monthly"] = 0, !.monthly_reset_at = fxNow + Month]
        ELSE limits[s]]
  /\ limits' # limits
  /\ UNCHANGED <<trade, fxNow>>

FxTick ==
  /\ fxNow < MaxFxTime
  /\ fxNow' = fxNow + 1
  /\ UNCHANGED <<limits, trade>>

FxNext ==
  \/ setupDefaults
  \/ \E t \in Traders :
       \/ \E a \in Amounts, isNew \in BOOLEAN : checkLimits(t, a, isNew)
       \/ recordUsage(t) \/ recordSettlement(t)
  \/ resetDailyLimits \/ resetMonthlyLimits \/ FxTick

FxSpec == FxInit /\ [][FxNext]_fxVars

-----------------------------------------------------------------------------
Largest == Max(Amounts)
AmountOf(S) == SumOver([t \in Traders |-> trade[t].amount], S)

(* "Enforces daily, monthly, annual limits" (fx-limit.js:9): every check   *)
(* passes on a row as it was, so the trades that are between their check   *)
(* and their record can exceed a limit together; but never by more than    *)
(* all of them but one, however trades, settlements and resets interleave. *)
LimitsHold ==
  \A s \in getLimits, span \in Spans :
    FxTerms[span] > 0 =>
      limits[s].used[span] + AmountOf(InState("allowed"))
        <= FxTerms[span] + (Cardinality(Traders) - 1) * Largest

(* The amount outstanding of a row that saw every trade is that of the     *)
(* trades open now; a row that was set up later counts no more than them,  *)
(* and no row counts more positions than there are (fx-limit.js:461-490).  *)
OutstandingMatches ==
  \A s \in Rows :
    LET open == InState("open")
        sum == AmountOf(open)
    IN  /\ limits[s].notional <= sum
        /\ limits[s].first => limits[s].notional = sum
        /\ limits[s].positions <= Cardinality({t \in open : trade[t].isNewPosition})

(* Limits (fx-limit.js:251, :461): trades that run at the same time exceed *)
(* a volume by no more than all of them but one, and the rows keep count   *)
(* of what is outstanding.                                                 *)
FxLimitsKept == LimitsHold /\ OutstandingMatches

(* The positions a row that saw every trade counts are those open now      *)
(* (fx-limit.js:478).  Not kept: settling a trade that opened no position  *)
(* takes one off.                                                          *)
PositionsCounted ==
  \A s \in Rows : limits[s].first =>
    limits[s].positions = Cardinality({t \in InState("open") : trade[t].isNewPosition})

(* The limit for all currencies also holds for a pair that has one of its  *)
(* own.  Not kept: only the pair's row is read.                            *)
GeneralLimitHolds ==
  \A s \in Rows, span \in Spans :
    FxTerms[span] > 0 => limits[s].used[span] <= FxTerms[span] + (Cardinality(Traders) - 1) * Largest

(* "Reset daily limits (called by cron job at midnight)" (fx-limit.js:517):*)
(* no row is two days behind.  Not kept: the next reset is a day after     *)
(* this one, and a job that is not later than the day before misses it.    *)
NoDaySkipped == \A s \in Rows : limits[s].daily_reset_at + Jitter >= fxNow
=============================================================================
