---------------------------- MODULE MoneyRecords ----------------------------
(***************************************************************************)
(* The operations of the models about money: foreign exchange, wallets,    *)
(* transactions, deposits, gift cards, loyalty points, settlements, bills  *)
(* and referrals (shared-models/src), as programs of Records.              *)
(***************************************************************************)
EXTENDS Records

\* fx-quote.js.  The timer that expires a quote is set after the INSERT,
\* which is not reached: an existing corporate entity cannot be loaded.
FxQuoteOps ==
  LET q == "fx_quotes"
      valid == {<<Load(q, {"pending"}), Check>>}
      expired == {<<Load(q, {"pending"}), Update(q, "expired")>>}
  IN  [generateQuote |-> {<<Load("corporate_entities", Whatever), Check, Look("exchange_rates"),
                            Insert(q, "pending")>>},
       getValidQuote |-> valid \cup expired,
       acceptQuote |-> {v \o <<Update(q, "accepted")>> : v \in valid} \cup expired,
       rejectQuote |-> {<<Load(q, {"pending"}), Update(q, "rejected")>>},
       expireQuote |-> expired,
       extendQuote |-> {<<Load(q, {"pending"}), Check, Update(q, "same")>>}]

FxQuoteReports ==
  Reports({"findByCorporate", "getQuoteStats"}, "fx_quotes")
  @@ [expireStaleQuotes |-> {<<Raw("fx_quotes", {"pending"}, "expired")>>}]

\* fx-trade.js.  Nothing accepts a quote, so no trade is created from one;
\* getOpenPositions() asks for an array of statuses and finds nothing.
FxTradeOps ==
  LET t == "fx_trades"
  IN  [createFromQuote |-> {<<Load("fx_quotes", {"accepted"}), Absent(t, Whatever), Insert(t, "pending")>>},
       execute |-> {<<Load(t, {"pending", "validated"}), Update(t, "executed")>>},
       confirm |-> {<<Load(t, Whatever), Update(t, "confirmed")>>},
       settle |-> {<<Load(t, Whatever), Update(t, "settled")>>},
       cancel |-> {<<Load(t, {"pending", "validated", "executed", "confirmed", "other"}),
                     Update(t, "cancelled")>>},
       complianceCheck |-> {<<Update(t, "same")>>}]
  @@ Reports({"findByCorporate", "findByDateRange", "getPnLSummary"}, t)
  @@ Looks({"getOpenPositions"}, t)

\* fx-hedge.js.  rollover() would create its successor after the update.
FxHedgeOps ==
  LET h == "fx_hedges"
      createHedge == <<Load("corporate_entities", Whatever), Check, Insert(h, "draft")>>
  IN  [createHedge |-> {createHedge},
       markToMarket |-> {<<Load(h, Whatever), Update(h, "same")>>},
       testEffectiveness |-> {<<Load(h, Whatever), Update(h, s)>> : s \in {"same", "ineffective"}},
       exerciseOption |-> {<<Load(h, Whatever), Check, Update(h, "exercised")>>},
       terminate |-> {<<Load(h, Whatever), Update(h, "terminated")>>},
       rollover |-> {<<Load(h, Whatever), Update(h, "rolled_over")>> \o createHedge}]

FxHedgeReports ==
  Reports({"findByCorporate", "getExposure", "getEffectivenessSummary", "getHedgingCost"}, "fx_hedges")
  @@ Looks({"findActive"}, "fx_hedges")

\* fx-collateral.js.  The table has hooks of its own, so deposits are not
\* inserted and records that are there cannot be loaded.
FxCollateralOps ==
  LET c == "fx_collateral"
  IN  [depositCollateral |-> {<<Load("corporate_entities", Whatever), Check, Insert(c, "pending")>>},
       confirmCollateral |-> {<<Update(c, "held")>>},
       issueMarginCall |-> {<<Load(c, {"held"}), Update(c, "margin_called")>>},
       meetMarginCall |-> {<<Load(c, {"margin_called"}), Update(c, s)>> : s \in {"same", "held"}},
       releaseCollateral |-> {<<Load(c, {"held", "margin_called"}), Update(c, "released")>>},
       markToMarket |-> {<<Load(c, Whatever), Update(c, "same")>>,
                         <<Load(c, {"held"}), Check, Update(c, "margin_called")>>}]

FxCollateralReports ==
  LET c == "fx_collateral"
  IN  Reports({"getTotalCollateral", "checkCollateralSufficiency", "getUtilizationSummary",
               "getAgingReport", "findByTradeId"}, c)
      @@ [processExpired |-> {<<Raw(c, {"held", "margin_called"}, "expired")>>},
          associateWithTrade |-> {<<Load(c, Whatever)>>, <<Load(c, Whatever), Update(c, "same")>>}]

\* fx-settlement.js
FxSettlementOps ==
  LET s == "fx_settlements"
      to(status) == {<<Update(s, status)>>}
  IN  [createFromTrade |-> {<<Load("fx_trades", Whatever), Load("corporate_entities", Whatever), Insert(s, "pending")>>},
       generateInstructions |-> {<<Load(s, Whatever), Update(s, "instructions_generated")>>},
       initiatePayment |-> to("payment_initiated"),
       confirmSent |-> to("payment_sent"), confirmReceived |-> to("payment_received"),
       complete |-> to("completed"),
       reconcile |-> {<<Load(s, Whatever), Update(s, r)>> : r \in {"reconciled", "disputed"}}]
  @@ Looks({"findByTrade", "findPending"}, s) @@ Reports({"findByDateRange"}, s)

-----------------------------------------------------------------------------
\* wallet.js.  count() is not there, so wallets are never created here.
WalletOps ==
  LET w == "wallets"
  IN  [createWallet |-> {<<Absent(w, {"active"}), Throws, Insert(w, "active")>>},
       credit |-> {<<Load(w, {"active"}), Check, Update(w, "same")>>},
       debit |-> {<<Load(w, {"active"}), Check, Update(w, "same")>>},
       holdFunds |-> {<<Load(w, Whatever), Check, Update(w, "same")>>},
       releaseFunds |-> {<<Load(w, Whatever), Update(w, "same")>>},
       freeze |-> {<<Update(w, "frozen")>>}]
  @@ Looks({"findByUserAndCurrency", "findByUser", "getBalanceSummary"}, w)

\* wallet-transaction.js
WalletTransactionOps ==
  [record |-> {<<Insert("wallet_transactions", "completed")>>}]
  @@ Reports({"findByWallet", "findByUser", "getSummary"}, "wallet_transactions")

\* transaction.js.  With an idempotency key a transaction that is there is
\* the answer; updateStatus() would write its log after the update.
TransactionOps ==
  LET t == "transactions"
  IN  [createTransaction |-> {<<Insert(t, "pending")>>, <<Absent(t, Whatever), Insert(t, "pending")>>}]
  @@ Looks({"findByReference", "findByProcessorRef", "findByIdempotencyKey", "findByOrder"}, t)
  @@ Reports({"findByUser", "findByMerchant"}, t)

TransactionStatusOps ==
  LET t == "transactions"
      log == <<Look("transaction_logs"), Insert("transaction_logs", "logged")>>
  IN  [updateStatus |-> {<<Load(t, Whatever), Update(t, s)>> \o log \o <<Load(t, Whatever)>> :
                           s \in {"authorized", "captured", "completed", "failed", "cancelled",
                                  "refunded", "disputed"}},
       recordProcessorResponse |-> {<<Look(t), Update(t, "same")>>},
       markAsSettled |-> {<<Raw(t, Whatever, "same")>>}]
  @@ Reports({"getSummary", "getDailyVolume"}, t) @@ Looks({"getPendingSettlement"}, t)

\* transaction-log.js.  The next sequence number is read, then inserted.
TransactionLogOps ==
  LET g == "transaction_logs"
  IN  [log |-> {<<Look(g), Insert(g, "logged")>>}]
      @@ Looks({"getAuditTrail", "getRecentByType", "getAuditRequired"}, g)

-----------------------------------------------------------------------------
\* deposit.js
DepositOps ==
  LET d == "deposits"
  IN  [initiate |-> {<<Insert(d, "instructions_sent")>>},
       detectPayment |-> {<<Load(d, Whatever), Update(d, "payment_detected")>>},
       confirm |-> {<<Load(d, Whatever), Update(d, "completed")>>}]
  @@ Reports({"findByUser"}, d)

DepositReports ==
  Looks({"findPending", "findByReference", "findByExternalReference"}, "deposits")
  @@ [cancelExpired |-> {<<Raw("deposits", {"instructions_sent"}, "expired")>>}]
  @@ Reports({"getStats"}, "deposits")

\* deposit-method.js.  calculateFee() and isWithinLimits() do not await the
\* method they look up: no fee is charged and no limit applies.
DepositMethodOps ==
  Looks({"findAvailable", "findByCode", "calculateFee", "isWithinLimits"}, "deposit_methods")

\* gift-card.js.  A card is looked up by an array of statuses, which finds
\* none: it cannot be redeemed, reloaded or asked for its balance.
GiftCardOps ==
  LET g == "gift_cards"
      card == Found(g, {})
      spend == {<<card, Check, Update(g, s)>> : s \in {"same", "expired", "redeemed", "partially_redeemed"}}
  IN  [issue |-> {<<Check, Insert(g, "active")>>},
       redeem |-> spend,
       checkBalance |-> {<<card>>}]

GiftCardCareOps ==
  LET g == "gift_cards"
  IN  [reload |-> {<<Found(g, {}), Check, Update(g, "active")>>},
       freeze |-> {<<Update(g, "frozen")>>},
       unfreeze |-> {<<Load(g, Whatever), Update(g, s)>> : s \in {"active", "redeemed"}},
       cancel |-> {<<Look(g), Update(g, "cancelled")>>},
       processExpiry |-> {<<Raw(g, {"active", "partially_redeemed"}, "expired")>>},
       sendExpiryReminders |-> {<<Found(g, {}), Update(g, "same")>>}]
  @@ Reports({"getSalesReport"}, g)

\* loyalty-points.js.  An account is created on the way to an update that
\* fails, and stays.
LoyaltyPointsOps ==
  LET a == "loyalty_points"
      getOrCreate == {<<Found(a, Whatever)>>, <<Absent(a, Whatever), Insert(a, "active")>>}
  IN  [getOrCreate |-> getOrCreate,
       earnPoints |-> {p \o <<Update(a, "same")>> : p \in getOrCreate},
       redeemPoints |-> {p \o <<Check, Update(a, "same")>> : p \in getOrCreate},
       getStatus |-> getOrCreate,
       processExpiry |-> {<<Raw(a, Whatever, "same")>>}]
  @@ Reports({"getProgramStats"}, a)

-----------------------------------------------------------------------------
\* exchange-rate.js.  The first rate of a pair is inserted; after that the
\* update that ends the previous one stands in the way.
ExchangeRateOps ==
  LET r == "exchange_rates"
  IN  [updateRate |-> {<<Found(r, {"active"}), Update(r, "inactive"), Insert(r, "active")>>,
                       <<Absent(r, {"active"}), Insert(r, "active")>>}]
  @@ Looks({"getRate", "getRates", "convert", "getHistory"}, r) @@ Reports({"getSupportedPairs"}, r)

\* merchant-settlement.js
MerchantSettlementOps ==
  LET s == "merchant_settlements"
  IN  [calculateSettlement |-> {<<Report("orders")>>, <<Report("orders"), Look("merchants")>>},
       createSettlement |-> {<<Insert(s, "pending")>>},
       approve |-> {<<Load(s, Whatever), Update(s, "approved")>>},
       complete |-> {<<Load(s, Whatever), Update(s, "completed")>>}]
  @@ Reports({"findByMerchant", "getSettlementSummary"}, s) @@ Looks({"findPending"}, s)

\* recurring-payment.js
RecurringPaymentOps ==
  LET p == "recurring_payments"
  IN  [createRecurringPayment |-> {<<Insert(p, "active")>>},
       recordSuccess |-> {<<Load(p, Whatever), Update(p, "same")>>},
       recordFailure |-> {<<Load(p, Whatever), Update(p, s)>> : s \in {"same", "paused"}},
       pause |-> {<<Update(p, "paused")>>},
       resume |-> {<<Update(p, "active")>>}]
  @@ Looks({"findActive", "findDueForProcessing"}, p)

\* bill-payment.js
BillPaymentOps ==
  LET b == "bill_payments"
  IN  [recordPayment |-> {<<Insert(b, "pending")>>}, updateWithToken |-> {<<Update(b, "completed")>>}]
  @@ Looks({"findByMeter"}, b)
  @@ Reports({"findByUser", "findByBiller", "getPopularBillers", "getSummary"}, b)

-----------------------------------------------------------------------------
\* referral.js
ReferralOps ==
  LET r == "referrals"
      to(status) == {<<Update(r, status)>>}
  IN  [trackClick |-> {<<Found(r, {"pending"}), Update(r, "clicked")>>,
                       <<Absent(r, {"pending"}), Insert(r, "clicked")>>},
       recordSignUp |-> {<<Found(r, {}), Update(r, s)>> : s \in {"fraud_detected", "signed_up"}},
       recordConversion |-> {<<Found(r, {"signed_up"}), Update(r, "converted")>>},
       calculateCommission |-> to("commission_calculated"),
       markCommissionPaid |-> to("commission_paid")]

ReferralReports ==
  LET r == "referrals"
  IN  Reports({"findByReferrer", "getStats"}, r) @@ Looks({"findByCode", "generateReferralCode"}, r)
      @@ [checkFraud |-> {<<Load(r, Whatever), Look(r)>>}]

\* referral-commission.js, referral-payout.js and referral-tier.js
ReferralCommissionOps ==
  LET c == "referral_commissions"
  IN  [createCommission |-> {<<Insert(c, "calculated")>>},
       approve |-> {<<Update(c, "approved")>>}, markAsPaid |-> {<<Update(c, "paid")>>},
       reverse |-> {<<Update(c, "reversed")>>}]
  @@ Reports({"findByReferrer", "getTotalEarnings", "getSummaryByLevel"}, c)

ReferralPayoutOps ==
  LET p == "referral_payouts"
  IN  [createPayout |-> {<<Insert(p, "pending")>>},
       processPayout |-> {<<Throws, Update(p, "completed")>>}]   \* connectionPool.raw()
  @@ Looks({"findByReferrer", "getPendingPayouts"}, p)

ReferralTierOps ==
  Looks({"getByLevel", "getByProgram", "getDefault", "determineTier"}, "referral_tiers")

-----------------------------------------------------------------------------
MoneyPrograms ==
  [FxQuote |-> FxQuoteOps @@ FxQuoteReports, FxTrade |-> FxTradeOps,
   FxHedge |-> FxHedgeOps @@ FxHedgeReports,
   FxCollateral |-> FxCollateralOps @@ FxCollateralReports, FxSettlement |-> FxSettlementOps,
   Wallet |-> WalletOps, WalletTransaction |-> WalletTransactionOps,
   Transaction |-> TransactionOps @@ TransactionStatusOps, TransactionLog |-> TransactionLogOps,
   Deposit |-> DepositOps @@ DepositReports, DepositMethod |-> DepositMethodOps,
   GiftCard |-> GiftCardOps @@ GiftCardCareOps, LoyaltyPoints |-> LoyaltyPointsOps,
   ExchangeRate |-> ExchangeRateOps, MerchantSettlement |-> MerchantSettlementOps,
   RecurringPayment |-> RecurringPaymentOps, BillPayment |-> BillPaymentOps,
   Referral |-> ReferralOps @@ ReferralReports, ReferralCommission |-> ReferralCommissionOps,
   ReferralPayout |-> ReferralPayoutOps, ReferralTier |-> ReferralTierOps]

\* The statuses that are final, by the tables of statuses in the models.
MoneyEnded ==
  [fx_quotes |-> {"accepted", "rejected", "expired", "converted", "cancelled"},
   fx_trades |-> {"settled", "reconciled", "cancelled"},
   fx_hedges |-> {"matured", "terminated", "expired", "exercised", "rolled_over"},
   fx_collateral |-> {"released", "forfeited", "returned", "expired"},
   fx_settlements |-> {"completed", "reconciled", "cancelled"},
   transactions |-> {"completed", "failed", "cancelled", "refunded"},
   deposits |-> {"completed", "failed", "cancelled", "expired"},
   gift_cards |-> {"redeemed", "expired", "cancelled", "voided"},
   merchant_settlements |-> {"completed", "failed"},
   referrals |-> {"commission_paid", "fraud_detected", "reversed"}]

\* The operations of these models that stop halfway.
MoneyHalfway == [LoyaltyPoints |-> {"earnPoints", "redeemPoints"}]
=============================================================================
