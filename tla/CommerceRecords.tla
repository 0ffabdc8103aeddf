--------------------------- MODULE CommerceRecords ---------------------------
(***************************************************************************)
(* The operations of the models about orders, deliveries, drivers, drones, *)
(* gifts and proxy purchases, refunds, products, stores and merchants      *)
(* (shared-models/src), as programs of Records.                            *)
(***************************************************************************)
EXTENDS Records

\* order.js.  The order is inserted, then its items one by one.
OrderOps ==
  LET o == "orders"
      to(s) == <<Load(o, Whatever), Update(o, s)>>
  IN  [createOrder |-> {<<Insert(o, "pending")>>,
                        <<Insert(o, "pending"), Insert("order_items", "pending"),
                          Insert("order_items", "pending")>>},
       updateStatus |-> {to(s) : s \in {"confirmed", "processing", "shipped", "delivered",
                                        "completed", "cancelled", "refunded"}},
       updatePaymentStatus |-> {<<Update(o, "same")>>, <<Throws, Update(o, "same")>>},
       cancel |-> {<<Load(o, {"pending", "confirmed", "processing", "ready_to_ship"})>>
                     \o to("cancelled")}]
  @@ Reports({"findByUser", "findByMerchant", "getOrderSummary"}, o)
  @@ Looks({"findByOrderNumber", "findByPaymentRef"}, o)

\* order-item.js
OrderItemOps ==
  LET i == "order_items"
  IN  [updateFulfillmentStatus |-> {<<Update(i, s)>> : s \in {"picked", "packed", "shipped", "delivered"}},
       markReturned |-> {<<Update(i, "returned")>>}]
  @@ Sets({"updateRefundStatus", "markReviewReminderSent"}, i, "same")
  @@ Looks({"findByOrder"}, i) @@ Reports({"findByProduct", "getTopSelling"}, i)

\* gift-order.js.  processScheduledDeliveries() stops at the first gift
\* that is due.
GiftOrderOps ==
  LET g == "gift_orders"
      notify == {<<Load(g, Whatever), Update(g, s)>> : s \in {"notified", "same"}}
  IN  [createGiftOrder |-> {<<Load("orders", Whatever), Insert(g, s)>> : s \in {"scheduled", "pending"}},
       notifyRecipient |-> notify,
       markViewed |-> {<<Load(g, Whatever)>>, <<Load(g, Whatever), Update(g, "viewed")>>},
       markRedeemed |-> {<<Look(g), Update(g, "redeemed")>>},
       processScheduledDeliveries |-> {<<Found(g, {"scheduled"})>> \o p : p \in notify}]
  @@ Reports({"findBySender", "findByRecipient"}, g) @@ Sets({"sendThankYou"}, g, "same")

-----------------------------------------------------------------------------
\* delivery.js
DeliveryOps ==
  LET d == "deliveries"
  IN  Looks({"findByDriver", "findActiveByDriver", "findPending"}, d)
      @@ [findNearby |-> {<<Throws>>},     \* HAVING without GROUP BY, by an alias
          assignDriver |-> {<<Look(d), Update(d, "assigned")>>},
          updateStatus |-> {<<Load(d, Whatever), Update(d, s)>> :
                              s \in {"picked_up", "in_transit", "out_for_delivery", "delivered",
                                     "failed", "cancelled"}}]

DeliveryProofOps ==
  LET d == "deliveries"
  IN  Sets({"recordProofOfDelivery"}, d, "delivered") @@ Sets({"recordCODCollection"}, d, "same")
      @@ Reports({"getStats"}, d)

\* delivery-signature.js
DeliverySignatureOps ==
  LET s == "delivery_signatures"
  IN  [capture |-> {<<Insert(s, "captured")>>}, verifySignature |-> {<<Load(s, Whatever), Update(s, "same")>>}]
      @@ Looks({"findByDelivery", "findLatestByDelivery"}, s)
      @@ Reports({"findByDriver", "getDriverStats"}, s)

\* delivery-tracking.js
DeliveryTrackingOps ==
  LET t == "delivery_tracking"
  IN  [n \in {"recordLocation", "recordStatusChange", "recordCheckpoint", "recordDeliveryAttempt"} |->
         {<<Insert(t, "recorded")>>}]

DeliveryHistoryOps ==
  LET t == "delivery_tracking"
  IN  Looks({"findByDelivery", "getLatest", "getLatestLocation", "getSince", "buildTimeline"}, t)
      @@ Reports({"getSummary", "getCurrentGeofences"}, t)
      @@ [purgeOldEvents |-> {<<Erase(t, Whatever)>>}]

\* proof-of-delivery.js
ProofOfDeliveryOps ==
  LET p == "proof_of_delivery"
  IN  [capture |-> {<<Insert(p, "pending")>>},
       verifyIntegrity |-> {<<Look(p)>>, <<Load(p, Whatever), Update(p, "same")>>}]
  @@ Sets({"verify"}, p, "verified") @@ Sets({"flagForReview"}, p, "under_review")
  @@ Looks({"findByDelivery", "findByOrder"}, p) @@ Reports({"getDriverStats"}, p)

\* driver.js.  A driver is loaded without a check that it is there.
DriverOps ==
  LET d == "drivers"
  IN  Looks({"findByUser"}, d) @@ Sets({"updateLocation", "verify"}, d, "same")
      @@ [setAvailability |-> {<<Update(d, s)>> : s \in {"online", "offline"}}]
      @@ Sets({"acceptDelivery"}, d, "busy") @@ Amends({"completeDelivery"}, d, "online")
      @@ Amends({"takeBreak"}, d, "on_break") @@ Sets({"endBreak"}, d, "online")
      @@ Reports({"getPerformanceSummary"}, d)
      @@ [n \in {"findNearby", "getOnlineCount"} |-> {<<Throws>>}]

\* drone.js.  scheduleMaintenance() needs the function that is not there.
DroneOps ==
  LET d == "drones"
  IN  Looks({"findAvailable"}, d) @@ Sets({"assignMission"}, d, "pre_flight")
      @@ Sets({"updatePosition", "updateTelemetry"}, d, "same") @@ Amends({"completeMission"}, d, "idle")
      @@ [scheduleMaintenance |-> {<<Throws, Update(d, "maintenance")>>}] @@ Reports({"getFleetStats"}, d)

\* live-tracking.js, and gov-document.js, which is a copy of it.
LiveTrackingOps ==
  LET t == "live_tracking"
  IN  [recordPing |-> {<<Insert(t, "recorded")>>}, purgeOldPings |-> {<<Erase(t, Whatever)>>}]
      @@ Looks({"getLatestPosition", "getPositionHistory"}, t)
      @@ Reports({"getActiveSessions", "aggregateRoute"}, t)

\* telemetry.js
TelemetryOps ==
  LET t == "telemetry"
  IN  [record |-> {<<Insert(t, "recorded")>>}, purgeOld |-> {<<Erase(t, Whatever)>>}]
      @@ Looks({"getLatest", "getHistory"}, t)

-----------------------------------------------------------------------------
\* commerce-cod-order.js and cod-verification.js
CodOrderOps ==
  LET o == "cod_orders"
  IN  Looks({"findByUser", "findPendingForDriver"}, o) @@ Sets({"recordCollection"}, o, "collected")
      @@ [recordFailed |-> {<<Look(o), Update(o, s)>> : s \in {"same", "failed"}}]
      @@ Reports({"getStats"}, o)

CodVerificationOps ==
  LET v == "cod_verifications"
  IN  [recordVerification |-> {<<Insert(v, "verified")>>}]
      @@ Looks({"findByCodOrder", "findByDelivery"}, v) @@ Reports({"getSuccessRate"}, v)

\* proxy-order.js
ProxyOrderOps ==
  LET p == "proxy_orders"
  IN  [createProxyOrder |-> {<<Insert(p, "pending")>>}, recordCollection |-> {<<Throws, Update(p, "collected")>>},
       cancel |-> {<<Update(p, "cancelled")>>}, verifyCollectionOTP |-> {<<Load(p, Whatever), Check>>}]
  @@ Looks({"findByPurchaser", "findByRecipient"}, p)

\* proxy-purchase.js.  Its create() calls itself, with the record where the
\* purchaser should be.
ProxyPurchaseOps ==
  LET p == "proxy_purchases"
  IN  [create |-> {<<Throws, Insert(p, "pending")>>}]
      @@ Sets({"recordCollection"}, p, "collected") @@ Sets({"authorizeCollection"}, p, "same")
      @@ Looks({"findByPurchaser", "findByRecipient"}, p)

\* pickup-authorization.js
PickupAuthorizationOps ==
  LET a == "pickup_authorizations"
  IN  [authorize |-> {<<Insert(a, "authorized")>>},
       verifyOTP |-> {<<Load(a, Whatever), Check, Update(a, "otp_verified")>>,
                      <<Load(a, Whatever), Check, Throws>>},
       expireOld |-> {<<Raw(a, {"pending", "authorized", "otp_sent"}, "expired")>>}]
  @@ Sets({"recordCollection"}, a, "collected") @@ Sets({"cancel"}, a, "cancelled")
  @@ Looks({"findByOrder"}, a)

\* return-label.js
ReturnLabelOps ==
  LET l == "return_labels"
  IN  [generate |-> {<<Insert(l, "generated")>>}, recordDownload |-> {<<Throws, Update(l, "downloaded")>>},
       voidLabel |-> {<<Update(l, "voided")>>}]
  @@ Looks({"findByRefundRequest"}, l)

-----------------------------------------------------------------------------
\* refund-request.js.  updateStatus() loads without a check, findPending()
\* asks for an array of statuses.
RefundRequestOps ==
  LET r == "refund_requests"
  IN  [submit |-> {<<Insert(r, "pending")>>},
       updateStatus |-> {<<Load(r, Whatever), Update(r, s)>> : s \in {"approved", "denied", "completed"}},
       checkSLABreach |-> {<<Raw(r, {"pending", "under_review"}, "same")>>}]
  @@ Reports({"findByUser"}, r) @@ Looks({"findPending"}, r)

\* refund-approval.js
RefundApprovalOps ==
  LET a == "refund_approvals"
  IN  [n \in {"autoApprove", "approve", "deny"} |-> {<<Insert(a, "completed")>>}]
      @@ [escalate |-> {<<Load(a, Whatever), Insert(a, "pending")>>}] @@ Looks({"findByRefundRequest"}, a)

\* refund-timeline.js.  The next sequence number is read, then inserted.
RefundTimelineOps ==
  LET t == "refund_timelines"
  IN  [recordEvent |-> {<<Look(t), Insert(t, "recorded")>>, <<Look(t), Look(t), Insert(t, "recorded")>>}]

RefundTimelineReports ==
  LET t == "refund_timelines"
  IN  Looks({"getTimeline", "getCurrentStatus"}, t)
      @@ Reports({"getSLAMetrics", "getAverageDurationByEventType"}, t)

\* refund-reason.js and refund-policy.js
RefundReasonOps ==
  LET r == "refund_reasons"
      once == <<Absent(r, Whatever), Insert(r, "active")>>
  IN  [seedDefaults |-> {<<Found(r, Whatever)>>, once, once \o <<Look(r), Insert(r, "active")>>}]
      @@ Looks({"findByCode", "getByCategory"}, r)

RefundPolicyOps ==
  [createPolicy |-> {<<Insert("refund_policies", "active")>>}]
  @@ Looks({"getApplicablePolicy"}, "refund_policies")

\* store-refund-policy.js.  A new default first clears the one there was.
StoreRefundPolicyOps ==
  LET p == "store_refund_policies"
  IN  [createPolicy |-> {<<Insert(p, "active")>>, <<Raw(p, Whatever, "active"), Insert(p, "default")>>}]
      @@ Looks({"getApplicablePolicy", "findByMerchant"}, p)

-----------------------------------------------------------------------------
\* gift-registry.js
GiftRegistryOps ==
  LET g == "gift_registries"
      change == {<<Load(g, Whatever), Check, Update(g, "same")>>}
  IN  [createRegistry |-> {<<Insert(g, "active")>>},
       addItem |-> {<<Load(g, {"active", "draft"}), Update(g, "same")>>},
       recordPurchase |-> change \cup {<<Load(g, Whatever), Check, Update(g, "completed")>>},
       recordCashGift |-> change]
  @@ Amends({"recordShare"}, g, "same")

GiftRegistryPublicOps ==
  LET g == "gift_registries"
  IN  Reports({"findByUser", "findPublic"}, g) @@ Looks({"findByShareCode", "findBySlug", "getStats"}, g)
      @@ [recordView |-> {<<Raw(g, Whatever, "same")>>},
          processExpired |-> {<<Raw(g, {"active", "published"}, "expired")>>},
          sendThankYou |-> {<<Look(g), Update(g, "same")>>}]

\* product.js
ProductOps ==
  LET p == "products"
  IN  [createProduct |-> {<<Absent(p, Whatever), Insert(p, "draft")>>},
       updateStock |-> {<<Load(p, Whatever), Update(p, s)>> : s \in {"same", "unavailable"}},
       recordView |-> {<<Raw(p, Whatever, "same")>>}]
  @@ Reports({"findByMerchant", "findByCategory", "search"}, p)
  @@ Looks({"getFeatured", "getLowStock"}, p) @@ Amends({"updateRating"}, p, "same")

\* product-3d-model.js
Product3dModelOps ==
  LET m == "product_3d_models"
  IN  [uploadModel |-> {<<Found(m, Whatever), Update(m, "pending")>>, <<Absent(m, Whatever), Insert(m, "pending")>>},
       recordView |-> {<<Raw(m, Whatever, "same")>>}]
  @@ Sets({"updateOptimizations"}, m, "completed") @@ Sets({"markProcessingFailed"}, m, "failed")
  @@ Looks({"findByProduct"}, m)

\* product-media.js.  setPrimary() clears the primary picture of a product
\* before the update that fails; deleteMedia() of the primary calls it.
ProductMediaOps ==
  LET m == "product_media"
      setPrimary == <<Raw(m, Whatever, "secondary"), Update(m, "primary")>>
  IN  [addMedia |-> {<<Throws, Insert(m, "primary")>>},
       setPrimary |-> {setPrimary},
       deleteMedia |-> {<<Load(m, Whatever), Update(m, "hidden")>>,
                        <<Load(m, {"primary"}), Look(m)>> \o setPrimary}]
  @@ Looks({"findByProduct", "findPrimary"}, m) @@ Sets({"reorder"}, m, "same")

-----------------------------------------------------------------------------
\* merchant.js and branch.js
MerchantOps ==
  LET m == "merchants"
  IN  Looks({"findByUser", "findBySlug", "getFeatured"}, m)
      @@ Reports({"search", "getPerformanceSummary"}, m)
      @@ Sets({"verify"}, m, "verified") @@ Sets({"suspend"}, m, "suspended")
      @@ Amends({"updateRating"}, m, "same")

BranchOps ==
  Looks({"findByMerchant", "canAcceptOrders"}, "branches")
  @@ [findNearby |-> {<<Throws>>}, updateOrderCount |-> {<<Raw("branches", Whatever, "same")>>}]

\* store-verification.js.  initiate() looks for a verification in progress
\* by an array of statuses, so it never finds one.
StoreVerificationOps ==
  LET v == "store_verifications"
  IN  [initiate |-> {<<Absent(v, {}), Insert(v, "pending")>>}]
      @@ Sets({"approve"}, v, "approved") @@ Sets({"reject"}, v, "rejected")
      @@ Looks({"findByMerchant", "findPending"}, v)

\* store-badge.js, store-network.js and store-rating.js
StoreBadgeOps ==
  LET b == "store_badges"
  IN  [award |-> {<<Check, Absent(b, {"active"}), Insert(b, "active")>>, <<Found(b, {"active"})>>},
       revoke |-> {<<Update(b, "inactive")>>}]
  @@ Looks({"findByMerchant"}, b)

StoreNetworkOps ==
  LET n == "store_networks"
  IN  [createNetwork |-> {<<Insert(n, "active")>>}, updateStats |-> {<<Report("branches"), Update(n, "same")>>}]
      @@ Looks({"findByMerchant"}, n)

StoreRatingOps ==
  LET r == "store_ratings"
  IN  [submitReview |-> {<<Absent(r, Whatever), Insert(r, "published")>>},
       markHelpful |-> {<<Raw(r, Whatever, "same")>>}]
  @@ Sets({"addReply"}, r, "same") @@ Reports({"findByMerchant", "getRatingSummary"}, r)

\* store-theme.js and custom-domain.js: the active theme and the primary
\* domain are cleared before the update that fails.
StoreThemeOps ==
  LET t == "store_themes"
  IN  [createFromTemplate |-> {<<Absent(t, Whatever), Insert(t, "active")>>},
       activate |-> {<<Raw(t, Whatever, "inactive"), Update(t, "active")>>}]
  @@ Looks({"findByMerchant", "getAllByMerchant"}, t)

CustomDomainOps ==
  LET d == "custom_domains"
  IN  [setPrimary |-> {<<Raw(d, Whatever, "secondary"), Update(d, "primary")>>}]
      @@ Looks({"findByDomain", "findByMerchant", "getPrimary"}, d)
      @@ Sets({"verify", "enableSSL", "updateDNSStatus"}, d, "same")

\* trust-score.js: every calculation adds a score.
TrustScoreOps ==
  [calculate |-> {<<Load("merchants", Whatever), Look("trust_scores"), Insert("trust_scores", "current")>>}]
  @@ Looks({"getCurrent"}, "trust_scores")
-----------------------------------------------------------------------------
CommercePrograms ==
  [Order |-> OrderOps, OrderItem |-> OrderItemOps, GiftOrder |-> GiftOrderOps,
   Delivery |-> DeliveryOps @@ DeliveryProofOps,
   DeliverySignature |-> DeliverySignatureOps,
   DeliveryTracking |-> DeliveryTrackingOps @@ DeliveryHistoryOps,
   ProofOfDelivery |-> ProofOfDeliveryOps, Driver |-> DriverOps, Drone |-> DroneOps,
   LiveTracking |-> LiveTrackingOps, Telemetry |-> TelemetryOps,
   CodOrder |-> CodOrderOps, CodVerification |-> CodVerificationOps,
   ProxyOrder |-> ProxyOrderOps, ProxyPurchase |-> ProxyPurchaseOps,
   PickupAuthorization |-> PickupAuthorizationOps, ReturnLabel |-> ReturnLabelOps,
   RefundRequest |-> RefundRequestOps, RefundApproval |-> RefundApprovalOps,
   RefundTimeline |-> RefundTimelineOps @@ RefundTimelineReports,
   RefundReason |-> RefundReasonOps, RefundPolicy |-> RefundPolicyOps,
   StoreRefundPolicy |-> StoreRefundPolicyOps,
   GiftRegistry |-> GiftRegistryOps @@ GiftRegistryPublicOps, Product |-> ProductOps,
   Product3dModel |-> Product3dModelOps, ProductMedia |-> ProductMediaOps,
   Merchant |-> MerchantOps, Branch |-> BranchOps,
   StoreVerification |-> StoreVerificationOps, StoreBadge |-> StoreBadgeOps,
   StoreNetwork |-> StoreNetworkOps, StoreRating |-> StoreRatingOps,
   StoreTheme |-> StoreThemeOps, CustomDomain |-> CustomDomainOps,
   TrustScore |-> TrustScoreOps]

\* The statuses that are final.
CommerceEnded ==
  [orders |-> {"completed", "cancelled", "refunded", "failed"},
   gift_orders |-> {"redeemed", "returned", "cancelled", "failed"},
   deliveries |-> {"delivered", "cancelled", "returned"},
   pickup_authorizations |-> {"collected", "expired", "cancelled", "failed"},
   return_labels |-> {"voided", "expired"},
   refund_requests |-> {"completed", "denied", "failed", "cancelled"},
   gift_registries |-> {"completed", "expired", "deleted"},
   proxy_orders |-> {"collected", "completed", "cancelled", "refunded"},
   cod_orders |-> {"collected", "refunded"},
   store_badges |-> {"inactive"}, store_verifications |-> {"rejected"}]

\* The operations of these models that stop halfway.
CommerceHalfway ==
  [ProductMedia |-> {"setPrimary", "deleteMedia"}, StoreTheme |-> {"activate"},
   CustomDomain |-> {"setPrimary"}]

\* Those that stop halfway when the database rejects one of their statements.
CommercePiecemeal ==
  [Order |-> {"createOrder"}, StoreRefundPolicy |-> {"createPolicy"},
   RefundReason |-> {"seedDefaults"}]
=============================================================================
