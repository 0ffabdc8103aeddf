--------------------------- MODULE BusinessRecords ---------------------------
(***************************************************************************)
(* The operations of the remaining models (shared-models/src): companies,  *)
(* points of sale, billers and meters, schools, notifications, USSD,       *)
(* complaints, countries, and the mixins that archive and audit any table, *)
(* as programs of Records.                                                 *)
(***************************************************************************)
EXTENDS Records

\* corporate-entity.js and corporate-director.js: tables with hooks.
CorporateEntityOps ==
  LET e == "corporate_entities"
  IN  Looks({"findByUser", "findByRegistration", "hasAvailableCredit"}, e) @@ Reports({"search"}, e)
      @@ Sets({"enableFxTrading"}, e, "same") @@ [updateCreditUsage |-> {<<Raw(e, Whatever, "same")>>}]

CorporateDirectorOps ==
  LET d == "corporate_directors"
  IN  Looks({"findByCorporate", "findCurrentDirectors"}, d) @@ Sets({"verify"}, d, "same")
      @@ Sets({"recordResignation"}, d, "resigned") @@ [updateOwnership |-> {<<Check, Update(d, "same")>>}]

\* corporate-document.js and business-document.js
CorporateDocumentOps ==
  LET d == "corporate_documents"
  IN  Looks({"findByCorporate", "findMissingDocuments", "findExpired"}, d)
      @@ Sets({"verify"}, d, "verified") @@ Sets({"reject"}, d, "rejected")
      @@ [markExpired |-> {<<Raw(d, {"verified", "rejected", "other"}, "expired")>>}]

BusinessDocumentOps ==
  LET d == "business_documents"
  IN  Looks({"findByMerchant", "findVerifiedByMerchant", "findMissingRequired", "findExpiring"}, d)
      @@ Sets({"verify"}, d, "verified") @@ Sets({"reject"}, d, "rejected")

\* pos-store-link.js
PosStoreLinkOps ==
  LET l == "pos_store_links"
  IN  [createLink |-> {<<Absent(l, {"active", "paused"}), Insert(l, "active")>>},
       recordSync |-> {<<Update(l, "same")>>, <<Throws, Update(l, "same")>>},
       recordError |-> {<<Look(l), Throws, Update(l, "paused")>>}]
  @@ Sets({"pause"}, l, "paused") @@ Sets({"resume"}, l, "active")
  @@ Looks({"findByMerchant", "findByBranch"}, l)

\* pos-transaction.js.  voidTransaction() inserts the transaction that
\* voids another, then fails to mark the other one: it can be voided again.
PosTransactionOps ==
  LET t == "pos_transactions"
  IN  [createTransaction |-> {<<Insert(t, "completed")>>},
       voidTransaction |-> {<<Load(t, Whatever), Check, Insert(t, "completed"), Update(t, "voided")>>},
       syncOffline |-> {<<Insert(t, "completed")>>, <<Insert(t, "completed"), Insert(t, "completed")>>}]
  @@ Reports({"findByBranch", "findByDevice", "getDailySummary"}, t)

\* pos-device.js and pos-offline-queue.js
PosDeviceOps ==
  LET d == "pos_devices"
  IN  [register |-> {<<Insert(d, "active")>>}, recordTransaction |-> {<<Raw(d, Whatever, "same")>>}]
      @@ Sets({"updateOnlineStatus"}, d, "same") @@ Sets({"deactivate"}, d, "inactive")
      @@ Looks({"findByBranch", "findByMerchant"}, d)

PosOfflineQueueOps ==
  LET q == "pos_offline_queue"
  IN  [queue |-> {<<Insert(q, "pending")>>}, getPending |-> {<<Throws>>},
       markFailed |-> {<<Look(q), Update(q, "failed")>>},
       purgeSynced |-> {<<Erase(q, {"synced"})>>}]
  @@ Sets({"markSynced"}, q, "synced") @@ Sets({"cancel"}, q, "cancelled") @@ Reports({"getStats"}, q)

-----------------------------------------------------------------------------
\* biller.js and biller-category.js
BillerOps ==
  LET b == "billers"
  IN  Looks({"findByCategory", "calculateFee", "validateFields"}, b) @@ Reports({"search", "getPopular"}, b)
      @@ Sets({"updateHealth"}, b, "same")

BillerCategoryOps ==
  Looks({"getActive", "getFeatured", "findBySlug"}, "biller_categories")
  @@ Reports({"getWithBillerCounts"}, "biller_categories")

\* address.js and meter-number.js: the default is cleared before the update
\* that fails (an address is checked to be there first).
AddressOps ==
  LET a == "addresses"
  IN  Looks({"findByUser", "getDefault", "findByDeliveryZone", "isDuplicate"}, a)
      @@ [setDefault |-> {<<Load(a, Whatever), Check, Raw("other_addresses", Whatever, "secondary"),
                            Update(a, "default")>>},
          findNearby |-> {<<Throws>>}]

MeterNumberOps ==
  LET m == "meter_numbers"
  IN  Looks({"findByUser", "findByMeter"}, m)
      @@ [saveMeter |-> {<<Look(m), Check, Throws, Insert(m, "default")>>},
          setDefault |-> {<<Raw(m, Whatever, "secondary"), Update(m, "default")>>}]

MeterUsageOps ==
  LET m == "meter_numbers"
  IN  [recordUsage |-> {<<Throws, Update(m, "same")>>}, updateReading |-> {<<Look(m), Update(m, "same")>>},
       archiveUnused |-> {<<Raw(m, Whatever, "same")>>}]
  @@ Sets({"verify"}, m, "same") @@ Reports({"getPopularByBiller"}, m)

\* school.js, school-term.js, student.js and school-fees-payment.js
SchoolOps ==
  LET s == "schools"
  IN  [register |-> {<<Absent(s, Whatever), Insert(s, "active")>>},
       updatePaymentStats |-> {<<Raw(s, Whatever, "same")>>}]
  @@ Reports({"search"}, s) @@ Looks({"findByCode", "getFeatured"}, s) @@ Sets({"verify"}, s, "same")

SchoolTermOps ==
  LET t == "school_terms"
  IN  Looks({"findBySchool", "getCurrentTerm", "isRegistrationOpen"}, t)
      @@ [setCurrent |-> {<<Raw(t, Whatever, "past"), Update(t, "current")>>}]

StudentOps ==
  LET s == "students"
  IN  [register |-> {<<Absent(s, Whatever), Insert(s, "active")>>}]
      @@ Reports({"findBySchool", "search"}, s) @@ Looks({"findByStudentNumber"}, s)
      @@ Amends({"updateBalance"}, s, "same")

SchoolFeesPaymentOps ==
  LET p == "school_fees_payments"
  IN  [recordPayment |-> {<<Insert(p, "completed")>>}] @@ Looks({"findByStudent"}, p)
      @@ Reports({"findByUser", "findBySchool", "getSchoolSummary"}, p)

-----------------------------------------------------------------------------
\* notification.js.  markAllAsRead() passes over what the user has acted on
\* and what was dismissed or has expired, not over what was cancelled.
NotificationOps ==
  LET n == "notifications"
  IN  [send |-> {<<Insert(n, "pending")>>}, getUnreadCount |-> {<<Throws>>},
       markAllAsRead |-> {<<Raw(n, {"pending", "sent", "delivered", "read", "failed", "cancelled", "other"},
                                "read")>>}]
  @@ Reports({"findByUser"}, n) @@ Sets({"markAsRead"}, n, "read")

NotificationCareOps ==
  LET n == "notifications"
  IN  Sets({"markClicked"}, n, "clicked") @@ Sets({"dismiss"}, n, "dismissed")
      @@ Sets({"markDelivered"}, n, "delivered") @@ Reports({"getStats"}, n)
      @@ [markFailed |-> {<<Load(n, Whatever), Update(n, s)>> : s \in {"failed", "pending"}}]

\* notification-template.js
NotificationTemplateOps ==
  LET t == "notification_templates"
  IN  Looks({"findByName", "findBySlug", "findByType", "getActive", "getByCategory"}, t)
      @@ [render |-> {<<Found(t, {"latest", "other"}), Check, Raw(t, Whatever, "same")>>},
          createNewVersion |-> {<<Load(t, Whatever), Update(t, "superseded"), Insert(t, "latest")>>}]

\* ussd-session.js and ussd-transaction.js.  What is found expired is ended
\* on the way, by the update that fails.
UssdSessionRecordOps ==
  LET s == "ussd_sessions"
      found == <<Found(s, {"active"})>>
      late == <<Found(s, {"active"}), Load(s, Whatever), Update(s, "timeout")>>
  IN  [createSession |-> {<<Insert(s, "active")>>}, findActive |-> {found, late},
       endSession |-> {<<Load(s, Whatever), Update(s, "completed")>>},
       cleanupExpired |-> {<<Raw(s, {"active"}, "timeout")>>}]
  @@ [n \in {"navigate", "updateData"} |-> {found \o <<Update(s, "same")>>, late}]
  @@ Looks({"findByPhone"}, s)

UssdTransactionOps ==
  LET t == "ussd_transactions"
  IN  [createTransaction |-> {<<Insert(t, "pending")>>},
       updateStatus |-> {<<Load(t, Whatever), Update(t, s)>> : s \in {"processing", "completed", "failed", "reversed"}}]
  @@ Looks({"findBySession"}, t) @@ Reports({"findByPhone", "findByUser", "getStats"}, t)

\* ussd-menu.js, complaint.js and complaint-escalation.js
UssdMenuOps == Looks({"findByMenuId", "getMenuTree", "getChildren", "getAllMenus"}, "ussd_menus")

ComplaintOps == Looks({"findByUser", "findAssigned"}, "complaints") @@ Reports({"getStats"}, "complaints")

ComplaintEscalationOps ==
  LET e == "complaint_escalations"
  IN  [escalate |-> {<<Insert(e, "escalated")>>}, getAverageEscalationTime |-> {<<Throws>>}]
      @@ Looks({"findByComplaint", "getCurrentLevel", "canEscalate"}, e) @@ Reports({"getEscalationStats"}, e)

\* country.js and currency.js
CountryOps ==
  Looks({"findByCode", "getActive", "getRegulatoryLimits", "isServiceAvailable"}, "countries")
  @@ Reports({"getByService", "getByPaymentMethod"}, "countries")

CurrencyOps == Looks({"findByCode", "getActive", "getBase"}, "currencies")

-----------------------------------------------------------------------------
\* archive-mixin.js over a table of any model.  Records are looked up by
\* archived_at = NULL, which no row matches, so none is ever archived.
ArchiveOps ==
  LET r == "any_records"
      a == "archived_records"
  IN  [archiveOlderThan |-> {<<Found(r, {}), Raw(r, Whatever, "archived"), Insert(a, "recoverable")>>},
       purgeArchived |-> {<<Erase(r, {"archived"})>>, <<Erase(r, {"archived"}), Raw(a, Whatever, "same")>>},
       restoreArchive |-> {<<Found(a, Whatever), Throws>>},   \* connectionPool.raw()
       verifyArchiveIntegrity |-> {<<Look(a)>>}]
  @@ Reports({"getArchivalStats"}, r) @@ Looks({"findByArchiveBatch"}, r)

\* audit-mixin.js.  The entry of the audit log is inserted after the
\* record, and a failure to insert it is only logged.
AuditOps ==
  LET r == "any_records"
  IN  [createWithAudit |-> {<<Insert(r, "active")>>, <<Insert(r, "active"), Note("audit_logs", "logged")>>},
       updateWithAudit |-> {<<Look(r), Update(r, "same"), Note("audit_logs", "logged")>>}]

\* encryption-mixin.js: fields are encrypted before and decrypted after.
EncryptionOps ==
  LET r == "any_records"
  IN  [create |-> {<<Insert(r, "active")>>}, update |-> {<<Update(r, "same")>>}]
      @@ Looks({"findById", "findAll", "findOne"}, r)
-----------------------------------------------------------------------------
BusinessPrograms ==
  [CorporateEntity |-> CorporateEntityOps, CorporateDirector |-> CorporateDirectorOps,
   CorporateDocument |-> CorporateDocumentOps,
   BusinessDocument |-> BusinessDocumentOps, PosStoreLink |-> PosStoreLinkOps,
   PosTransaction |-> PosTransactionOps, PosDevice |-> PosDeviceOps,
   PosOfflineQueue |-> PosOfflineQueueOps, Biller |-> BillerOps,
   BillerCategory |-> BillerCategoryOps, Address |-> AddressOps,
   MeterNumber |-> MeterNumberOps @@ MeterUsageOps, School |-> SchoolOps,
   SchoolTerm |-> SchoolTermOps, Student |-> StudentOps,
   SchoolFeesPayment |-> SchoolFeesPaymentOps,
   Notification |-> NotificationOps @@ NotificationCareOps,
   NotificationTemplate |-> NotificationTemplateOps,
   UssdSessionRecord |-> UssdSessionRecordOps, UssdTransaction |-> UssdTransactionOps,
   UssdMenu |-> UssdMenuOps, Complaint |-> ComplaintOps,
   ComplaintEscalation |-> ComplaintEscalationOps, Country |-> CountryOps,
   Currency |-> CurrencyOps, Archive |-> ArchiveOps, Audit |-> AuditOps,
   Encryption |-> EncryptionOps]

\* The statuses that are final.
BusinessEnded ==
  [pos_offline_queue |-> {"synced", "cancelled"},
   notifications |-> {"clicked", "dismissed", "expired"},
   ussd_sessions |-> {"completed", "terminated", "timeout", "error", "cancelled"},
   ussd_transactions |-> {"completed", "reversed", "cancelled"},
   corporate_documents |-> {"expired"}, corporate_directors |-> {"resigned"}]

\* The operations of these models that stop halfway.
BusinessHalfway ==
  [PosTransaction |-> {"voidTransaction"}, Address |-> {"setDefault"},
   MeterNumber |-> {"setDefault"}, SchoolTerm |-> {"setCurrent"}]

\* Those that stop halfway when the database rejects one of their statements.
BusinessPiecemeal == [PosTransaction |-> {"syncOffline"}, Archive |-> {"purgeArchived"}]
=============================================================================
