--------------------------- MODULE AccountRecords ---------------------------
(***************************************************************************)
(* The operations of the models about users, their sessions and devices,   *)
(* roles and permissions, developers and their keys, archives and logs     *)
(* (shared-models/src), as programs of Records.                            *)
(***************************************************************************)
EXTENDS Records

Actives == {"active"}

\* user.js.  The table has hooks of its own: a user that is there cannot be
\* looked up.  Logins are counted by statements that do not load the user.
UserOps ==
  LET u == "users"
  IN  Looks({"findByEmail", "findByPhone", "findForLogin", "getKYCLimits"}, u)
      @@ Reports({"search"}, u)
      @@ [recordLogin |-> {<<Raw(u, Whatever, "same")>>},
          recordFailedLogin |-> {<<Raw(u, Whatever, "same")>>},
          isLocked |-> {<<Load(u, Whatever)>>}]

UserCareOps ==
  LET u == "users"
  IN  Sets({"updateKYC"}, u, "same") @@ Sets({"suspend"}, u, "suspended")
      @@ Sets({"unsuspend"}, u, "active") @@ Sets({"anonymize"}, u, "anonymized")
      @@ [isSuspended |-> {<<Load(u, Whatever)>>, <<Load(u, {"suspended"}), Update(u, "active")>>},
          exportData |-> {<<Load(u, Whatever)>>}]

\* user-session.js.  count() is not there, so no session is created.
UserSessionOps ==
  LET s == "user_sessions"
      found == Found(s, Actives)
      drop == Update(s, "inactive")
  IN  [createSession |-> {<<Throws, Look(s), drop, Insert(s, "active")>>},
       refreshSession |-> {<<found, drop>>, <<found, Save(s, "same")>>},
       deactivateSession |-> {<<drop>>},
       deactivateAllForUser |-> {<<Raw(s, Actives, "inactive")>>},
       cleanupExpired |-> {<<Raw(s, Actives, "inactive")>>}]
  @@ Sets({"updateActivity", "trustSession"}, s, "same") @@ Looks({"getActiveSessions"}, s)

\* sso-session.js
SsoSessionOps ==
  LET s == "sso_sessions"
  IN  [createSession |-> {<<Throws, Raw(s, Actives, "expired"), Raw(s, Whatever, "same"),
                            Insert(s, "active")>>},
       deactivateAll |-> {<<Raw(s, Actives, "revoked")>>}]
  @@ Amends({"recordPlatformAccess"}, s, "same") @@ Looks({"findByToken"}, s)

\* mfa-method.js.  setPrimary() clears the primary method of the user by a
\* statement of its own; the update that would set the new one fails.
MfaMethodOps ==
  LET m == "mfa_methods"
  IN  Looks({"findByUser", "getPrimary"}, m)
      @@ [hasMfaEnabled |-> {<<Throws>>},
          enroll |-> {<<Look(m), Throws, Update(m, "secondary")>>,
                      <<Look(m), Throws, Insert(m, "primary")>>},
          verify |-> {<<Update(m, "same")>>}]

MfaMethodCareOps ==
  LET m == "mfa_methods"
  IN  [disable |-> {<<Load(m, Whatever), Update(m, "disabled")>>,
                    <<Load(m, {"primary"}), Look(m), Update(m, "primary")>>},
       setPrimary |-> {<<Raw(m, Whatever, "secondary"), Update(m, "primary")>>},
       recordSuccess |-> {<<Throws>>},
       isLocked |-> {<<Load(m, Whatever)>>, <<Load(m, Whatever), Update(m, "same")>>},
       getSummary |-> {<<Look(m), Throws>>}]
  @@ Amends({"recordFailure"}, m, "same") @@ Sets({"rotateSecret"}, m, "same")

\* mfa-backup-code.js.  A new batch: the old codes expire, then the codes
\* are inserted one by one.
MfaBackupCodeOps ==
  LET c == "mfa_backup_codes"
  IN  [generateCodes |-> {<<Raw(c, {"unused"}, "expired"), Insert(c, "unused"), Insert(c, "unused")>>},
       verifyAndUse |-> {<<Check, Found(c, {"unused"}), Update(c, "used")>>},
       expireOldCodes |-> {<<Raw(c, {"unused"}, "expired")>>}]
  @@ [n \in {"getRemainingCount", "hasAvailableCodes", "getBatchInfo"} |-> {<<Throws>>}]

\* recovery-token.js.  save() calls the class method validate(), which this
\* model has replaced by one that hashes a token: no token is created.
RecoveryTokenOps ==
  LET r == "recovery_tokens"
      valid == Found(r, {"pending"})
  IN  [generate |-> {<<Throws, Insert(r, "pending")>>},
       validate |-> {<<valid>>, <<valid, Update(r, "expired")>>},
       use |-> {<<valid, Update(r, "used")>>, <<valid, Update(r, "expired")>>}]
  @@ Sets({"completeRecovery"}, r, "same") @@ Sets({"revoke"}, r, "expired")

-----------------------------------------------------------------------------
\* user-device.js
UserDeviceOps ==
  LET d == "user_devices"
  IN  [registerDevice |-> {<<Found(d, Whatever), Throws>>,
                           <<Absent(d, Whatever), Throws, Insert(d, "active")>>},
       removeDevice |-> {<<Update(d, "inactive")>>},
       recordUsage |-> {<<Raw(d, Whatever, "same")>>}]
  @@ Looks({"findByUser"}, d) @@ Sets({"trustDevice", "updatePushToken"}, d, "same")

\* unified-account.js.  suspend() deactivates the user on every platform
\* before the update of the account, which fails.
UnifiedAccountOps ==
  LET a == "unified_accounts"
  IN  [createAccount |-> {<<Absent(a, Whatever), Insert(a, "active")>>},
       linkPlatform |-> {<<Load(a, Whatever), Update(a, "same")>>,
                         <<Load(a, Whatever), Absent("platform_links", Actives),
                           Insert("platform_links", "active")>>},
       suspend |-> {<<Look(a), Raw("platform_users", Whatever, "inactive"), Update(a, "suspended")>>,
                    <<Look(a), Update(a, "suspended")>>},
       requestDeletion |-> {<<Update(a, "deletion_requested")>>},
       syncProfile |-> {<<Load(a, Whatever), Raw("platform_users", Whatever, "same"),
                         Raw("platform_users", Whatever, "same")>>}]
  @@ Looks({"findByEmail", "findByPhone", "getLinkedPlatforms"}, a)

\* platform-link.js
PlatformLinkOps ==
  LET l == "platform_links"
  IN  [link |-> {<<Absent(l, Actives), Insert(l, "active")>>}, unlink |-> {<<Update(l, "inactive")>>}]
      @@ Looks({"findByUnifiedAccount"}, l) @@ Sets({"updateSyncStatus", "updateTokens"}, l, "same")

\* admin-role.js
AdminRoleOps ==
  LET r == "admin_roles"
  IN  Looks({"findBySlug", "findByLevel", "getHierarchy", "getAllPermissions", "hasPermission"}, r)
      @@ [createSystemRole |-> {<<Insert(r, "active")>>}]

\* pos-permission.js.  The predefined permissions are looked up and
\* inserted one after the other.
PosPermissionOps ==
  LET p == "pos_permissions"
      once == <<Absent(p, Whatever), Insert(p, "active")>>
      seed == {<<Found(p, Whatever)>>, once, once \o <<Look(p), Insert(p, "active")>>}
  IN  [seedDefaults |-> seed,
       isValidSlug |-> {<<Throws>>},
       createCustom |-> {<<Check, Absent(p, Whatever), Insert(p, "active")>>},
       disable |-> {<<Load(p, Whatever), Check, Update(p, "inactive")>>}]
  @@ Looks({"getGrouped", "findBySlug", "findByGroup", "getCritical", "getSupervisorRequired",
            "getManagerRequired"}, p)
  @@ Reports({"getWithUsageStats"}, p)

\* pos-role.js and seller-role.js
PosRoleOps ==
  LET r == "pos_roles"
  IN  Looks({"findBySlug", "getAllPermissions", "hasPermission", "getHierarchy"}, r)
      @@ [seedDefaults |-> {<<Absent(r, Whatever), Look(r), Insert(r, "active")>>}]

SellerRoleOps ==
  LET r == "seller_roles"
      once == <<Absent(r, Whatever), Insert(r, "active")>>
  IN  Looks({"findByMerchant", "hasPermission"}, r)
      @@ [seedDefaults |-> {<<Found(r, Whatever)>>, once, once \o <<Look(r), Insert(r, "active")>>}]

-----------------------------------------------------------------------------
\* developer.js and api-application.js.  A suspension first disables the
\* keys and applications, by statements that stay when the update fails.
DeveloperOps ==
  LET d == "developers"
      unkeyed == Raw("api_keys", Whatever, "inactive")
  IN  [register |-> {<<Absent(d, Whatever), Insert(d, "active")>>},
       approveProduction |-> {<<Update(d, "same")>>},
       upgradeTier |-> {<<Check, Update(d, "same")>>},
       suspend |-> {<<unkeyed, Raw("api_applications", Whatever, "suspended"), Update(d, "suspended")>>},
       recordUsage |-> {<<Raw(d, Whatever, "same")>>}]
  @@ Looks({"findByUser", "findByEmail", "checkQuota", "getStats"}, d)

ApiApplicationOps ==
  LET a == "api_applications"
  IN  [approve |-> {<<Update(a, "approved")>>},
       suspend |-> {<<Raw("api_keys", Whatever, "inactive"), Update(a, "suspended")>>},
       recordApiCall |-> {<<Raw(a, Whatever, "same")>>}]
  @@ Sets({"submitForReview", "reject"}, a, "pending")
  @@ Looks({"findByDeveloper", "findActive", "getPendingReview"}, a)

\* api-key.js.  recordUsage() builds an increment with the function that is
\* not there, although its statement does not use it.
ApiKeyOps ==
  LET k == "api_keys"
  IN  [generateKey |-> {<<Insert(k, "active")>>},
       validateKey |-> {<<Look(k), Check>>},
       recordUsage |-> {<<Throws, Raw(k, Whatever, "same")>>},
       rotateKey |-> {<<Load(k, Whatever), Update(k, "inactive"), Insert(k, "active")>>},
       revokeKey |-> {<<Update(k, "inactive")>>}]
  @@ Looks({"findByApplication"}, k) @@ Reports({"getUsageStats"}, "api_request_logs")

\* api-request-log.js: an insert that nobody waits for.
ApiRequestLogOps ==
  LET g == "api_request_logs"
  IN  [log |-> {<<Note(g, "logged")>>}, purgeOldLogs |-> {<<Erase(g, Whatever)>>}]
      @@ Reports({"getApplicationStats", "getEndpointBreakdown", "getVolumeOverTime"}, g)

-----------------------------------------------------------------------------
\* admin-audit-log.js and security-event.js
AdminAuditLogOps ==
  LET g == "admin_audit_logs"
  IN  [log |-> {<<Insert(g, "logged")>>}, purgeOldLogs |-> {<<Erase(g, Whatever)>>}]
      @@ Looks({"findByResource", "exportForCompliance"}, g)
      @@ Reports({"findByAdmin", "findByAction", "findByDateRange", "getSummary"}, g)

SecurityEventOps ==
  LET e == "security_events"
  IN  [log |-> {<<Throws, Insert(e, "open")>>, <<Insert(e, "open")>>},
       markInvestigated |-> {<<Update(e, "closed")>>}]
  @@ Looks({"findByTypeAndSeverity"}, e) @@ Reports({"findByUser", "findByIP", "getStats"}, e)

\* security-breach-log.js
SecurityBreachLogOps ==
  LET b == "security_breach_logs"
  IN  [logBreach |-> {<<Insert(b, "investigating")>>}]
      @@ Sets({"recordContainment"}, b, "contained")
      @@ Sets({"recordRegulatoryNotification"}, b, "reported_to_regulator")

\* archived-record.js, purge-log.js and retention-policy.js
ArchivedRecordOps ==
  LET a == "archived_records"
  IN  [recordArchival |-> {<<Insert(a, "recoverable")>>}, recordRecovery |-> {<<Throws>>},
       markUnrecoverable |-> {<<Update(a, "unrecoverable")>>}]
  @@ Looks({"findByOriginalTable", "findByOriginalRecord", "getExpiredArchives"}, a)
  @@ Reports({"getExpiringArchives", "getArchivalStats"}, a)

PurgeLogOps ==
  LET p == "purge_logs"
  IN  [log |-> {<<Insert(p, "logged")>>}] @@ Sets({"verify"}, p, "same")
      @@ Looks({"findByDateRange"}, p) @@ Reports({"findByTable", "getStats"}, p)

RetentionPolicyOps ==
  Looks({"getActive", "findByTable"}, "retention_policies")
  @@ Sets({"updateExecutionStatus"}, "retention_policies", "same")

\* webhook-endpoint.js and webhook-delivery.js
WebhookEndpointOps ==
  LET w == "webhook_endpoints"
  IN  [register |-> {<<Insert(w, "unverified")>>}, verify |-> {<<Update(w, "active")>>},
       recordDelivery |-> {<<Throws, Update(w, "same")>>}, pause |-> {<<Update(w, "paused")>>}]
  @@ Looks({"findByApplication", "findByEvent"}, w)

WebhookDeliveryOps ==
  [log |-> {<<Insert("webhook_deliveries", "logged")>>}]
  @@ Reports({"findByEndpoint", "getStats"}, "webhook_deliveries")

-----------------------------------------------------------------------------
AccountPrograms ==
  [User |-> UserOps @@ UserCareOps, UserSession |-> UserSessionOps, SsoSession |-> SsoSessionOps,
   MfaMethod |-> MfaMethodOps @@ MfaMethodCareOps, MfaBackupCode |-> MfaBackupCodeOps,
   RecoveryToken |-> RecoveryTokenOps, UserDevice |-> UserDeviceOps,
   UnifiedAccount |-> UnifiedAccountOps, PlatformLink |-> PlatformLinkOps,
   AdminRole |-> AdminRoleOps, PosPermission |-> PosPermissionOps, PosRole |-> PosRoleOps,
   SellerRole |-> SellerRoleOps, Developer |-> DeveloperOps,
   ApiApplication |-> ApiApplicationOps, ApiKey |-> ApiKeyOps, ApiRequestLog |-> ApiRequestLogOps,
   AdminAuditLog |-> AdminAuditLogOps, SecurityEvent |-> SecurityEventOps,
   SecurityBreachLog |-> SecurityBreachLogOps, ArchivedRecord |-> ArchivedRecordOps,
   PurgeLog |-> PurgeLogOps, RetentionPolicy |-> RetentionPolicyOps,
   WebhookEndpoint |-> WebhookEndpointOps, WebhookDelivery |-> WebhookDeliveryOps]

\* The statuses that are final.
AccountEnded ==
  [users |-> {"anonymized"}, user_sessions |-> {"inactive"},
   sso_sessions |-> {"expired", "revoked", "logged_out"}, mfa_backup_codes |-> {"used", "expired"},
   recovery_tokens |-> {"used", "expired"}, user_devices |-> {"inactive"},
   platform_links |-> {"inactive"}, unified_accounts |-> {"deleted"}]

\* The operations of these models that stop halfway.
AccountHalfway ==
  [MfaMethod |-> {"setPrimary"}, UnifiedAccount |-> {"suspend"}, Developer |-> {"suspend"},
   ApiApplication |-> {"suspend"}]

\* Those that stop halfway when the database rejects one of their statements.
AccountPiecemeal ==
  [MfaBackupCode |-> {"generateCodes"}, UnifiedAccount |-> {"syncProfile"},
   PosPermission |-> {"seedDefaults"}, SellerRole |-> {"seedDefaults"}]
=============================================================================
