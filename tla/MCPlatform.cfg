CONSTANTS
  gracePeriod = 2
  initialLife = 5
  maxVersions = 2
  MaxKeys = 4
  MaxClock = 6
  Keys = {k1}
  Limits <- MCLimits
  MaxTime = 9
  MaxCount = 8
  maxCalls = 1
  perInterval = 2
  MaxWrapped = 4
  grace = 1
  Lifetimes <- MCLives
  MaxApiKeys = 3
  Tokens = {a1, a2, a3}
  FormSessions = {s1, s2}
  tokenTTL = 2
  SignedRequests = {n1, n2}
  maxTimestampAge = 2
  nonceCleanup = 4
  NotSigned = NotSigned
  MaxSkew = 3
  MaxBare = 2
  MaxNow = 9
  CardTokens = {b1, b2}
  Cards = {card1, card2}
  TokenLives <- MCLives
  Width = 2
  SixOnly = six
  Ranges <- MCRanges
  Expiries = {1, Forever}
  Forever = Forever
  MaxListed = 3
  MaxAccessNow = 2
  RiskUsers = {u1, anonymous}
  Analyses = {x1, x2}
  TxnWindow = 2
  EventRetention = 2
  TxnLimit = 1
  LoginLimit = 2
  AddedPatterns = 1
  MaxRiskNow = 3
  MaxEvents = 3
  Watched = {w1}
  IPs = {ip1}
  Spent = {0, 2, 9}
  Volumes = {0, 1, 12}
  Currencies = {usd}
  Hour = 3
  TxnMinutes = 2
  CallMinute = 1
  Day = 3
  ManyTxns = 1
  ManyExports = 1
  ManyCalls = 1
  MaxSeenNow = 3
  MaxSeen = 3
  RuleIds = {e1, e2}
  AlertMetrics = {errors, latency}
  Thresholds = {1, 2}
  Readings = {0, 1, 2}
  cooldown = 2
  maxHistorySize = 2
  maxRecentEvents = 2
  digestDelay = 2
  MaxAlertNow = 3
  MaxEntries = 5
  MaxMedium = 2
  Rotators = {o1, o2}
  MaxLines = 1
  MaxLogTime = 1
  maxSize = 0
  maxFiles = 1
  maxAge = 0
  checkInterval = 0
  LogDay = 1
  MayCollide = FALSE
SPECIFICATION MCSpec
INVARIANTS LimiterSound RisksSound TokensSound LinesSurvive
PROPERTIES VerdictsStable KeysReplaced AlertsSound
SYMMETRY RotatorSymmetry
CHECK_DEADLOCK FALSE
