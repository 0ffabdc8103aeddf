CONSTANTS
  Phones = {t1, t2}
  Menus = {main_menu, send_money}
  main_menu = main_menu
  sessionTimeout = 1
  maxSessionsPerPhone = 2
  MaxSessions = 3
  MaxStack = 2
  People = {p1, p2, p3, p4}
  Nobody = Nobody
  maxDepth = 3
  maxTotalCommission = 20
  minPurchaseAmount = 10
  Rates <- MCRates
  DefaultRates <- MCDefaultRates
  NetworkPurchases = {0, 9, 10, 50}
  default = default
  Users = {u1, u2}
  Codes = {c1}
  Chosen = {vip, c1}
  Programs = {default}
  Default = default
  NoProgram = NoProgram
  Configs <- MCConfigs
  DefaultConfig <- MCDefaultConfig
  Purchases = {4}
  maxEvents = 2
  MaxReferrals = 3
  MaxConversions = 2
  MaxEarned = 2
  MaxDays = 2
  Items <- MCItems
  Orders <- MCOrders
  Updatable = {"furniture", "toys"}
  CustomPolicies <- MCCustomPolicies
  RouteLists <- MCRouteLists
  MaxDay = 18
  Dialogs = {d1}
  Home = "home"
  MenuIds = {"home", "send", "pay"}
  NoMenu = NoMenu
  Missing = Missing
  Services = {"transfer"}
  Numbers = {"1", "2", "3"}
  MenuShapes <- MCShapes
  Listings <- MCListings
  Traders = {1, 2}
  Amounts = {1, 2}
  FxTerms <- MCTerms
  Day = 1
  Month = 2
  Jitter = 1
  MaxFxTime = 3
SPECIFICATION MCSpec
INVARIANTS Acyclic PayoutsFair EngineSound CalculatorsSound DialogsSound FxLimitsKept
PROPERTIES RefusalsStand LiveSessionsKept
SYMMETRY UserSymmetry
CHECK_DEADLOCK FALSE
