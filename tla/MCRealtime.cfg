CONSTANTS
  w1 = w1
  w2 = w2
  s1 = s1
  s2 = s2
  Sockets = {w1, w2}
  Streams = {s1, s2}
  Fleets <- Together
  Users = {u1, u2}
  SSEUsers = {u1, u2}
  Groups = {g1}
  Channels = {g1}
  NoUser = NoUser
  Anonymous = NoUser
  maxClientsPerUser = 1
  RoomNames = {r1, r2}
  Members = {m1, m2}
  Capacities = {0, 1}
  historySize = 1
  Persons = {p1, p2}
  idleTimeout = 1
  awayTimeout = 2
  offlineTimeout = 3
  c1 = c1
  c2 = c2
  h1 = h1
  h2 = h2
  k1 = k1
  k2 = k2
  Processes = {h1, h2}
  Calls = {c1, c2}
  ProcessOf <- MCProcessOf
  Keys = {k1, k2}
  NoEntry = NoEntry
  Nobody = Nobody
  maxSize = 1
  memoryTTL = 1
  redisTTL = 2
  MaxVersion = 2
SPECIFICATION Spec
INVARIANTS BroadcastExact PerUserLimit RoomsBothWays CapacityKept PresenceFresh QuietlyCoherent
PROPERTIES AnsweringKept VanishedRemoved HeardStaysOnline EventuallyFresh
CHECK_DEADLOCK FALSE
