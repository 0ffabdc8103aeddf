CONSTANTS
  Parts = {"delivery"}
  Deliveries = {w1, w2, w3}
  maxRetries = 1
  MaxLog = 2
  m1 = m1
  m2 = m2
  Services <- MCServices
  Subscribers <- MCSubscribers
  Replayers = {1}
  Ids = {m1}
  Key <- MCKey
  Patterns <- MCPatterns
  RequeueOnError = TRUE
  MaxRetries = 1
  MaxReplayAttempts = 1
  MaxLength = 8
  DlqBindings <- DlqAsShipped
  Backpressure = FALSE
  MaxMessages = 3
  MaxReconnectAttempts = 2
  MaxConns = 3
  MaxDials = 2
  policyRetries = 2
  baseDelay = 4
  maxDelay = 10
  Strategies = {"fixed", "linear", "decorrelated", "exponential"}
  ErrorKinds = {"permanentName", "permanentText", "permanentNumber", "transientText", "serverNumber", "numericCode", "unknown"}
  Replicas = 2
  Readers = {q1, q2}
  restTicks = 2
  MaxRests = 2
SPECIFICATION MCSpec
INVARIANT NoSilentLoss
CHECK_DEADLOCK FALSE
