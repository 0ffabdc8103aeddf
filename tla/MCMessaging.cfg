CONSTANTS
  Parts = {"connection", "delivery", "webhooks", "retries", "replicas"}
  Deliveries = {w1, w2, w3}
  maxRetries = 1
  MaxLog = 2
  m1 = m1
  m2 = m2
  Services <- MCServices
  Subscribers <- MCSubscribers
  Replayers = {1, 2}
  Ids = {m1, m2}
  Key <- MCKey
  Patterns <- MCPatterns
  RequeueOnError = TRUE
  MaxRetries = 1
  MaxReplayAttempts = 1
  MaxLength = 1
  DlqBindings <- DlqRebound
  Backpressure = TRUE
  MaxMessages = 2
  MaxReconnectAttempts = 2
  MaxConns = 3
  MaxDials = 2
  policyRetries = 2
  baseDelay = 4
  maxDelay = 10
  Strategies = {"fixed", "linear", "decorrelated", "exponential"}
  ErrorKinds = {"permanentName", "permanentText", "permanentNumber", "transientText", "serverNumber", "numericCode", "unknown"}
  Replicas = 2
  Readers = {q1, q2}
  restTicks = 2
  MaxRests = 2
SPECIFICATION MCSpec
INVARIANTS ConnectedIsOpen NeverStranded RetriesSound
PROPERTIES ReconnectResolves CallsEnd RecoversAgain LossesExplained
CHECK_DEADLOCK FALSE
