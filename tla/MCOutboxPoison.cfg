SPECIFICATION Spec
CONSTANTS
  e1 = e1
  e2 = e2
  w1 = w1
  w2 = w2
  audit = audit
  retired = retired
  NoToken = NoToken
  Events <- OneEvent
  Topics <- OneTopic
  TopicOf <- AllAudit
  MaxAttemptsOf <- TwoTries
  Handled <- OneTopic
  Removable = {}
  Workers <- OneWorker
  Tokens <- TwoTokens
  BatchSize = 1
  CleanupChunk = 1
  Lease = 2
  HandlerTimeout = 1
  SettleMargin = 1
  BackoffBase = 1
  BackoffMax = 1
  EnqueueDelay = 0
  UnhandledAge = 0
  Retention = 0
  MaxFaults = 2
  MaxStalls = 0
INVARIANTS
  StopsAtTheLimit
