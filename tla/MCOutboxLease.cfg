SPECIFICATION Spec
CONSTANTS
  e1 = e1
  e2 = e2
  w1 = w1
  w2 = w2
  audit = audit
  retired = retired
  NoToken = NoToken
  Events <- OneEvent
  Topics <- OneTopic
  TopicOf <- AllAudit
  MaxAttemptsOf <- TwoTries
  Handled <- OneTopic
  Removable <- OneTopic
  Workers <- TwoWorkers
  Tokens <- ThreeTokens
  BatchSize = 1
  CleanupChunk = 1
  Lease = 3
  HandlerTimeout = 1
  SettleMargin = 2
  BackoffBase = 1
  BackoffMax = 1
  EnqueueDelay = 0
  UnhandledAge = 0
  Retention = 0
  MaxFaults = 1
  MaxStalls = 3
SYMMETRY WorkerSymmetry
INVARIANTS
  OneDelivery
  LeaseOutlivesDelivery
  EveryStartIsCounted
  ProcessedWasApplied
  OnlyCommittedIsApplied
  DeadForAReason
PROPERTIES
  SettledForever
