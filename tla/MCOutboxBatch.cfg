\* Two events in one batch of one worker, a handler that is removed for good and
\* one that stays, one fault, housekeeping; the settling of every event that
\* can be settled.
SPECIFICATION FairSpec
CONSTANTS
  e1 = e1
  e2 = e2
  w1 = w1
  w2 = w2
  audit = audit
  retired = retired
  NoToken = NoToken
  Events <- TwoEvents
  Topics <- TwoTopics
  TopicOf <- Mixed
  MaxAttemptsOf <- TwoTries
  Handled <- TwoTopics
  Removable <- Retired
  Workers <- OneWorker
  Tokens <- ThreeTokens
  BatchSize = 2
  CleanupChunk = 1
  Lease = 2
  HandlerTimeout = 1
  SettleMargin = 1
  BackoffBase = 1
  BackoffMax = 1
  EnqueueDelay = 0
  UnhandledAge = 1
  Retention = 0
  MaxFaults = 1
  MaxStalls = 0
PROPERTIES
  ImplementsDelivery
  EventuallySettled
