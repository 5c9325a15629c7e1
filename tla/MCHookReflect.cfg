\* Two requests of one session and event, three deliveries between them, and
\* time for a claim to become stale and for a record to expire.
SPECIFICATION Spec
CONSTANTS
  e1 = e1
  e2 = e2
  k = k
  d1 = d1
  d2 = d2
  d3 = d3
  Events <- MCEvents
  Keys <- MCKeys
  KeyOf <- MCKeyOf
  Deliveries <- MCDeliveries
  NoEvent = NoEvent
  NoDelivery = NoDelivery
  MaxAttempts = 2
  Stale = 1
  Ttl = 3
  PendingPerKey = 1
  MaxTicks = 3
SYMMETRY MCSymmetry
INVARIANTS HeldWhileFresh SkippedOnlyIfReflected DuplicateIsCovered
PROPERTIES DoneStays AgainOnlyWhenStale
CHECK_DEADLOCK FALSE
