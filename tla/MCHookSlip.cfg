\* One event whose first delivery outran its time limit while it is delivered again.
SPECIFICATION Spec
CONSTANTS
  e1 = e1
  e2 = e2
  k = k
  d1 = d1
  d2 = d2
  d3 = d3
  Events <- OneEvent
  Keys <- MCKeys
  KeyOf <- OneKeyOf
  Deliveries <- MCDeliveries
  NoEvent = NoEvent
  NoDelivery = NoDelivery
  MaxAttempts = 2
  Stale = 1
  Ttl = 3
  PendingPerKey = 1
  MaxTicks = 3
SYMMETRY OneSymmetry
INVARIANT EndedMeansReflected
CHECK_DEADLOCK FALSE
