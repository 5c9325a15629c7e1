\* The gate: three lanes that nest two acquisitions compete for two slots of a
\* pool of three clients, which is shut down and created anew.  The models: two
\* calls compete for the one slot of each of two providers, and two failures.
\* No symmetry: the liveness of the lanes is checked too.
SPECIFICATION SlotsSpec
CONSTANTS
  l1 = l1
  l2 = l2
  l3 = l3
  r1 = r1
  r2 = r2
  k1 = k1
  k2 = k2
  p1 = p1
  p2 = p2
  Lanes <- ThreeLanes
  Requests <- MCRequests
  Capacity = 2
  PoolSize = 3
  MaxHeld = 2
  MaxPools = 2
  Calls <- TwoCalls
  Providers <- TwoProviders
  Chain <- TwoInOrder
  SlotLimit = 1
  WaitMs = 1
  ChainMs = 2
  Threshold = 2
  OpenMs = 1
  WindowMs = 0
  Never = Never
  MaxNow = 2
  MaxFailures = 2
INVARIANTS SlotsAreHeld RequestsKeepRoom NobodyWaitsInVain SlotsAreThoseOfCalls
PROPERTIES NobodyIsOvertaken KnotsComeUndone SkippedForFailures
