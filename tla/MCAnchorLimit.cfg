\* Two fragments and two requests, an anchor limit of one, no automatic promotion.
SPECIFICATION QuotaSpec
CONSTANTS
  f1 = f1
  f2 = f2
  q1 = q1
  q2 = q2
  Fragments <- TwoFragments
  Requests <- TwoRequests
  Nobody = Nobody
  Nothing = Nothing
  FragmentLimit = 2
  AnchorLimit = 1
  Margin = 0
  AutoPromote = FALSE
INVARIANT AnchorsKeepTheLimit
CHECK_DEADLOCK FALSE
