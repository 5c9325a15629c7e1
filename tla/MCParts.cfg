\* The backfill: two runs over one row and the place of another, in batches of
\* two, one restart or retry, one run that stops, one write, a row that may fail.
\* Keys: two processes and one change of the key.  Limits: one fragment and one
\* anchor, and two requests.  Vectors: two fragments, which one sweep may take
\* together, so that it meets one row refused beside one that is not.
SPECIFICATION PartsSpec
CONSTANTS
  c1 = c1
  c2 = c2
  u1 = u1
  u2 = u2
  s1 = s1
  s2 = s2
  r1 = r1
  f1 = f1
  f2 = f2
  q1 = q1
  q2 = q2
  ta = ta
  bad = bad
  LastRow = 2
  Existing = {1}
  Contents <- TwoContents
  Untokenizable <- LongRuns
  NoTokens = NoTokens
  Runs <- TwoRuns
  BatchSize = 2
  MayBreak = {1}
  MaxWrites = 1
  MaxExtra = 1
  MaxStops = 1
  Servers <- TwoServers
  Askers <- OneAsker
  Unknown = Unknown
  KeyTtl = 1
  FailureWindow = 1
  MaxVersion = 1
  MaxClock = 2
  Fragments <- TwoFragments
  Requests <- TwoRequests
  Nobody = Nobody
  Nothing = Nothing
  FragmentLimit = 1
  AnchorLimit = 1
  Margin = 0
  AutoPromote = TRUE
  Texts <- TwoTexts
  Refused <- BadText
  NoText = NoText
  Forgotten = Forgotten
  NoVector = NoVector
  LastId = 2
  PopLimit = 2
  SweepLimit = 2
  MaxEdits = 4
  MaxGlitches = 1
  MaxCrashes = 1
INVARIANTS
  SkippedIsRecorded
  InvalidatedIsGone
  StaleForTtl
  JudgedAnchorsKeepTheLimit
  VectorIsOfContent
PROPERTIES
  StoresWhatIsThere
  WatermarkGoesForward
  EventuallyCompleted
  AtomicKeepsTheLimit
  EventuallyEmbedded
CHECK_DEADLOCK FALSE
