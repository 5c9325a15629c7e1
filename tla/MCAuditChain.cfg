\* Two recordable events and an unreadable one, clocks one unit apart, one
\* direct edit, retention in runs of two chunks of one row, and verifications
\* that read one row per statement, so that everything can happen in between.
SPECIFICATION Spec
CONSTANTS
  a = a
  b = b
  c = c
  Events <- MCEvents
  Unreadable <- MCUnreadable
  Retention = 0
  PruneChunk = 1
  MaxPerRun = 2
  Chunk = 1
  RowLimits <- MCRowLimits
  Skew = 1
  MaxSeq = 5
  MaxTime = 1
  MaxEdits = 1
  MaxLost = 1
SYMMETRY MCSymmetry
INVARIANTS ChainHolds SettledIsRecordedOnce IntactIsTrue BrokenIsRight
PROPERTIES HeadOnlyGrows PrunesOnlyExpired
CHECK_DEADLOCK FALSE
