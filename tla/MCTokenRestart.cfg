\* One run at a time and one row: it is written, amended while the channel is
\* off, and the job is run again from the start.
SPECIFICATION Spec
CONSTANTS
  u1 = u1
  u2 = u2
  c1 = c1
  c2 = c2
  LastRow = 1
  Existing = {1}
  Contents <- TwoContents
  Untokenizable = {}
  NoTokens = NoTokens
  Runs <- OneRun
  BatchSize = 1
  MayBreak = {}
  MaxWrites = 1
  MaxExtra = 1
  MaxStops = 0
INVARIANTS RestartMakesUp
