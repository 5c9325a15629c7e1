\* Two processes and one job.
SPECIFICATION Spec
CONSTANTS
  p1 = p1
  p2 = p2
  j1 = j1
  j2 = j2
  Processes <- TwoProcesses
  Jobs <- OneJob
  NoRaw = NoRaw
  RetryLimit = 1
  MaxMoves = 2
  MaxDowns = 0
  MaxFaults = 0
INVARIANTS StatusIsFinal
CHECK_DEADLOCK FALSE
