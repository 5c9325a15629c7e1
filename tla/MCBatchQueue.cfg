\* Two processes and one job, a death, and a Redis command that fails or goes
\* unanswered; a start puts back one job.
SPECIFICATION FairSpec
CONSTANTS
  p1 = p1
  p2 = p2
  j1 = j1
  j2 = j2
  Processes <- TwoProcesses
  Jobs <- OneJob
  NoRaw = NoRaw
  RetryLimit = 1
  MaxMoves = 1
  MaxDowns = 1
  MaxFaults = 1
INVARIANTS NothingIsLost DeadMeansExhausted
PROPERTIES EventuallyHandled
CHECK_DEADLOCK FALSE
