SPECIFICATION Spec
CONSTANTS
  MaxDownloads = 2
  Total = 2
  MaxThreads = 2
  MaxFaults = 1
  Callers = {c1}
  None = None
INVARIANTS TypeOK CompletedIsWhole EndHasVerdict
CHECK_DEADLOCK FALSE
