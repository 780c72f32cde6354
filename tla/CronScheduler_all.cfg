SPECIFICATION FairSpec
CONSTANTS
  c1 = c1
  c2 = c2
  Scheduler = Scheduler
  None = None
  Callers <- OneCaller
  Periods <- TwoPeriods
  MaxTasks = 2
  MaxTime = 2
  MaxCalls = 3
  MaxCrashes = 1
  MayFail = TRUE
  MayCancel = TRUE
CHECK_DEADLOCK FALSE
INVARIANTS TypeOK DiskIsMemory
PROPERTIES RunsAreRight CatchesUp
