SPECIFICATION FairSpec
CONSTANTS
  c1 = c1
  c2 = c2
  l1 = l1
  l2 = l2
  None = None
  Callers <- TwoCallers
  Locks <- Allocations
  MaxSpawn = 2
  FailingKills <- Second
  Cancellable <- First
INVARIANTS TypeOK Exclusive OneAndTracked StatusIsTrue DeletedStaysDown
PROPERTIES KeepsPromise StopOkMeansDown CallsReturn
