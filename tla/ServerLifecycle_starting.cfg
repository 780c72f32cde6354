SPECIFICATION Spec
CONSTANTS
  c1 = c1
  c2 = c2
  l1 = l1
  l2 = l2
  None = None
  Callers <- TwoCallers
  Locks <- Allocations
  MaxSpawn = 2
  FailingKills <- Nobody
  Cancellable <- First
INVARIANTS StartingIsSpawnWindow
