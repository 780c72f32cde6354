SPECIFICATION Spec
CONSTANTS
  Callers = {c1, c2}
  MaxHosts = 2
  MaxJoins = 2
  None = None
SYMMETRY CallerSymmetry
INVARIANTS TypeOK OneTunnel StopIsFinal LanFollowsJoin
