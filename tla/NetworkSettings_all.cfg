SPECIFICATION FairSpec
CONSTANTS
  c1 = c1
  c2 = c2
  p1 = p1
  Manual = Manual
  Direct = Direct
  None = None
  Callers <- TwoCallers
  Modes <- TwoModes
  SystemRoutes <- TwoRoutes
  MaxCalls = 2
  MaxChanges = 1
  MaxForeign = 1
  MayFail = TRUE
  MayCancel = TRUE
CHECK_DEADLOCK FALSE
INVARIANTS TypeOK SettingsAgree
PROPERTIES NoLostChange FollowsSystem
