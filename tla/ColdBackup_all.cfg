SPECIFICATION Spec
CONSTANTS
  k1 = k1
  k2 = k2
  b1 = b1
  b2 = b2
  part1 = part1
  part2 = part2
  Missing = Missing
  Callers <- TwoCallers
  Operations <- AllOperations
  Ids <- TwoBackups
  Parts <- TwoParts
  MaxVersion = 2
  MayStart = TRUE
  LogsAreRead = TRUE
  RenameMayFail = TRUE
  MayCrash = TRUE
SYMMETRY Symmetry
INVARIANTS TypeOK NothingIsLost
PROPERTIES CopiesAreWhole
