SPECIFICATION FairSpec
CONSTANTS
  Unset = Unset
  Garbage = Garbage
  Milli = 1
  Second = 1000
  Word = 1048576
  Edge = 8
  Saturates = FALSE
  Instance = {i1, i2}
  NoOne = NoOne
  Orphan = Orphan
  Env <- MCEnv
  FaultLimit = 2
  MoreClaims = 2
INVARIANTS TypeOK MigrationsDontCollide ServesOnTable BadJobIsContained
PROPERTIES GetsServing BadJobIsBuried
CHECK_DEADLOCK FALSE
