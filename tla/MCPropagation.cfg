CONSTANTS
  ASN = {1, 2, 3}
  MaxPathLen = 2
  NextHopBase = 8
  LengthBase = 32
  NoRoute = NoRoute
  LoopCheckLen = 2
  Iterations = 1
  Thread = {t1, t2}
  Graphs <- MCAllGraphs
  Seeds <- MCSeeds
SPECIFICATION FairSpec
INVARIANTS
  RaceFree
  NothingLeftBehind
PROPERTIES
  IsLockStep
  Terminates
CHECK_DEADLOCK FALSE
