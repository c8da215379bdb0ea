CONSTANTS
  ASN = {1, 2, 3, 4}
  MaxPathLen = 16
  NextHopBase = 8
  LengthBase = 32
  NoRoute = NoRoute
  LoopCheckLen = 10
  Iterations = 1
  Graphs <- MCGraphs
  Seeds <- MCSeeds
SPECIFICATION Spec
INVARIANTS
  StableAtEnd
  BestAreValleyFree
  BestAreLoopFree
  ForwardingFollowsPath
  OriginIsTruthful
CHECK_DEADLOCK FALSE
