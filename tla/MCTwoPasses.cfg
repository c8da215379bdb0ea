CONSTANTS
  ASN = {1, 2, 3}
  MaxPathLen = 16
  NextHopBase = 8
  LengthBase = 32
  NoRoute = NoRoute
  LoopCheckLen = 10
  Iterations = 2
  Graphs <- MCGraphs
  Seeds <- MCSeeds
SPECIFICATION Spec
INVARIANTS
  BestAreLoopFree
CHECK_DEADLOCK FALSE
