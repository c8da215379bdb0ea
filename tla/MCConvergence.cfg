CONSTANTS
  ASN = {1, 2, 3}
  MaxPathLen = 16
  NextHopBase = 8
  LengthBase = 32
  NoRoute = NoRoute
  Limits = {0, 2}
  Graphs <- MCGraphs
  Seeds <- MCSeeds
SPECIFICATION FairSpec
INVARIANTS
  NoChangeLost
  EndsQuiet
PROPERTIES
  Terminates
CHECK_DEADLOCK FALSE
