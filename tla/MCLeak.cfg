CONSTANTS
  ASN = {1, 2, 3}
  MaxPathLen = 16
  NextHopBase = 8
  LengthBase = 32
  NoRoute = NoRoute
  Limits = {0}
  Graphs <- MCPlainGraphs
  Seeds <- MCOneOrigin
SPECIFICATION Spec
INVARIANTS
  BestAreValleyFree
CHECK_DEADLOCK FALSE
