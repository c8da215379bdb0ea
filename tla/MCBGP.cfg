CONSTANTS
  ASN = {1, 2, 3}
  MaxPathLen = 2
  NextHopBase = 4
  LengthBase = 3
  NoRoute = NoRoute
  Prefix = {p1}
  Wire <- MCWire
  Filtering = TRUE
  InlinePrepends <- MCInline
SPECIFICATION Spec
INVARIANTS
  TypeOK
  OneRoutePerNeighbour
  BestIsSelected
  InvalidKeptOut
PROPERTIES
  WorsensOnlyWhenWithdrawn
  IsSpeaker
