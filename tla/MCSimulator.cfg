CONSTANTS
  ASN = {1, 2, 3}
  ASNSpace = 4
  MaxPathLen = 16
  NextHopBase = 8
  LengthBase = 32
  NoRoute = NoRoute
  LoopCheckLen = 10
  Iterations = 1
  Lines <- MCLines
  MaxLines <- MCMaxLines
  RovFiles <- MCRovFiles
  RecordFiles <- MCRecordFiles
  MaxCalls = 5
SPECIFICATION Spec
INVARIANTS
  MainPropagatesWellFormed
  PhasesCompose
  NothingWaits
  DeployedFilters
  OriginPreferredUnlessOwnPeer
  SeedsReachOutput
  RowsAgree
CHECK_DEADLOCK FALSE
