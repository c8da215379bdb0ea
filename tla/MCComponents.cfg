CONSTANTS
  ASN = {1, 2}
  MaxPathLen = 2
  NextHopBase = 3
  LengthBase = 3
  NoRoute = NoRoute
  Queues <- MCQueues
  Prefix = {p1, p2, p3, p4, p5}
  IdSpace = 5
  Keys = {0, 7, 8, 15}
  Values = {1, 2}
  Default = 0
  EMPTY_KEY = 16
  INITIAL_CAPACITY = 4
  Multiplier = 9
  DistanceSpace = 256
  Vectors = {a, b}
  Elements = {1}
  Lists <- MCLists
  Sizes = {1, 2}
  N = 1
  PointerCells = 1
  MaxCapacity = 4
  NotBuilt = NotBuilt
  NoBlock = NoBlock
  Unset = Unset
  Zero = Zero
  Outputs <- MCOutputs
  HeaderLen = 19
  BaseSize = 21
  SizePerRow = 60
  Slack = 200
  Growth = 10000000
  IOBufferLen = 256
  DiskRooms = {0, 300, 900, 4000}
SPECIFICATION ComponentsSpec
SYMMETRY MCSymmetry
INVARIANTS
  ReturnsSelection
  ReturnsLowestScore
  RoundTrips
  ElementsAsExpected
  BlocksOwnedOnce
  WithinBuffer
PROPERTIES
  IdsKeepMeaning
  ImplementsDictionary
CHECK_DEADLOCK FALSE
