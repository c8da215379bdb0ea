CONSTANTS
  Outputs <- MCOutputs
  HeaderLen = 19
  BaseSize = 21
  SizePerRow = 60
  Slack = 200
  Growth = 10000000
  IOBufferLen = 1048576
  DiskRooms = {0, 300, 900, 4000}
SPECIFICATION DumpSpec
INVARIANTS
  TrueIfWritten
CHECK_DEADLOCK FALSE
