CONSTANTS
  Outputs <- ChainOutputs
  HeaderLen = 19
  BaseSize = 21
  SizePerRow = 60
  Slack = 200
  Growth = 10000000
  IOBufferLen = 256
  DiskRooms = {0, 300, 900, 4000}
SPECIFICATION DumpSpec
INVARIANTS
  WithinBuffer
CHECK_DEADLOCK FALSE
