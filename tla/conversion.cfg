SPECIFICATION Spec
CONSTANTS
  NumChannels = 4
  WordMod = 16
  PackMod = 4
  StartupPackets = 3
  ChunkSize = 10
  MaxFaults = 2
  Jobs <- MCJobs
  Recordings <- MCRecordings
INVARIANTS
  TypeOK
  ImageIsTheStream
  DataGoodSound
  Recoverable
  ToolKeepsData
  SmartRows
  InterleavedPixels
  InBounds
CHECK_DEADLOCK FALSE
