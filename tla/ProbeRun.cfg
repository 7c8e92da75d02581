CONSTANTS
  Ports <- ThreePorts
  MaxEvents = 2
  CommandLines <- Lines
  BytesPerSecond = 5
  ChunkSize = 2
  IntLimit = 8
SPECIFICATION FairSpec
INVARIANTS CaptureIsWhole OpensTheIndexed
PROPERTY InterruptReachesClose
CHECK_DEADLOCK FALSE
