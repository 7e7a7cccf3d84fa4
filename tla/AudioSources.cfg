SPECIFICATION FairSpec
CONSTANTS
  MaxSamples = 7
  MaxSilence = 1
  FrameSize = 4
  ChunkSize = 3
  PacketSize = 2
  QueueSize = 1
  ChannelSize = 2
  WarmUp = 1
  MaxCaptures = 3
  MaxLinks = 2
  MaxPhones = 2
  MaxKeys = 1
  MaxTasks = 2
INVARIANTS
  CapturesAreHeld
PROPERTIES
  AcceptedIsHeard
  StopsComeThrough
  ScanEnds
CHECK_DEADLOCK FALSE
