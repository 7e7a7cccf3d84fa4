SPECIFICATION FairSpec
CONSTANTS
  Depth = 2
  BufCap = 3
  Batch = 2
  ResumePct = 40
  Prefill = 1
  FileLen = 0
  ChanCap = 1
  LiveFrames = 3
  MaxCtl = 0
  MaxSeek = 0
  Sources = {"live"}
  Faults = FALSE
PROPERTIES
  StopReturns
CHECK_DEADLOCK FALSE
