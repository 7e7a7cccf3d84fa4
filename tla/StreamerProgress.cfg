SPECIFICATION FairSpec
CONSTANTS
  Depth = 2
  BufCap = 3
  Batch = 2
  ResumePct = 40
  Prefill = 1
  FileLen = 4
  ChanCap = 1
  LiveFrames = 0
  MaxCtl = 2
  MaxSeek = 0
  Sources = {"file"}
  Faults = TRUE
PROPERTIES
  AllComesToAnEnd
  ImplementsPipe
CHECK_DEADLOCK FALSE
