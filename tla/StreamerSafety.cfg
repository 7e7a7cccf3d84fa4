SPECIFICATION Spec
CONSTANTS
  Depth = 2
  BufCap = 3
  Batch = 2
  ResumePct = 40
  Prefill = 2
  FileLen = 4
  ChanCap = 2
  LiveFrames = 3
  MaxCtl = 2
  MaxSeek = 1
  Sources = {"file", "live"}
  Faults = TRUE
INVARIANTS
  TypeOK
  WireInOrder
  NothingVanishes
  PauseIsKept
PROPERTIES
  SilentAfterStop
CHECK_DEADLOCK FALSE
