SPECIFICATION Spec
CONSTANTS
  HistSize = 3
  SeqRange = 6
  MaxPackets = 14
  MaxAsked = 3
  Faults = TRUE
  Members = 2
  MaxPlays = 2
  MaxNumber = 4
  RingSize = 1
  Sequences = 2
  SyncEvery = 2
  Waiting = 1
  MaxRequests = 2
  MaxCount = 1
  Duration = 7
  ContainerSize = 4
  ResamplerChunk = 3
  StreamSize = 2
  BufferSize = 2
  Bands = 2
  MaxSeeks = 1
  MaxTurns = 2
  MaxEntries = 2
  MaxDepth = 1
  MaxTodo = 2
  Phones = {p, q}
  MaxCalls = 2
  MaxChanges = 2
  MaxStarts = 2
  MaxFrames = 4
  ChannelFrames = 2
  BurstSize = 1
  BurstTime = 2
  MaxTime = 7
  MaxBursts = 5
  MaxResumes = 1
INVARIANTS
  RecentAreKept
  ResentIsMeant
  GroupIsServed
  FileIsPlayed
  HighlightIsListed
  BluetoothIsMeant
  PacketsArePaced
CHECK_DEADLOCK FALSE
