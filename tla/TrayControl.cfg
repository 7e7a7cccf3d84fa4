SPECIFICATION FairSpec
CONSTANTS
  d1 = d1
  d2 = d2
  Device <- MCDevice
  Records <- MCRecords
  HomePods <- MCHomePods
  Modes <- MCModes
  Outputs = {"o1"}
  Files <- MCFiles
  Volumes = {1, 2}
  MaxInputs = 3
  MaxScans = 2
  MaxHeard = 2
  Faults = TRUE
INVARIANTS EntriesAreJoins MarksAreTrue SessionsAreCurrent
PROPERTY SessionsAreFed
CHECK_DEADLOCK FALSE
