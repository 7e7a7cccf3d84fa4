SPECIFICATION FairSpec
CONSTANTS
  Device = {d1, d2}
  NoDevice = NoDevice
  Faults = TRUE
  MaxKeys = 4
INVARIANTS UiAgrees StreamsMatchMembers
PROPERTY QuitIsHandled
CHECK_DEADLOCK FALSE
