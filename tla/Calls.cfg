SPECIFICATION CallsFairSpec
CONSTANTS
  MaxCalls = 6
  Faults = TRUE
  Cancels = TRUE
  MaxRequests = 4
  MaxParts = 3
  GivesUp = TRUE
INVARIANTS
  OneStreamPerKey
  PlaybackAgrees
  AnswersInOrder
PROPERTIES
  TeardownIsLast
  EachIsAnswered
CHECK_DEADLOCK FALSE
