SPECIFICATION SenderSpec
CONSTANTS
    MaxConns = 3
    MaxCalls = 4
    MaxOffset = 2
    Sizes = {1, 2, 3}
    Protocols = {"ntp", "slave", "master"}
    Faults = TRUE
    MaxSteps = 5
    Trouble = TRUE
INVARIANTS TasksAreAccounted GroupFollowsPrimary RaopIsServed
CHECK_DEADLOCK FALSE
