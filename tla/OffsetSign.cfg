SPECIFICATION Spec
CONSTANTS
    Master = master
    Other = other
    None = none
    OwnId = own
    Zeros = zeros
    Skew <- MCSkew
    Priorities = {248, 255}
    MaxNow = 3
    MaxSyncs <- MCMaxSyncs
    MaxRounds = 2
    MaxQueue = 2
    MaxRequests = 3
    Ahead = 4
    NsPerSec = 5
    FracPerSec = 8
    Epoch = 3
    EraSecs = 7
    Start = 13
INVARIANT AppliedIsRemote
CHECK_DEADLOCK FALSE
