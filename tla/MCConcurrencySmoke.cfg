SPECIFICATION Spec
CONSTANTS
    NumClients = 3
    FramesPerClient = 2
    SendInterval = 2
    StartOffset = 1
    FrameTimeout = 7
    FairnessRatio = 3
    MinService = 1
    MaxService = 2
    MaxFaults = 2
INVARIANTS EveryFaultIsReported NoFalseAlarm
CHECK_DEADLOCK FALSE
