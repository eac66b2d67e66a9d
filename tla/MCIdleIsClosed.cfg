SPECIFICATION Spec
CONSTANTS
    PingTicks = 1
    IdleTicks = 4
    Room = 9
    MaxWork = 2
    MaxFrames = 1
INVARIANTS IdleIsClosed
CHECK_DEADLOCK FALSE
