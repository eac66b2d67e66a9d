SPECIFICATION FairSpec
CONSTANTS
    PingTicks = 2
    IdleTicks = 8
    Room = 4
    MaxWork = 5
    MaxFrames = 2
INVARIANTS KeepsWhoAnswers NoPingBurst
PROPERTIES HalfOpenIsNoticed
CHECK_DEADLOCK FALSE
