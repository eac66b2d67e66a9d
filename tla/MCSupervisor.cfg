SPECIFICATION FairSpec
CONSTANTS
    GraceTicks = 3
    FlushTicks = 3
    ProbeTicks = 4
    MaxInference = 5
    MaxInferences = 2
INVARIANTS NoListenerBeforeModel ExitNamesTheCause
PROPERTIES OneDeathEndsAll ServesOrEnds
CHECK_DEADLOCK FALSE
