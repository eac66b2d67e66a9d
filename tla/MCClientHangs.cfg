SPECIFICATION FairSpec
CONSTANTS
    MaxRuns = 2
    MaxConnections = 2
    QueueMax = 2
    PoolSize = 2
    MaxErrors = 2
    BaseDelay = 3
    MaxDelay = 5
    NoReconnect = FALSE
    Exclusive = FALSE
    Flaky = TRUE
PROPERTIES ClientExits
CHECK_DEADLOCK FALSE
