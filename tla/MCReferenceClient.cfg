SPECIFICATION FairSpec
CONSTANTS
    MaxRuns = 3
    MaxConnections = 2
    QueueMax = 1
    PoolSize = 1
    MaxErrors = 3
    BaseDelay = 3
    MaxDelay = 5
    NoReconnect = FALSE
    Exclusive = TRUE
    Flaky = TRUE
INVARIANTS NothingLeftBehind GivesUpWhenPersistent
PROPERTIES BackoffNeverShrinks StoppedThreadEnds ExecutorThreadComesBack
CHECK_DEADLOCK FALSE
