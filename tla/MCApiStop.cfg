CONSTANTS
    RetryDelay = 2
    MaxRetryDelay = 3
    RetryCap = 2
    DefaultInterval = 2
    DefaultTimeout = 3
    BuildTls = TRUE
    BuildPem = FALSE
    MaxFaults = 0
    MaxStarts = 1
    MaxStops = 1
    Names = {"a", "b"}
    Sources <- PlainOnly
SPECIFICATION FairSpec
CHECK_DEADLOCK FALSE
PROPERTY
    StopEndsTask
