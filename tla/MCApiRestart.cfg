CONSTANTS
    RetryDelay = 2
    MaxRetryDelay = 3
    RetryCap = 2
    DefaultInterval = 2
    DefaultTimeout = 3
    BuildTls = TRUE
    BuildPem = FALSE
    MaxFaults = 1
    MaxStarts = 2
    MaxStops = 1
    Names = {"a", "b"}
    Sources <- PlainOnly
SPECIFICATION Spec
CHECK_DEADLOCK FALSE
PROPERTY
    CleanEnd
