CONSTANTS
    RetryDelay = 2
    MaxRetryDelay = 3
    RetryCap = 2
    DefaultInterval = 2
    DefaultTimeout = 3
    BuildTls = TRUE
    BuildPem = FALSE
    MaxFaults = 1
    MaxStarts = 1
    MaxStops = 0
    Names = {"a", "b"}
    Sources <- TlsOnly
SPECIFICATION FairSpec
CHECK_DEADLOCK FALSE
PROPERTY
    TlsRetried
