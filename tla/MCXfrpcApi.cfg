CONSTANTS
    RetryDelay = 2
    MaxRetryDelay = 3
    RetryCap = 2
    DefaultInterval = 2
    DefaultTimeout = 3
    BuildTls = TRUE
    BuildPem = FALSE
    MaxFaults = 3
    MaxStarts = 2
    MaxStops = 1
    Names = {"a", "b"}
    Sources <- MCSources
SPECIFICATION FairSpec
CHECK_DEADLOCK FALSE
INVARIANTS
    TypeOK
    LossRetried
    SessionClean
    PongBounded
    ConfigComplete
    ProxiesRegistered
    TlsFresh
    LoginReported
PROPERTIES
    Recovers
    StopHonoured
