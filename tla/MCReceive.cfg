SPECIFICATION Spec
CONSTANTS
    Confs <- MCConfs
    UserBytes = 2
    MaxSessions = 2
    MaxWire = 3
INVARIANTS
    TypeOK
    InStep
    CurLive
    ControlHandled
    SentDecodes
    LocalPrefix
    LocalComplete
    ServedInHours
CHECK_DEADLOCK FALSE
