SPECIFICATION Spec
CONSTANTS
    Confs <- NoMuxTls
    UserBytes = 1
    MaxSessions = 1
    MaxWire = 3
INVARIANT NonMuxSound
CHECK_DEADLOCK FALSE
