SPECIFICATION Spec
CONSTANTS
    Confs <- MCConfs
    Clients = {1, 2}
    Proxies = {1}
    Blocks = {1, 2, 3, 4}
    Fds = {1, 2, 3}
    MaxFailed = 2
    Interval = 1
    Timeout = 1
    MaxSessions = 2
INVARIANTS TypeOK WalkSound NoFalseConnect PointersLive SocketsOwned HcDriven HcOnTime
CHECK_DEADLOCK FALSE
