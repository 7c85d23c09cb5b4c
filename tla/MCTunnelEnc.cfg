CONSTANTS
    MaxStreamWindow = 5
    MaxYamuxWindow = 2
    InitialSendWindow = 2
    MaxFrame = 2
    MaxClients = 1
    MaxUp = 3
    MaxDown = 1
    Encrypt = TRUE
SPECIFICATION FairSpec
CHECK_DEADLOCK FALSE
INVARIANT
    UpOrdered
PROPERTIES
    DownIsPipe
    ClosedClientFreed
    RemoteCloseFreed
