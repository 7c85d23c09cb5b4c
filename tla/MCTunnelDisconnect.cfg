CONSTANTS
    MaxStreamWindow = 5
    MaxYamuxWindow = 4
    InitialSendWindow = 2
    MaxFrame = 2
    MaxClients = 1
    MaxUp = 5
    MaxDown = 0
    Encrypt = TRUE
SPECIFICATION Spec
CHECK_DEADLOCK FALSE
INVARIANT CleanDisconnect
