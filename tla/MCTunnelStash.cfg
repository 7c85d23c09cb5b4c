CONSTANTS
    MaxStreamWindow = 5
    MaxYamuxWindow = 4
    InitialSendWindow = 2
    MaxFrame = 2
    MaxClients = 1
    MaxUp = 4
    MaxDown = 0
    Encrypt = TRUE
SPECIFICATION FairSpec
CHECK_DEADLOCK FALSE
PROPERTY StashFlushed
