CONSTANTS
    MaxStreamWindow = 5
    MaxYamuxWindow = 4
    InitialSendWindow = 2
    MaxFrame = 2
    MaxClients = 1
    MaxUp = 5
    MaxDown = 2
    Encrypt = FALSE
SPECIFICATION Spec
CHECK_DEADLOCK FALSE
INVARIANTS
    TypeOK
    FlowControl
    NoWindowAbort
    NoDataAfterFin
    CreditConserved
    RecvWindowHolds
    TunnelBytesNotParsed
PROPERTIES
    UpIsPipe
    DownIsPipe
