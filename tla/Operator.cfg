SPECIFICATION OperatorSpec
CONSTANTS
    MaxFiles = 2
    MaxSize = 1
    FlushMax = 2
    MaxLines = 5
    MaxDay = 5
    Addresses = {a1, a2}
    RequestsPerWindow = 2
    WindowMs = 3
    MaxClock = 5
    MaxRequests = 4
    Visits = {v1, v2, v3}
    MaxVersion = 3
    PingClients = {1, 2, 3}
    HostOf <- MCHostOf
CHECK_DEADLOCK FALSE
INVARIANTS
    TypeOK
    LogInOrder
    OnlyOldLost
    LimiterExact
    ServedIsCurrent
PROPERTIES
    SizeRotationKeeps
    EveryMinerPinged
