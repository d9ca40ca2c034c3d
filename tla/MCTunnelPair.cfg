CONSTANTS
    r1 = r1
    r2 = r2
    Requests <- Two
    Body <- TwoBody
    Reply <- TwoReply
    MaxRequestBytes = 2
    MaxResponseBytes = 2
    MaxDataBytes = 1
    MaxCreditBytes = 1
    InitialResponseCredit = 1
    ReceiveWindow = 1
    MaxInFlight = 1
    QueueDepth = 3
    MayDrain <- Out
    MayBreak = FALSE
SPECIFICATION Spec
INVARIANTS
    FaultsExplained
CHECK_DEADLOCK FALSE
