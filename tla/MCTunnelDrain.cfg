CONSTANTS
    r1 = r1
    r2 = r2
    Requests <- One
    Body <- OneBody
    Reply <- OneReply
    MaxRequestBytes = 2
    MaxResponseBytes = 3
    MaxDataBytes = 1
    MaxCreditBytes = 1
    InitialResponseCredit = 1
    ReceiveWindow = 1
    MaxInFlight = 1
    QueueDepth = 20
    MayDrain <- Out
    MayBreak = FALSE
SPECIFICATION Spec
INVARIANT DrainDeliversAnswers
CHECK_DEADLOCK FALSE
