CONSTANTS
    r1 = r1
    r2 = r2
    Requests <- One
    Body <- OneBody
    Reply <- OneReply
    MaxRequestBytes = 2
    MaxResponseBytes = 4
    MaxDataBytes = 1
    MaxCreditBytes = 2
    InitialResponseCredit = 2
    ReceiveWindow = 1
    MaxInFlight = 1
    QueueDepth = 1
    MayDrain <- Both
    MayBreak = TRUE
SPECIFICATION LiveSpec
INVARIANTS
    TypeOK
    WholeExchange
    CreditConserved
    CreditNeverStarves
    ReceiveBounded
PROPERTIES
    CallsReturn
    RequestsReleased
CHECK_DEADLOCK FALSE
