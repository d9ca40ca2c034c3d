SPECIFICATION Spec
CONSTANTS
    c1 = c1
    c2 = c2
    Calls = {c1, c2}
    Sessions = {1}
    AccessTTL = 2
    IdleTTL = 3
    AbsoluteTTL = 4
    AssertionTTL = 2
    KeyFiles <- MCKeyFiles
    MaxTime = 4
    MaxMints = 3
    MaxFaults = 1
SYMMETRY Symmetry
INVARIANTS ReuseEndsSession AccessIsCurrent RotationKeepsTrust DeliveredPairWorks
PROPERTIES RevocationReachesAssertions AcceptedInTime
CHECK_DEADLOCK FALSE
