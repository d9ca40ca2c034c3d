SPECIFICATION FairSpec
CONSTANTS
    Subjects = {1}
    Identifier <- MCIdentifier
    Workers = {w1, w2}
    Consumers = {c1}
    Operators = {o1, o2}
    PageLimit = 1
    Modes = {"replay"}
    MaxFaults = 1
    MaxCopies = 2
    MaxMarks = 2
    MaxVersion = 2
    MaxDiscards = 1
INVARIANTS
    NothingLost
    OneFactPerAccount
PROPERTIES
    ProfileNeverReset
    ProvisionsEveryAccount
CHECK_DEADLOCK FALSE
