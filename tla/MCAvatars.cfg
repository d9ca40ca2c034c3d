SPECIFICATION Spec
CONSTANTS
    None = None
    FileKeys = {f1}
    Calls = {c1, c2, r1}
    Workers = {w1, w2}
    Parts = {1}
    MaxPages = 1
    Uploads <- MCUploads
    Digests = {d1, d2}
    Delivery <- MCDelivery
    Quota = 1
    MaxFaults = 1
    Users = {u1}
    Retirers = {r1}
SYMMETRY Symmetry
INVARIANTS
    ReadyIsServed
    ScanningIsWhole
    NeverRetiresCurrent
PROPERTIES
    RejectsOnlyUnacceptable
CHECK_DEADLOCK FALSE
