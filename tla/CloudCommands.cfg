SPECIFICATION Spec
CONSTANTS
    Keys = {k1, k2}
    Payloads = {p1, p2}
    Lifetime = 2
    Skew = 3
    Behind = 0
    Ahead = 3
    Retention = 3
    MaxSeen = 1
    MaxLedger = 1
    MaxTime = 4
    MaxRequests = 2
    MaxEpoch = 2
    MaxRuns = 2
SYMMETRY Symmetry
INVARIANTS
    TypeOK
    GrantOncePerRetention
    KeyOncePerRetention
PROPERTY
    ResultsAreTrue
CHECK_DEADLOCK FALSE
