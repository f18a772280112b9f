SPECIFICATION Spec
CONSTANTS
    Slow <- MCSlow
    Jitter = 1
    Hour = 5
    Budget = 2
    Healthy = 2
    Cooldown = 3
    Old = 7
    MaxJump = 2
    MaxFaults = 2
    MaxEpoch = 2
INVARIANTS
    RestartIsNoRefill
    JumpsNeverStrand
PROPERTIES
    ReleasesArePaid
    OutageRecovers
CHECK_DEADLOCK FALSE
