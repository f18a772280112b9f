SPECIFICATION Spec
CONSTANTS
    Routes = {r1}
    NoRoute = NoRoute
    MaxOps = 2
    MaxFaults = 1
INVARIANTS
    TypeOK
    StopReachesEverySelect
    EvidenceIsFresh
    GateClosedByItsOwner
    StopMeansStopped
PROPERTIES
    EveryOperationEnds
CHECK_DEADLOCK FALSE
