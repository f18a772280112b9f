SPECIFICATION Spec
CONSTANTS
    Routes = {r1, r2}
    Endpoints = {e1, e2}
    NoRoute = NoRoute
    Absent = Absent
    MaxWorkers = 2
    MaxSessions = 3
    MaxCalls = 3
    MaxFaults = 1
INVARIANTS
    NoSessionBehindADeadLoop
    WorkersCounted
PROPERTIES
    ImplementsOneOutput
    ImplementsContract
    UnsavedStopStaysShown
    ListenerCallsReturn
CHECK_DEADLOCK FALSE
