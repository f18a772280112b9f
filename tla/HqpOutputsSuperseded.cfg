SPECIFICATION Spec
CONSTANTS
    Routes = {r1, r2}
    NoRoute = NoRoute
    MaxOps = 2
    MaxFaults = 0
PROPERTIES
    SupersededNeverCommits
CHECK_DEADLOCK FALSE
