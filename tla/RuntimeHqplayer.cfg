SPECIFICATION Spec
CONSTANTS
    roonZone = roonZone
    hqpZone = hqpZone
    play = play
    load = load
    Nil = Nil
    Disconnecting = {c1}
    Calls = {c1, c2}
    Zones = {hqpZone}
    Providers <- MCProviders
    SourceOf <- MCSourceOf
    ExactProviders <- MCExactProviders
    CallbackProviders <- MCCallbackProviders
    Correlations = {corr}
    Commands = {play, load}
    Reconfigurations <- MCReconfigurations
    Capacity = 1
    MaxGen = 1
    MaxRev = 1
INVARIANTS
    AlwaysAWayOut
    SubmitterSeesStatus
PROPERTIES
    ReadBackFinalityHolds
CHECK_DEADLOCK FALSE
