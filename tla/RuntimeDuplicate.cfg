SPECIFICATION Spec
CONSTANTS
    roonZone = roonZone
    hqpZone = hqpZone
    play = play
    load = load
    Nil = Nil
    Disconnecting = {}
    Calls = {c1, c2}
    Zones = {hqpZone}
    Providers <- MCProviders
    SourceOf <- MCSourceOf
    ExactProviders <- MCExactProviders
    CallbackProviders <- MCCallbackProviders
    Correlations = {corr}
    Commands = {play}
    Reconfigurations <- MCReconfigurations
    Capacity = 1
    MaxGen = 1
    MaxRev = 1
INVARIANTS
    CorrelationExecutesOnce
CHECK_DEADLOCK FALSE
