SPECIFICATION Spec
CONSTANTS
    roonZone = roonZone
    hqpZone = hqpZone
    play = play
    load = load
    Nil = Nil
    Disconnecting = {}
    Calls = {c1, c2}
    Zones = {roonZone}
    Providers <- MCProviders
    SourceOf <- MCSourceOf
    ExactProviders <- MCExactProviders
    CallbackProviders <- MCCallbackProviders
    Correlations = {}
    Commands = {play}
    Reconfigurations <- MCReconfigurations
    Capacity = 1
    MaxGen = 2
    MaxRev = 2
INVARIANTS
    NotDispatchedMeansUntouched
    ConfirmedByItsOwnCommit
    OneWriterPerKey
PROPERTIES
    ImplementsLedger
    SubmittersAreAnswered
CHECK_DEADLOCK FALSE
