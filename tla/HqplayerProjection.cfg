SPECIFICATION FairSpec
CONSTANTS
    Instances = {main}
    main = main
    Lifecycle = lifecycle
    Nil = nil
    Publishers <- MCPublishers
    IngressCapacity = 2
    MaxReadings = 2
    MaxEpoch = 2
    MaxCommands = 1
    MaxFailures = 1
    MaxOps = 1
INVARIANTS
    AdvancedOfItsSession
    NothingBehindRetirement
    EchoesConverge
PROPERTIES
    PairsCommittedTogether
    OperationsReturn
CHECK_DEADLOCK FALSE
