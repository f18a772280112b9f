SPECIFICATION Spec
CONSTANTS
    Instances = {main}
    main = main
    Lifecycle = lifecycle
    Nil = nil
    Publishers <- MCPublishers
    IngressCapacity = 1
    MaxReadings = 2
    MaxEpoch = 2
    MaxCommands = 1
    MaxFailures = 1
    MaxOps = 2
INVARIANT
    RetiredIsGone
CHECK_DEADLOCK FALSE
