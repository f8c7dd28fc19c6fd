\* Any edges of an instant, except a reset released at an active clock edge.
CONSTANTS
    Clock <- MCClock
    Reset <- MCReset
    Data <- MCData
    Output <- MCOutput
    Flop <- MCFlop
    Value <- MCValue
    Ones = 1
    Domain <- MCDomain
    ActiveLevel <- MCActiveLevel
    FlopDomain <- MCFlopDomain
    FlopResets <- MCFlopResets
    ResetValue <- MCResetValue
    Initializer <- MCInitializer
    NextD <- MCNextD
    OutputOf <- MCOutputOf
    ReleaseWithEdge = FALSE
SPECIFICATION Spec
INVARIANT CommitOrderUnobservable
PROPERTY SnapshotHeld
