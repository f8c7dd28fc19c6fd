\* A two-clock design, a data input racing the edge block.
CONSTANTS
    Clock <- WideClock
    Reset <- OneReset
    Data <- TwoData
    Output <- BothOutput
    Flop <- WideFlop
    Value <- Bits
    Ones = 1
    Domain <- WideDomain
    ActiveLevel <- RstLow
    FlopDomain <- WideFlopDomain
    FlopResets <- WideFlopResets
    ResetValue <- WideResetValue
    Initializer <- WideInitializer
    NextD <- WiderNextD
    OutputOf <- BothOutputOf
    CombOutput <- CombOnly
    ConeInput <- OneData
    DrivesLogic <- WideDrives
    Tracing = FALSE
    RacyInput = {"z"}
    MaxTime = 0
SPECIFICATION Spec
INVARIANTS ResetHolds CommitsReadSettledD SettledUnlessDirty PortsStored RegisteredOutputsFresh
    CombOutputsFresh
PROPERTY RtlSpec
CHECK_DEADLOCK FALSE
