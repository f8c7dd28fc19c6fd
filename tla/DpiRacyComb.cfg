\* A combinational output under data inputs that race the edge block.
CONSTANTS
    Clock <- WideClock
    Reset <- OneReset
    Data <- OneData
    Output <- BothOutput
    Flop <- WideFlop
    Value <- Bits
    Ones = 1
    Domain <- WideDomain
    ActiveLevel <- RstLow
    FlopDomain <- WideFlopDomain
    FlopResets <- WideFlopResets
    ResetValue <- WideResetValue
    Initializer <- WideInitializer
    NextD <- WideNextD
    OutputOf <- BothOutputOf
    CombOutput <- CombOnly
    ConeInput <- OneData
    DrivesLogic <- WideDrives
    Tracing = FALSE
    RacyInput <- OneData
    MaxTime = 0
SPECIFICATION Spec
INVARIANT CombOutputsFresh
CHECK_DEADLOCK FALSE
