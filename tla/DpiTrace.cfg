\* The waveform of a design with registered outputs, under the simulator's fairness.
CONSTANTS
    Clock <- SmallClock
    Reset <- OneReset
    Data <- OneData
    Output <- RegOutput
    Flop <- SmallFlop
    Value <- Bits
    Ones = 1
    Domain <- SmallDomain
    ActiveLevel <- RstLow
    FlopDomain <- SmallFlopDomain
    FlopResets <- SmallFlopResets
    ResetValue <- SmallResetValue
    Initializer <- SmallInitializer
    NextD <- SmallNextD
    OutputOf <- SmallOutputOf
    CombOutput = {}
    ConeInput = {}
    DrivesLogic = {}
    Tracing = TRUE
    RacyInput <- OneData
    MaxTime = 2
SPECIFICATION FairSpec
INVARIANTS WaveformTrue NoFatal
PROPERTY PortsReachInstance
CHECK_DEADLOCK FALSE
