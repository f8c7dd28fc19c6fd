\* Every entry point, with failing lists and evaluations that throw.
CONSTANTS
    Clock <- MCClock
    Reset <- MCReset
    Data <- MCData
    Output <- MCOutput
    Flop <- MCFlop
    Value <- MCValue
    Ones = 1
    Domain <- MCDomain
    ActiveLevel <- MCActiveLevel
    FlopDomain <- MCFlopDomain
    FlopResets <- MCFlopResets
    ResetValue <- MCResetValue
    Initializer <- MCInitializer
    NextD <- MCNextD
    OutputOf <- MCOutputOf
    Writable <- MCWritable
    EvalThrows <- ThrowsOnce
SPECIFICATION Spec
INVARIANTS SettledInstance ResetHolds
PROPERTY ApplyClockSamplesItsInputs
