CONSTANTS
    WordBits = 4
    Budget = 3
    Graphs <- AllGraphs
    Literal <- FromI64Words
    ResizedTo <- ResizedWords
    Apply <- ApplyWords
SPECIFICATION CodegenSpec
INVARIANTS
    EvaluatorTypeOK
    FailsForCause
    EvaluatesTheGraph
    ConesAreExact
    ConesJustifyTheWrapper
\* generation may fail, and then nothing is run
CHECK_DEADLOCK FALSE
