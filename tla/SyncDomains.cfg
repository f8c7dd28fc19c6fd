\* Graphs of six nodes, loops included.
CONSTANT Graphs <- MCGraphs
SPECIFICATION Spec
INVARIANTS SweepReachesConeTypes RecursionAgreesWithSweep AcceptedIsSafe
    RejectedForCause InferredAreCrossings
PROPERTY SweepsEnd
