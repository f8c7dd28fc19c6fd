CONSTANTS
  WordBits = 8
  IntBits = 4
  Sources <- MCSources
  Resolving <- ResolvedModule
  Lowering <- LowerItem
  Passing <- PassResult
  Expected <- SourceState
  Faults <- SourceFaults
  Means <- GraphMeans
SPECIFICATION PipelineSpec
CHECK_DEADLOCK FALSE
INVARIANTS
  KeepsItsEvents
  ElaborationMeansTheSource
  PassesKeepTheMeaning
  RejectedForCause
  AcceptedIsDriven
