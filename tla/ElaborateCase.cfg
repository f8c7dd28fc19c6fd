CONSTANTS
  WordBits = 8
  IntBits = 4
  Resolving <- ResolvedModule
  Lowering <- LowerItem
  Passing <- PassResult
  Expected <- SourceState
  Faults <- SourceFaults
  Means <- GraphMeans
  Sources <- SelectorAssigned
SPECIFICATION PipelineSpec
CHECK_DEADLOCK FALSE
INVARIANTS
  ElaborationMeansTheSource
