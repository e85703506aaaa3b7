CONSTANTS
  Checkpoints <- DiskCheckpoints
  Bases <- NameOrder
  MaxInt = 2047
  MaxCalls = 2
SPECIFICATION LoaderSpec
INVARIANTS ServesItsOwn ForwardFindsWeights SlidingAsConfigured NothingLeftOpen VerdictOfFiles
PROPERTIES LCSpec
