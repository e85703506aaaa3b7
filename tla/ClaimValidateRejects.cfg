CONSTANTS
  Checkpoints <- AllCheckpoints
  Bases <- NameOrder
  MaxCalls = 1
SPECIFICATION LCSpec
INVARIANTS ValidateRejects
