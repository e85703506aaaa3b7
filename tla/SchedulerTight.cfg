CONSTANTS
  ra = ra
  rb = rb
  rc = rc
  rd = rd
  Seqs = {ra, rb, rc, rd}
  NumBlocks = 4
  BlockSize = 2
  PromptLen <- TightPrompts
  MaxNew <- TightMaxNew
  EosAt <- TightEos
  MaxBatchArg = 3
  MaxSeq = 4
  QueueCap = 2
SPECIFICATION Spec
INVARIANTS IndInv InExactlyOneList NeverBlocks KVIsolated HoldersAreLive BatchWithinLimits DecodesNeverSkipped MetricsAddUp
PROPERTIES ServesAlone UsesAllocator
