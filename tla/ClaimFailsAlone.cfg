CONSTANTS
  ra = ra
  rb = rb
  rc = rc
  rd = rd
  Seqs = {ra, rb, rc, rd}
  NumBlocks = 8
  BlockSize = 1
  PromptLen <- TightPrompts
  MaxNew <- TightMaxNew
  EosAt <- TightEos
  MaxBatchArg = 3
  MaxSeq = 4
  QueueCap = 2
SPECIFICATION Spec
INVARIANTS FailsAlone
