CONSTANTS
  ra = ra
  rb = rb
  rc = rc
  rd = rd
  Seqs = {ra, rb, rc}
  NumBlocks = 4
  BlockSize = 1
  PromptLen <- HoarderPrompts
  MaxNew <- HoarderMaxNew
  EosAt <- NoEos
  MaxBatchArg = 2
  MaxSeq = 6
  QueueCap = 2
SPECIFICATION FairSpec
PROPERTIES PrefillsSimplyWait
