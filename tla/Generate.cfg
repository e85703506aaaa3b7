CONSTANTS
  Seqs = {s1, s2, s3}
  NumBlocks = 4
  BlockSize = 2
  MaxSeq = 5
  MaxTokens = 2
SPECIFICATION GSpec
INVARIANTS KVTypeOK BlocksPartitioned WrittenIsCovered WholeTextOrNoRoom
PROPERTIES WrittenStaysPut ImplementsPool PoolComesBack
