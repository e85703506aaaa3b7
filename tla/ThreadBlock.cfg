CONSTANTS
  BlockDim = 4
  Strides <- HalvingFour
  ScoreCap = 6
  Launches <- SomeLaunches
SPECIFICATION BlockSpec
INVARIANTS NoRace AttentionRight W4Right NormRight
