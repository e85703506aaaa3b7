CONSTANTS
  NumExperts = 3
  TopK = 2
  MaxTokens = 2
  Scores = {1, 2}
  Biases <- SomeBiases
  MaxCalls = 2
SPECIFICATION MoESpec
INVARIANTS SegmentsRight OutIsMixture
