CONSTANTS
  Workers = {w1, w2}
  NumRequests = 2
  Requests <- TwoRequests
  SoloLen <- SoloLens
SPECIFICATION LGFairSpec
INVARIANTS BodyFollowsStream CountedIsServed LevelAddsUp
PROPERTIES HandlersReturn LevelReturns
