CONSTANTS
  Walkers = {1, 2}
  None = None
  Top = 1
  Stride = 1
  Limits <- AllLimits
  Ahead = 1
  Settle = 1
SPECIFICATION FairSpec
INVARIANTS OneSetter FooterMatches JudgesFreshFrames
PROPERTIES CompletedBest WalkEnds
CHECK_DEADLOCK FALSE
