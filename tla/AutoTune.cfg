CONSTANTS
  Top = 2
  Capacity = 2
  Settle = 3
  Target = 2
  Tolerance = 0
SPECIFICATION FairSpec
INVARIANTS SamplesAreFresh HighestQuiet
PROPERTIES TuneReturns CancelReturns
