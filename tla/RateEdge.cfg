CONSTANTS
  OptionSet <- OnlyTuning
  CommandLines <- NoCommandLines
  MaxOptions = 2
SPECIFICATION Spec
INVARIANT SampledAsAsked
