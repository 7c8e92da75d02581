CONSTANTS
  OptionSet <- AllOptions
  CommandLines <- Flags
  MaxOptions = 2
SPECIFICATION Spec
INVARIANTS TypeOK LastOptionWins FlagsReachTheChip GainReachesTarget TunedAsAsked SampledAsAskedOffEdges PassBandCoversRate
