CONSTANTS
  Configs <- AllConfigs
  Calibrations <- AllCalibrations
  Script <- AllScripts
  ChipRegs <- BasebandRegs
  TunerRegs <- R860Regs
  Bits <- WordBits
  ChipPowerOn <- PoweredChip
  TunerPowerOn <- PoweredTuner
  SoftReset = "SoftReset"
  MaxOpens = 2
SPECIFICATION Spec
INVARIANTS NothingHeld TunerHeardAll SyncedLast OneIF Streaming AsAsked
