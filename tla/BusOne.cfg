CONSTANTS
  c1 = c1
  c2 = c2
  Callers <- OneCaller
  Regs <- UsedRegs
  Bits <- R860Bits
  Programs <- OneCallerOps
  Image <- SeedImage
  Faults <- AllFaults
SPECIFICATION Spec
INVARIANTS AckTookEffect AckHealsDrift AckLeavesBridgeClosed
