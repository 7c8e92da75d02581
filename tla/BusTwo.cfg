CONSTANTS
  c1 = c1
  c2 = c2
  Callers <- TwoCallers
  Regs <- UsedRegs
  Bits <- R860Bits
  Programs <- RuntimeOps
  Image <- SeedImage
  Faults <- NoFaults
SPECIFICATION Spec
SYMMETRY CallerSymmetry
INVARIANT BridgeShutWhenIdle
