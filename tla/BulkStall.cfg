CONSTANTS
  r1 = r1
  r2 = r2
  c1 = c1
  c2 = c2
  NumURBs = 2
  Readers <- OneReader
  Closers <- OneCloser
  MaxChunks = 2
  Faults <- NoFaults
SPECIFICATION StalledChipSpec
PROPERTY CloseTerminates
