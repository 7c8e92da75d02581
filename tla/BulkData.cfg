CONSTANTS
  r1 = r1
  r2 = r2
  c1 = c1
  c2 = c2
  NumURBs = 3
  Readers <- TwoReaders
  Closers <- OneCloser
  MaxChunks = 5
  Faults <- NoFaults
SPECIFICATION Spec
SYMMETRY ReaderSymmetry
INVARIANTS ChunkConservation DropOldestInOrder OrderlyCloseIsNoError
PROPERTY ChannelIsLossyFifo
