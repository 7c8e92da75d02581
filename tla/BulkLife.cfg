CONSTANTS
  r1 = r1
  r2 = r2
  c1 = c1
  c2 = c2
  NumURBs = 2
  Readers <- OneReader
  Closers <- TwoClosers
  MaxChunks = 2
  Faults <- AllFaults
SPECIFICATION FairSpec
INVARIANTS TypeOK PendingAccounting CleanRelease FailedStartIsClean
PROPERTIES CloseTerminates ReadsReturnAfterClose ReadsReturnAfterEnd
