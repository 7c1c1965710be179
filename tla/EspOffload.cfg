SPECIFICATION FairSpec
CONSTANTS
  ChunkSize = 16
  UMod = 128
  MaxChunks = 3
  MallocMayFail = FALSE
  Shapes <- BatchOne
INVARIANTS TypeOK SafeDMA IInv
PROPERTIES QuietWhileRunning ImplementsOffload OffloadReturns
CHECK_DEADLOCK FALSE
