SPECIFICATION Spec
CONSTANTS
  ChunkSize = 8
  UMod = 32
  MaxChunks = 2
  MallocMayFail = TRUE
  Sizes <- MCSizes
  Counts = {1, 3}
  Offsets <- MCOffsets
  Configs <- MCConfigs
INVARIANT StateConsistent
PROPERTY BufferPinned
CHECK_DEADLOCK FALSE
