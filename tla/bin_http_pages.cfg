SPECIFICATION Spec
CONSTANTS
  RawSize = 8
  DecodedSize = 8
  WriteChunkSize = 2
  MaxChunks = 8
  IgnoreAlignment = FALSE
  NestedIdle = TRUE
  SectorSize = 0
  TargetMayFail = TRUE
  SlowPeers = TRUE
  Client = "http_end"
  BlockSizes = {1, 3}
  FileSize = 11
  MaxAddr = 11
  NoData = NoData
  NoChunk = NoChunk
INVARIANTS ChunksTileRing InFlightNotExtended NoByteLost NeverStuckEarly NoWrapInChunk ReallyWrittenMeansSent
