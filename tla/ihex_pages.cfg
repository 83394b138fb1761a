SPECIFICATION IhexFairSpec
CONSTANTS
  RawSize = 8
  DecodedSize = 16
  WriteChunkSize = 4
  MaxChunks = 8
  IgnoreAlignment = FALSE
  NestedIdle = TRUE
  SectorSize = 0
  TargetMayFail = TRUE
  SlowPeers = TRUE
  Client = "http_end"
  BlockSizes = {1, 2, 3, 5}
  FileSize = 16
  MaxAddr = 15
  NoData = NoData
  NoChunk = NoChunk
  Files <- RunFiles
INVARIANTS FlashIsFile ReallyWrittenMeansAll
PROPERTY UploadEnds
