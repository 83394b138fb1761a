SPECIFICATION FairSpec
CONSTANTS
  RawSize = 4
  DecodedSize = 8
  WriteChunkSize = 4
  MaxChunks = 4
  IgnoreAlignment = TRUE
  NestedIdle = FALSE
  SectorSize = 4
  TargetMayFail = TRUE
  SlowPeers = TRUE
  Client = "http_end"
  BlockSizes = {1, 3}
  FileSize = 11
  MaxAddr = 11
  NoData = NoData
  NoChunk = NoChunk
PROPERTY UploadEnds
