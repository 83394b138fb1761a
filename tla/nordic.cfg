SPECIFICATION NordicFairSpec
CONSTANTS
  RawSize = 8
  DecodedSize = 8
  WriteChunkSize = 2
  MaxChunks = 8
  IgnoreAlignment = FALSE
  NestedIdle = TRUE
  SectorSize = 0
  TargetMayFail = TRUE
  SlowPeers = FALSE
  Client = "http"
  BlockSizes = {3, 4, 5}
  FileSize = 32
  MaxAddr = 0
  NoData = NoData
  NoChunk = NoChunk
  NoFile = NoFile
  Packages <- AllPackages
  DataFlag = 32
  ThrowAway = 16
  ImageSpan = 64
  MaxSize <- Sizes
  Leftovers = {0, 2}
INVARIANTS DoneMeansExecuted ExecutedInOrder HandedOverIntact
PROPERTIES HandedOverInState CompletesUnlessFailed
