SPECIFICATION FairSpec
CONSTANTS
  Addr <- Cells
  PageSize = 8
  ChunkSize = 4
  Uploads <- Files
  MaxUploads = 2
  MaxSync = 3
  Old = Old
  Blank = Blank
  Garbage = Garbage
CHECK_DEADLOCK FALSE
PROPERTIES ImplementsFlashTarget UploadEnds
