SPECIFICATION FairSpec
CONSTANTS
  Addr = {0, 1, 2, 3, 4, 5, 6, 7, 8, 9, 10, 11, 12, 13}
  Areas <- TwoBanks
  WordBytes = 2
  MaxErase = 2
  MaxSync = 3
  Uploads <- Files
  MaxUploads = 2
  Old = Old
  Blank = Blank
  Garbage = Garbage
CHECK_DEADLOCK FALSE
INVARIANT NoGarbage
PROPERTIES ImplementsFlashTarget UploadEnds
