SPECIFICATION FairSpec
CONSTANTS
  Page = {0, 1, 2}
  Uploads <- Files
  MaxUploads = 2
  MaxSync = 3
  MaxLoads = 3
  Old = Old
  Blank = Blank
CHECK_DEADLOCK FALSE
INVARIANT PagesInPlace
PROPERTIES ImplementsFlashTarget UploadEnds
