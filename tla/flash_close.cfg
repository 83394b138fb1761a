SPECIFICATION Spec
CONSTANTS
  TmpSize = 4
  NSectors = 3
  DataSize = 8
  HeaderSize = 4
  MaxFiles = 2
  MaxFds = 2
  dat = dat
  bin = bin
  Names <- FileNames
  MaxSizes = {4, 14}
  Sizes = {2, 7}
  Aligns = {0, 3}
  MaxCreated = 2
  MaxFaults = 1
INVARIANT ClosedFileReadable
CHECK_DEADLOCK FALSE
