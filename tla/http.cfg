SPECIFICATION FairSpec
CONSTANTS
  HeadLen = 2
  MaxConnections = 2
  BufSize = 7
  PageLen = 2
  Room = 3
  Requests <- Browsers
INVARIANTS BodiesAppended OkMeansAppended OwnerIsServed
PROPERTY RequestEnds
