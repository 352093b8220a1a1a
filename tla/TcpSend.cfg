SPECIFICATION Spec
CONSTANTS
  M = 16
  MAX_UNACK = 2
  READ_BUFFER_SIZE = 3
  MaxWindow = 2
  MaxSegment = 1
  ISS = 4
  IRS = 4
  MSS = 2
  AppBuf = 1
  WriteLens = {2}
  PeerBytes = 0
  Windows = {0, 2}
  RxMax = 1
  MaxUpdates = 4
  MaxSent = 5
INVARIANTS
  InflightTiles
  UnackedBounded
  FinAfterData
PROPERTIES
  LastAckMonotone
