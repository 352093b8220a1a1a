SPECIFICATION Spec
CONSTANTS
  M = 16
  MAX_UNACK = 3
  READ_BUFFER_SIZE = 3
  MaxWindow = 2
  MaxSegment = 1
  ISS = 12
  IRS = 14
  MSS = 2
  AppBuf = 1
  WriteLens = {2}
  PeerBytes = 1
  Windows = {0, 2}
  RxMax = 1
  MaxUpdates = 4
  MaxSent = 6
INVARIANTS
  NoPanic
PROPERTIES
  WrapStalls
  ImplementsByteStream
