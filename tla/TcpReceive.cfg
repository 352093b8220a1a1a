SPECIFICATION Spec
CONSTANTS
  M = 16
  MAX_UNACK = 2
  READ_BUFFER_SIZE = 3
  MaxWindow = 3
  MaxSegment = 2
  ISS = 4
  IRS = 4
  MSS = 2
  AppBuf = 2
  WriteLens = {}
  PeerBytes = 3
  Windows = {2}
  RxMax = 1
  MaxUpdates = 5
  MaxSent = 5
INVARIANTS
  TypeOK
  InOrder
  AckExact
  NoPanic
  ShutdownReadyIffClosed
PROPERTIES
  ClosedIsFinal
