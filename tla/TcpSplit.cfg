SPECIFICATION TimerSpec
CONSTANTS
  M = 8
  MAX_UNACK = 2
  READ_BUFFER_SIZE = 3
  MaxWindow = 4
  MaxSegment = 1
  ISS = 1
  IRS = 1
  MSS = 2
  AppBuf = 1
  WriteLens = {2}
  Reader = "reader"
  Writer = "writer"
  DataFlags = {{"ACK"}}
  PeerBytes = 0
  Events = {"timer", "drop", "stop"}
  MaxSent = 5
CHECK_DEADLOCK FALSE
INVARIANTS
  StreamWatched
  ShutdownNoticed
PROPERTIES
  ShutdownReturns
