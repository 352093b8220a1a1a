SPECIFICATION LivePeerSpec
CONSTANTS
  M = 8
  MAX_UNACK = 2
  READ_BUFFER_SIZE = 3
  MaxWindow = 4
  MaxSegment = 1
  ISS = 1
  IRS = 1
  MSS = 2
  AppBuf = 1
  WriteLens = {2}
  Reader = "app"
  Writer = "app"
  DataFlags = {{"ACK"}, {"PSH", "ACK"}}
  PeerBytes = 1
  Events = {}
  MaxSent = 5
CHECK_DEADLOCK FALSE
PROPERTIES
  PeerDataDelivered
  WriteReturns
  ShutdownCompletes
