SPECIFICATION FairSpec
CONSTANTS
  Addr = {"a", "b"}
  Flows <- MCOneFlow
  MaxPackets = 3
  PacketInformation = TRUE
CHECK_DEADLOCK FALSE
PROPERTIES
  GoneIsForgotten
  RefusalAnswered
  ReadingResumes
