SPECIFICATION Spec
CONSTANTS
  Addr = {"a", "b"}
  Flows <- MCFlows
  MaxPackets = 3
  PacketInformation = TRUE
CHECK_DEADLOCK FALSE
INVARIANTS
  RoutedByTuple
  HandledOnce
  NewestOwnsEntry
  CutOnlyByOlder
PROPERTIES
  UdpEntryKept
  DeafForGood
