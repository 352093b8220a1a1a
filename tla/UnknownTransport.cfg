SPECIFICATION FairSpec
CONSTANTS
  HeaderV4 = 2
  HeaderV6 = 4
  Mtus = {0, 2, 3, 4, 5, 6}
  MaxPayload = 4
  Protocol = "ICMP"
  UDP = "UDP"
INVARIANTS
  CarriedExactly
  SplitExact
  FitsMtu
PROPERTIES
  SendReturns
  SpinsUntilStackEnds
