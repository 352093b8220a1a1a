SPECIFICATION FairSpec
CONSTANTS
  Overhead = 2
  Mtus = {1, 3, 4}
  AppBuf = 1
  Lens = {1, 2}
  WriteLens = {3}
  MaxDatagrams = 3
  MaxWrites = 3
  MaxWakes = 1
INVARIANTS
  DatagramsInOrder
  ReaderWatched
  WrittenOnce
PROPERTIES
  WaitEnds
  TimedOutSticks
