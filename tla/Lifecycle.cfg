CONSTANTS
  Reconnect = 3
  MaxBackoff = 10
  Capacity = 2
  MaxSwaps = 4
SPECIFICATION FairSpec
INVARIANTS
  TypeOK
  HandledInOrder
  ExitedMeansStopped
  StopsFollowBroadcast
PROPERTIES
  QuitExits
CHECK_DEADLOCK FALSE
