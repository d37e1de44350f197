CONSTANTS
  w1 = w1
  m1 = m1
  None = None
  Wallets <- One
  Mints <- OneMint
  Configs <- BothExits
  MaxBuys = 1
  MaxFaults = 0
  MaxRuns = 1
  UiCapacity = 2
  FeedCap = 1
SPECIFICATION DFairSpec
INVARIANTS
  DTypeOK
  ClosedIsNotListed
  TotalsCoverList
PROPERTIES
  ListCatchesUp
  KeyLeaves
CHECK_DEADLOCK FALSE
