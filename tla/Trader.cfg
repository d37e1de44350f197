CONSTANTS
  Reconnect = 1
  MaxBackoff = 1
  Capacity = 1
  MaxSwaps = 3
  w1 = w1
  m1 = m1
  None = None
  Scripts <- MCScripts
  Wallets <- One
  Mints <- OneMint
  Configs <- Mirror
  MaxBuys = 2
  MaxFaults = 0
  MaxRuns = 2
SPECIFICATION TSpec
INVARIANTS
  CopiedOnce
  StrandedExplained
  ExitLosesNoBuy
PROPERTIES
  ImplementsCopyEngine
CHECK_DEADLOCK FALSE
