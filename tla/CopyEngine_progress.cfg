CONSTANTS
  w1 = w1
  w2 = w2
  m1 = m1
  None = None
  Wallets <- One
  Mints <- OneMint
  Configs <- BothExits
  MaxBuys = 1
  MaxFaults = 1
  MaxRuns = 2
SPECIFICATION ExitSpec
PROPERTIES
  HandlerReturns
  ExitsEventually
CHECK_DEADLOCK FALSE
