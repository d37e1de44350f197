CONSTANTS
  w1 = w1
  w2 = w2
  m1 = m1
  None = None
  Wallets <- One
  Mints <- OneMint
  Configs <- TpSlOnly
  MaxBuys = 1
  MaxFaults = 0
  MaxRuns = 1
SPECIFICATION Spec
INVARIANTS
  CleanShutdown
CHECK_DEADLOCK FALSE
