CONSTANTS
  w1 = w1
  w2 = w2
  m1 = m1
  None = None
  Wallets <- Two
  Mints <- OneMint
  Configs <- TwoWallets
  MaxBuys = 2
  MaxFaults = 1
  MaxRuns = 2
SPECIFICATION Spec
INVARIANTS
  TypeOK
  LedgerJustified
  OversellBounded
  UnrecordedBuysBounded
  NewestLotTracked
PROPERTIES
  DryRunSubmitsNothing
  ClosedRowsAreFinal
  ImplementsLedger
CHECK_DEADLOCK FALSE
