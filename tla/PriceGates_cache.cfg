CONSTANTS
  None = None
  Ttl = 2
  Timeout = 1
  Prices <- MCPrices
  Amounts <- MCAmounts
  Outs <- MCOuts
  ProbeIn = 10
  ProbeOuts <- MCProbeOuts
  Modes <- PctOnly
  SizingValue = 100
  MinTargetUsd = 2
  MaxPositionUsd = 6
  Cooldown = 2
  TakeProfit = 50
  StopLoss = 20
  MaxRoundtripBps = 2000
  RequireAuthorityNull = TRUE
  MaxTime = 4
  MaxCopies = 1
  MaxExits = 1
SPECIFICATION Spec
INVARIANTS
  PriceAgeBounded
  CapHoldsWhenPriced
  TakeProfitIsReal
CHECK_DEADLOCK FALSE
