CONSTANTS
  None = None
  Ttl = 2
  Timeout = 1
  Prices <- MCPrices
  Amounts <- BuyAmounts
  Outs <- MCOuts
  ProbeIn = 10
  ProbeOuts <- MCProbeOuts
  Modes <- FixedModes
  SizingValue = 3
  MinTargetUsd = 2
  MaxPositionUsd = 4
  Cooldown = 2
  TakeProfit = 50
  StopLoss = 20
  MaxRoundtripBps = 2000
  RequireAuthorityNull = TRUE
  MaxTime = 3
  MaxCopies = 2
  MaxExits = 0
SPECIFICATION Spec
INVARIANTS
  TypeOK
  CooldownSpacing
  MinTradeHolds
CHECK_DEADLOCK FALSE
