CONSTANTS
  None = None
  Ttl = 2
  Timeout = 1
  Prices <- MCPrices
  Amounts <- MCAmounts
  Outs <- MCOuts
  ProbeIn = 10
  ProbeOuts <- MCProbeOuts
  Modes <- FixedModes
  SizingValue = 3
  MinTargetUsd = 2
  MaxPositionUsd = 4
  Cooldown = 2
  TakeProfit = 50
  StopLoss = 20
  MaxRoundtripBps = 2000
  RequireAuthorityNull = TRUE
  MaxTime = 4
  MaxCopies = 1
  MaxExits = 0
SPECIFICATION Spec
INVARIANTS
  AuthorityRejected
CHECK_DEADLOCK FALSE
