CONSTANTS
  ProbeIn = 7
  Limit = 24
  OPEN = OPEN
  CLOSE = CLOSE
  NotANumber = NotANumber
  Environment <- MCEnvironment
  MaxText = 5
  Threshold = 1
  Dust = 1
  Tokens = {"A", "B"}
  Forms <- MCForms
  Routed <- MCRouted
  Routers = {"JUPITER_V6", "UNKNOWN"}
  Trades <- MCTrades
  Wallets0 <- MCWallets
  Lamports0 = 20
  Fees = {1, 3}
  Tip = 2
  Yield = 3
  Rent = 3
  Wraps = {3, 5}
  MaxInstructions = 3
  MaxSwaps = 2
SPECIFICATION Spec
INVARIANTS
  LossFitsU16
  BudgetKept
  EnvExpandedOnce
  SubscribedIsDispatched
  TxTypeOK
  LegsAreReal
  NeverInverted
  SolLegBounded
  SolBuysSeen
  PhantomsAreSmall
CHECK_DEADLOCK FALSE
