SPECIFICATION FairSpec
CHECK_DEADLOCK FALSE
CONSTANTS
  MaxOrders = 2
  NewOrders <- MCNewOrders
  CancelTargets = {1}
  InitialFund <- AmpleFund
  InitialHolding = 1
  CalculateFee <- NoFee
  CheckFund = TRUE
  CheckPosition = TRUE
  ArchiveMode = "delayed"
  UpstreamBound = 1
  DownstreamBound = 2
  ResponseBound = 1
  PoolCapacity = 3
  BookCapacity = 3
  TradePrices = {1}
  FeeOverrun = 0
  CrashPoints = {"idle", "staged", "settling"}
  MaxRestarts = 1
  MaxDValue = 60
INVARIANTS CashAgrees HoldingsAgree TradesReachTheBook
PROPERTIES EverySlotResolves
