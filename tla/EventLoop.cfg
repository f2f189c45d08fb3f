SPECIFICATION Spec
CHECK_DEADLOCK FALSE
CONSTANTS
  MaxOrders = 3
  NewOrders <- MCNewOrders
  CancelTargets = {1}
  InitialFund <- MCFund
  InitialHolding = 1
  CalculateFee <- MCCalculateFee
  CheckFund = TRUE
  CheckPosition = TRUE
  ArchiveMode = "now"
  UpstreamBound = 1
  DownstreamBound = 1
  ResponseBound = 1
  PoolCapacity = 4
  BookCapacity = 4
  TradePrices = {1, 2}
  FeeOverrun = 0
  CrashPoints = {}
  MaxRestarts = 0
  MaxDValue = 30
INVARIANTS FrozenBacksLiveOrders CashAgrees 
PROPERTIES TerminalIsFinal 
