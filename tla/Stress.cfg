SPECIFICATION Spec
CHECK_DEADLOCK FALSE
CONSTANTS
  MaxOrders = 2
  NewOrders <- MCNewOrders
  CancelTargets = {1}
  InitialFund <- StressFund
  InitialHolding = 1
  CalculateFee <- MCCalculateFee
  CheckFund = FALSE
  CheckPosition = FALSE
  ArchiveMode = "now"
  UpstreamBound = 1
  DownstreamBound = 1
  ResponseBound = 2
  PoolCapacity = 2
  BookCapacity = 1
  TradePrices = {1, 2}
  FeeOverrun = 1
  CrashPoints = {"idle", "route", "sent", "staged", "settling", "stopped"}
  MaxRestarts = 1
  MaxDValue = 10
INVARIANTS TypeOK SlotMirrorsBook SubmittedOnce
