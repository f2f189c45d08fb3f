SPECIFICATION FairSpec
CONSTANTS
  Parents <- MCParents
  MaxParents = 1
  MaxRequests = 2
  CancelTargets = {1}
  DefaultStrategy = "TWAP"
  MinChildVolume = 1
  MaxChildVolume = 2
  MaxChildCount = 2
  TwapInterval = 1
  MarketDataReady = TRUE
  AllowOrderPriceFallback = TRUE
  ActiveStrategy = TRUE
  MaxPublications = 1
  PoolCapacity = 5
  BookCapacity = 3
  DownstreamBound = 1
  ResponseBound = 1
  ArchiveTerminal = TRUE
INVARIANTS SessionInvariant NeverOverfilled ParentMirrorsChildren
PROPERTIES SessionsEnd
