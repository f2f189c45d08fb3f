SPECIFICATION FairSpec
CHECK_DEADLOCK FALSE
CONSTANTS
  Clients = {c1, c2}
  Service = service
  OpenModes = {"Open", "OpenOrCreate"}
  PoolCapacity = 3
  UpstreamBound = 1
  CacheBound = 1
  SerialStart = TRUE
  MaxRegions = 3
  MaxIds = 3
  MaxDeaths = 1
INVARIANTS EntryInvariant OneMemory IdsAndSlotsAreUnique
PROPERTIES CallsReturn
