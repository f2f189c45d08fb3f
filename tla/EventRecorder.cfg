SPECIFICATION FairSpec
CONSTANTS
  QueueCapacity = 2
  DebugTrace = TRUE
  Orders = {1}
  Recorded = {"session_started", "trade_updated"}
  MaxEvents = 4
  MaxStarts = 2
CHECK_DEADLOCK FALSE
INVARIANTS RecorderInvariant
PROPERTIES ShutdownWritesEverything EventuallyOnDisk
