SPECIFICATION Spec
CONSTANTS
  Securities = {"a", "b", "c"}
  Capacity = 2
  Snapshots <- MCSnapshots
  Leftovers <- MCLeftovers
  MaxStarts = 3
  MaxTrades = 2
  MaxVolume = 2
INVARIANTS TableInvariant ServedTableIsWhole MonitorsSeeNamedRows
PROPERTIES RestartKeepsHoldings EveryStartEnds
