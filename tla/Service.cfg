SPECIFICATION Spec
CONSTANTS
  Documents <- MCDocuments
  CommandLines <- MCCommandLines
  HistoryCapacity = 2
  MaxCalls = 3
  MaxErrors = 1
  MaxStops = 2
CHECK_DEADLOCK FALSE
INVARIANTS ServiceInvariant ConfigurationIsSound ExitCodeTellsTheTruth
PROPERTIES RunsEnd
