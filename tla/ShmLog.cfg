SPECIFICATION Spec
CONSTANTS
  VarSize = 8
  EntrySize = 3
  MinLevels = {"debug", "warn", "fatal"}
  MaxRecords = 4
  MaxInits = 2
  MaxFaults = 2
CHECK_DEADLOCK FALSE
INVARIANTS LogInvariant ErrorsAreNotSwallowed
