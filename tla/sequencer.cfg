SPECIFICATION RunsSpec
CONSTANTS
  MaxLines = 3
  Users <- MCUsers
  NewValues <- MCNewValues
INVARIANTS
  TypeOK
  LoopsNest
  CompiledRunsSource
  SyncedLoops
CHECK_DEADLOCK FALSE
