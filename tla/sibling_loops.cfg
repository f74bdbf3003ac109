SPECIFICATION RunsSpec
CONSTANTS
  MaxLines = 1
  Users <- MCUsers
  NewValues <- MCNewValues
INVARIANT SyncedSiblings
CHECK_DEADLOCK FALSE
