SPECIFICATION Spec
CONSTANTS
  TreeSize = 4
  Users <- MCUsers
  NewValues <- MCNewValues
  UserCols = {7}
INVARIANTS
  TypeOK
  ExpectsWhatIsSent
  BoardRunsDocument
  SmartImageIsReadout
PROPERTY CalibrationRestores
CHECK_DEADLOCK FALSE
