SPECIFICATION Spec
CONSTANTS
  m1 = m1
  m2 = m2
  Masters <- MCMasters
  Requests <- MCRequests
  NBoards = 2
  Buffer = 1
  MaxPieces = 2
  MaxFaults = 1
  Nobody = Nobody
INVARIANTS
  TypeOK
  AllOrNobody
  SameOrder
  ReportSound
PROPERTY MasterEnds
CHECK_DEADLOCK FALSE
