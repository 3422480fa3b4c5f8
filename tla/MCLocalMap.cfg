SPECIFICATION Spec
CONSTANTS
  Nodes = {n1, n2}
  Cells = {c1, c2}
  NoCell = NoCell
  MaxAge = 2
  CellTTL = 2
  MaxTime = 6
SYMMETRY Symmetry
INVARIANTS
  TypeOK
  BoundedStaleness
  MapAgreesWithTable
  CountIsNeighborhood
  OccupiedCellIsFresh
  CallbacksNeverFail
PROPERTIES
  NeverOlder
  RemovedOnlyWhenExpired
CHECK_DEADLOCK FALSE
