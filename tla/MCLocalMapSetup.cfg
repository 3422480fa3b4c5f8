SPECIFICATION Spec
CONSTANTS
  Nodes = {n1}
  Cells = {c1}
  NoCell = NoCell
  MaxAge = 2
  CellTTL = 2
  MaxTime = 6
INVARIANT
  SetupReadsTable
CHECK_DEADLOCK FALSE
