SPECIFICATION Spec
CONSTANTS
  Cells = {c1, c2, c3}
  Bursts = {1}
  Amounts = {5}
  HeaderSize = 2
  CellSize = 1
  BurstCellSize = 1
  MaxPdu = 4
  MinPdu = 0
INVARIANT
  QuotaKept
CHECK_DEADLOCK FALSE
