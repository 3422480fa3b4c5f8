SPECIFICATION FairSpec
CONSTANTS
  Cells = {c1, c2, c3, c4}
  Bursts = {1, 2}
  Amounts = {4, 7}
  HeaderSize = 2
  CellSize = 1
  BurstCellSize = 1
  MaxPdu = 4
  MinPdu = 5
INVARIANTS
  TypeOK
  QuotaKept
PROPERTIES
  NoOvertaking
  ImplementsOutbox
  EveryCellTravels
