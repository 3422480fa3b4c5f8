SPECIFICATION Spec
CONSTANTS
  StartTime = 0
  StopTime = 6
  CreationTimes = {0}
  MainInterval = 4
  MaxPackets = 3
  MaxData = 0
  Bursts = {1, 2}
  Amounts = {1}
  MaxTime = 16
  Never = Never
  StartOffset = 0
  CheckNetwork = FALSE
  Cells = {0, 1}
  InitialCells = {0, 1}
  MinInterval = 4
  Demands = {1, 6}
  Low = 5
  High = 15
  Scale = 12
PROPERTY
  NothingAfterStop
CHECK_DEADLOCK FALSE
