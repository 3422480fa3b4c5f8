SPECIFICATION Spec
CONSTANTS
  StartTime = 4
  StopTime = 14
  CreationTimes = {0, 5}
  MainInterval = 4
  MaxPackets = 3
  MaxData = 0
  Bursts = {1, 2}
  Amounts = {1}
  MaxTime = 16
  Never = Never
  StartOffset = 0
  CheckNetwork = TRUE
  Cells = {0, 1}
  InitialCells = {0, 1}
  MinInterval = 4
  Demands = {1, 6}
  Low = 5
  High = 15
  Scale = 12
INVARIANTS
  TypeOK
  PacketQuotaKept
  AppIsSetUp
  ResumedWithNetwork
PROPERTY
  SpacingKept
CHECK_DEADLOCK FALSE
