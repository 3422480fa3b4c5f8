SPECIFICATION Spec
CONSTANTS
  StartTime = 0
  StopTime = 0
  CreationTimes = {0}
  MainInterval = 0
  MaxPackets = 0
  MaxData = 3
  Bursts = {}
  Amounts = {2}
  MaxTime = 8
  Never = Never
  Delays = {1}
  StartOffset = 0
INVARIANT
  DataQuotaKept
CHECK_DEADLOCK FALSE
