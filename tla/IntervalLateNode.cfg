SPECIFICATION Spec
CONSTANTS
  StartTime = 3
  StopTime = 6
  CreationTimes = {7}
  MainInterval = 2
  MaxPackets = 4
  MaxData = 3
  Bursts = {1, 2}
  Amounts = {1, 2}
  MaxTime = 10
  Never = Never
  Delays = {1}
  StartOffset = 1
INVARIANT
  NoErrorState
CHECK_DEADLOCK FALSE
