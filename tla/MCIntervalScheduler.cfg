SPECIFICATION FairSpec
CONSTANTS
  StartTime = 3
  StopTime = 9
  CreationTimes = {0, 5, 9}
  MainInterval = 2
  MaxPackets = 4
  MaxData = 3
  Bursts = {1, 2}
  Amounts = {1, 2}
  MaxTime = 13
  Never = Never
  Delays <- MCDelays
  StartOffset = 1
INVARIANTS
  TypeOK
  PacketQuotaKept
  AppIsSetUp
  NoErrorState
  TimerAlive
PROPERTIES
  NothingAfterStop
  FallsSilent
CHECK_DEADLOCK FALSE
