SPECIFICATION Spec
CONSTANTS
  M = 6
  W = 2
  Unit = 2
  Saturation = 1
  TTL = 2
  Gap = 2
  MaxSent = 12
  Before = 4
  MaxFlight = 2
  Horizon = 4
INVARIANTS
  LossCounted
PROPERTIES
  MeasureTimeKept
CHECK_DEADLOCK FALSE
