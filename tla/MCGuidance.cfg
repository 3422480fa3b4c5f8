SPECIFICATION FairSpec
CONSTANTS
  p1 = p1
  p2 = p2
  None = None
  Station = Station
  Area = Area
  N = 2
  Levels = {0, 1}
  Strategies <- MCStrategies
  Start = 3
  Step = 5
  End = 8
  Horizon = 14
  Persons <- MCPersons
  Dt = 2
  Frame = 3
  HopCount = 2
INVARIANTS
  TypeOK
  OneRecommendation
  OnlyLoggedOrders
PROPERTIES
  ControllerOnTime
  RowsTellTheTruth
  PacketsDieOut
CHECK_DEADLOCK FALSE
