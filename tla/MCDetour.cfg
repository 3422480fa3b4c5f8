SPECIFICATION FairSpec
CONSTANTS
  s1 = s1
  s2 = s2
  p1 = p1
  fire = fire
  flood = flood
  a = a
  b = b
  c = c
  Never = Never
  Nodes <- MCNodes
  Reasons = {fire, flood}
  Targets = {a, b, c}
  Source <- MCSource
  IncidentTime <- MCIncidentTime
  ClosedTarget <- MCClosedTarget
  AlternativeRoute <- MCAlternativeRoute
  RepeatTime <- MCRepeatTime
  RepeatInterval <- MCRepeatInterval
  StartTimes = {1, 2}
  Routes <- MCRoutes
  Reliable = {p1}
  MaxTime = 4
INVARIANTS
  TypeOK
  IncidentAnnounced
  AvoidsClosedTarget
PROPERTIES
  RepeatedInTime
  ImplementsRumor
  DiesOut
  NewcomerHears
CHECK_DEADLOCK FALSE
