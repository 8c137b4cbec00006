SPECIFICATION Spec
CONSTANTS
  Squad = {"A", "B", "C"}
  SquadTickHz = 1
  Credit = 2
  FrameTime <- Times
  Lap = 6
PROPERTIES LiveSquadsTick RecoveryIsNoticed
