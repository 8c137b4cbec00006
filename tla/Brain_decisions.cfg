SPECIFICATION Spec
CONSTANTS
  Intents <- MCIntents
  Axes <- MCAxes
  BaseWeight <- MCBaseWeight
  MinViable <- MCMinViable
  MinDuration <- MCMinDuration
  Survival = {"TakeCover"}
  BonusPercent = 12
  Unit = 10
  Interval <- MCInterval
  TargetInput = {"PrimaryTargetVisibility", "PrimaryTargetDistanceCm"}
  BodyInput = {"SelfExposure"}
  PushedInput = {"LineOfFireClear"}
  Sensed <- MCSensed
  Absent <- MCAbsent
  Target = {"X"}
  NoTarget = "None"
INVARIANTS TypeOK AimlessEnds
PROPERTY BestWins
