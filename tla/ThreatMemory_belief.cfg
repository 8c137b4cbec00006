SPECIFICATION Spec
CONSTANTS
  Target = {t1, t2}
  None = None
  MaxTrackedThreats = 1
  Full = 4
  SuspiciousThreshold = 2
  ConfirmedThreshold = 3
  AwarenessBandHysteresis = 1
  AwarenessDecay = 1
  ConfidenceDecay = 1
  SquadSharedConfidence = 2
  SquadSharedAwareness = 2
  DamageConfidence = 3
  NoiseConfidence = 1
  Reported <- MCReported
  Rate <- MCRate
  Impulse <- MCImpulse
  MemoryLifetime = 1
  Old = 3
  Danger <- MCDanger
  Value <- MCValue
  MinConfidenceToEngage = 2
  MinTargetHold = 1
INVARIANTS TypeOK HearsayIsNoCertainty PlaceIsFresh ListenersKnowPrimary SilentIsForgotten
PROPERTY Promise
SYMMETRY Alike
