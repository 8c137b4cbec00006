SPECIFICATION Spec
CONSTANTS
  N = 3
  Target = {t1, t2}
  Place = {here, there}
  Seen <- Full
  Threat <- Weights
  SharedCap = 6
  MaxKnown = 1
  MaxDepth = 3
  Delay <- Delays
  Cooldown = 2
  Second = 1
  MaxPerSecond = 1
  MaxReports = 2
INVARIANTS TypeOK OneEnd BookIsFresh
PROPERTIES DeliveredWhenDue
SYMMETRY Alike
