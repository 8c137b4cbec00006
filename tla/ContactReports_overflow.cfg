SPECIFICATION Spec
CONSTANTS
  N = 3
  Target = {t1}
  Place = {here, there}
  Seen <- Full
  Threat <- Full
  SharedCap = 6
  MaxKnown = 1
  MaxDepth = 3
  Delay <- Delays
  Cooldown = 1
  Second = 1
  MaxPerSecond = 1
  MaxReports = 3
PROPERTY OldestDroppedFirst
