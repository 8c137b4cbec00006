CONSTANTS
  N = 2
  Plans = {"Flank"}
  Rule <- MCRule
  InitialRole <- MCRoles
  SuccessionOrder <- MCSuccession
  Reportable = {"Healthy"}
  MinHold = 1
  MaxHold <- MCMaxHold
  BoundMin = 1
  BoundMax = 2
  PlanInterval = 1
  StarvationBonus = 20
  MaxWait = 0
SPECIFICATION Spec
INVARIANTS FixersStay
