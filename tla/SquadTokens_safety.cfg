CONSTANTS
  N = 3
  Plans = {"BaseOfFire", "Flank"}
  Rule <- MCRule
  InitialRole <- MCRoles
  SuccessionOrder <- MCSuccession
  Reportable = {"Healthy"}
  MinHold = 0
  MaxHold <- MCMaxHold
  BoundMin = 1
  BoundMax = 1
  PlanInterval = 1
  StarvationBonus = 20
  MaxWait = 0
SPECIFICATION Spec
INVARIANTS TypeOK NoRequestWhileHolding FallenHoldNothing OneLeader ElementsDisjoint
