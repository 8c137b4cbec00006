CONSTANTS
  N = 2
  Plans = {"BaseOfFire", "Withdraw"}
  Rule <- MCRule
  InitialRole <- MCRoles
  SuccessionOrder <- MCSuccession
  Reportable = {"Healthy", "Downed"}
  MinHold = 0
  MaxHold <- MCMaxHold
  BoundMin = 1
  BoundMax = 1
  PlanInterval = 1
  StarvationBonus = 20
  MaxWait = 0
SPECIFICATION FairSpec
INVARIANTS FlagsCoverTokens GrantFollowsMover
PROPERTIES Promise TokensCirculate ElementsAlternate
