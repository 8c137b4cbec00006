SPECIFICATION Spec
CONSTANTS
  Member = {0, 1}
  Type = {"Movement", "Suppression"}
  Plan = {"Withdraw", "Flank", "BaseOfFire"}
  PerElement = {"Withdraw"}
  Bravo = {1}
  TokenCap <- Caps
  MaxRevision = 2
  Follower = {1}
INVARIANTS TypeOK NoStrayToken PlanIsCurrent
