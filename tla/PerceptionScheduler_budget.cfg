CONSTANTS
  Component = {c1, c2, c3}
  Tier = {0}
  Interval <- MCInterval
  MaxUpdatesPerFrame = 2
  MaxFrame = 1
  MaxChanges = 3
SPECIFICATION FairSpec
PROPERTY NobodyStarves
