CONSTANTS
  Component = {c1, c2, c3}
  Tier = {0, 1}
  Interval <- MCInterval
  MaxUpdatesPerFrame = 1
  MaxFrame = 2
  MaxChanges = 4
SPECIFICATION FairSpec
INVARIANTS TypeOK IntegratesRealTime
PROPERTIES FirstInTurnIsServed NobodyStarves
