CONSTANTS
  Component = {c1, c2}
  Tier = {0, 1}
  Interval <- MCInterval
  MaxUpdatesPerFrame = 2
  MaxFrame = 1
  MaxChanges = 3
SPECIFICATION Spec
INVARIANT DeltaIsReal
