SPECIFICATION Spec
CONSTANTS
  Soldier = {s1, s2, s3}
  Slot = {a, b}
  MaxConcurrentQueries = 2
  RecencyWindow = 2
  RecencyDepth = 2
  ClaimLifetime = 1
PROPERTIES RefusedOnlyWhenBusy ClaimsEnd
INVARIANT NewestArrivalCounts
