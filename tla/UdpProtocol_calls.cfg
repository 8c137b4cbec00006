CONSTANTS
  Cmd = {"Fire", "Status"}
  Retries <- MCRetries
  MaxCalls = 2
  MaxDrop = 1
SPECIFICATION FairSpec
PROPERTY CallsReturn
INVARIANTS TypeOK AnswersAreReal StaleAnswersNeedRetries CounterLagsByOne
