CONSTANTS
  Cmd = {"Fire", "Status"}
  Retries <- MCRetries
  MaxCalls = 2
  MaxDrop = 1
SPECIFICATION Spec
INVARIANT AnswerIsCounted
