SPECIFICATION OpenAiSpec
CONSTANTS
  c1 = c1
  c2 = c2
  Calls <- MCCalls
  Asks <- MCAsks
  Last = 2
  MaxResumes = 1
  MaxAttempts = 2
  MaxPolls = 1
  CancelRemote = TRUE
CHECK_DEADLOCK FALSE
INVARIANTS AnswerIsWhole CancelArrives
PROPERTIES EveryCallSettles
