CONSTANTS
  execution = execution
  session = session
  Executions <- MCExecutions
  Sessions <- MCSessions
  MaxOutput = 2
  MaxQueuedEvents = 1
  MaxQueuedWrites = 2
  MaxTotalWrites = 2
  MaxChunk = 2
  Workloads <- MCWorkloads
SPECIFICATION Spec
CHECK_DEADLOCK FALSE
INVARIANTS NothingRunsUnwatched ReleasedLast StreamsAreWhole
PROPERTIES OutcomeIsDelivered
