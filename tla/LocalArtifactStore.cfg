CONSTANTS
  k1 = k1
  w1 = w1
  w2 = w2
  r1 = r1
  d1 = d1
  c1 = c1
  None = None
  Keys <- MCKeys
  Writes <- MCWrites
  Reads <- MCReads
  Deletes <- MCDeletes
  Cleanups <- MCCleanups
  Modes <- MCModes
  Workloads <- MCWorkloads
  MaxCrashes = 1
SPECIFICATION Spec
INVARIANT ObjectsAreWhole StoredUntilDeleted NothingIsLeftBehind
PROPERTY CloseReturns
CHECK_DEADLOCK FALSE
