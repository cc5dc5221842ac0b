SPECIFICATION Spec
CONSTANTS
  TaskIds = {t1, t2, t3}
  Artifacts = {a1}
  Failures = {f1}
  NoFailure = NoFailure
  MaxTasks = 3
  MaxDependenciesPerTask = 2
  MaxEdges = 2
  MaxDepth = 3
  MaxOutputArtifacts = 1
  MaxSequence = 19
  MaxTime = 1
SYMMETRY Symmetry
CHECK_DEADLOCK FALSE
INVARIANTS SnapshotRoundTrips PendingIsNeverStuck
PROPERTIES SettledForGood
