SPECIFICATION WalkSpec
CONSTANTS
  N = 4
  DependencyLimit = 3
  DepthLimit = 3
  Given = {"pending", "running", "succeeded", "cancelled"}
CHECK_DEADLOCK FALSE
INVARIANTS CommitIsRight
