CONSTANTS
  c1 = c1
  c2 = c2
  k1 = k1
  Ids <- MCIds
  Callers <- MCCallers
  Keys <- MCKeys
  Requests <- MCRequests
  MaxCalls = 5
  MaxRecords = 3
  MaxDepth = 2
SPECIFICATION Spec
SYMMETRY Symmetry
CHECK_DEADLOCK FALSE
INVARIANTS SupersededOnce ExplicitBeatsInferred DeletedIsForgotten
PROPERTIES NothingIsUndone
