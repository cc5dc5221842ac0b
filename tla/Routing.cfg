CONSTANTS
  k1 = k1
  k2 = k2
  k3 = k3
  p1 = p1
  p2 = p2
  Calls <- MCCalls
  Probes <- MCProbes
  Threshold = 2
  CoolDown = 2
  Remembered = 1
  MaxTime = 5
  Requests <- MCRequests
  CatalogMs = 8
  HealthMs = 5
  QuotaMs = 8
  CapacityMs = 3
  SecureMs = 4
  MaximumFallbacks = 1
SPECIFICATION Spec
INVARIANT CountedOnce CountIsTheRun ProbesAreSpaced ValidityIsExact
SYMMETRY Symmetry
CHECK_DEADLOCK FALSE
