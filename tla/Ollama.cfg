SPECIFICATION OllamaLiveSpec
CONSTANTS
  r1 = r1
  r2 = r2
  r3 = r3
  small = small
  large = large
  Requests = {r1, r2, r3}
  Models = {small, large}
  ModelOf <- MCModelOf
  Size <- MCSize
  Configurations <- MCConfigurations
CHECK_DEADLOCK FALSE
INVARIANTS CapacityIsExact
PROPERTIES FirstComeFirstServed EveryStartSettles
