SPECIFICATION OutboxLiveSpec
CONSTANTS
  m1 = m1
  m2 = m2
  m3 = m3
  k1 = k1
  k2 = k2
  Messages = {m1, m2, m3}
  Keys = {k1, k2}
  KeyOf <- MCKeyOf
  Owners = {w1, w2}
  NoOwner = NoOwner
  MaxDelay = 1
  MaxLease = 1
  MaxLimit = 2
  MayCorrupt = {m2}
CHECK_DEADLOCK FALSE
INVARIANTS LeasesExclusive
PROPERTIES SettledForGood EveryMessageSettles
