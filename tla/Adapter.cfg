SPECIFICATION LiveSpec
CONSTANTS
  m1 = m1
  m2 = m2
  m3 = m3
  k1 = k1
  k2 = k2
  Clients = {c1, c2}
  NoClient = NoClient
  Ops <- StoreCalls
  Effect <- Apply
  InitialDb <- EmptyDb
  Backend = "sqlite"
  CloseInside = FALSE
  Aggregates = {a1}
  Events = {e1}
  MessageIds = {m1, m2}
  KeyOfMessage <- MCKeyOf
  Damaged = {m2}
  Artifacts = {x1}
  MaxVersion = 1
  ClaimLimit = 2
CHECK_DEADLOCK FALSE
INVARIANTS JournalHasNoDuplicates
PROPERTIES ImplementsAtomicStore ClosedIsQuiet EveryCallReturns
