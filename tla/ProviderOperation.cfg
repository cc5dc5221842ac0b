SPECIFICATION LiveSpec
CONSTANTS
  MaxBuffered = 3
  MaxBytes = 6
  Reserve = 2
  CompactAt = 2
  EventBytes = {1, 3}
  FailedBytes = 2
  CancelledBytes = 1
  Handlers = {h1, h2}
  MaxSequence = 5
  MaxTime = 1
CHECK_DEADLOCK FALSE
INVARIANTS RoomForTheEnd GuardAccepts CancelReachesHandlers
PROPERTIES StreamEnds
