CONSTANTS
  k1 = k1
  k2 = k2
  Ids = {k1, k2}
  Goroutines = {g1, g2}
  QueueCap = 1
  BatchSize = 1
  MaxTime = 0
  MaxLate = 1
  None = None
  Messages <- MixedMessages
SPECIFICATION ManagerSpec
INVARIANT
  RejectedIsNoTrack
CHECK_DEADLOCK FALSE
