CONSTANTS
  k1 = k1
  k2 = k2
  Ids = {k1}
  Goroutines = {g1, g2}
  QueueCap = 1
  BatchSize = 1
  MaxTime = 0
  MaxLate = 1
  None = None
  Messages <- OneTrack
SPECIFICATION ManagerSpec
PROPERTY
  RemovedHistoryIsGone
CHECK_DEADLOCK FALSE
