CONSTANTS
  k1 = k1
  k2 = k2
  Ids = {k1}
  Goroutines = {g1, g2, g3}
  QueueCap = 1
  BatchSize = 2
  MaxTime = 0
  MaxLate = 0
  None = None
  Messages <- UpdatesAndRemovals
SPECIFICATION FairManagerSpec
PROPERTIES
  HandlersReturn
  EveryRecordSettles
CHECK_DEADLOCK FALSE
