CONSTANTS
  Ids = {k1}
  Goroutines = {g1, g2, g3}
  QueueCap = 1
  BatchSize = 2
  MaxTime = 1
  MaxLate = 1
  None = None
SPECIFICATION HistorySpec
SYMMETRY Symmetry
INVARIANTS
  TypeOK
  InFlightInOrder
  WrittenOnce
  TimerLive
  ScanCovers
PROPERTIES
  LeavesByItsKey
  ImplementsLog
CHECK_DEADLOCK FALSE
