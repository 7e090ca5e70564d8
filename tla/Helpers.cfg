CONSTANTS
  NumTasks = 4
  Limit = 2
  IntHalf = 8
  Int32Half = 4
  MaxLen = 4
  DefaultSize = 2
  Nil = Nil
SPECIFICATION HelpersSpec
INVARIANTS
  RunnerTypeOK
  AtMostLimit
  ReturnsAfterAll
  ReturnsAnError
  ConversionIsWhole
  QueryAnswers
  ArraysKeepValues
  HostsAreKept
  CopyKeepsFiles
  FoldersAreMade
  ZipRoundTrip
  SearchIsExact
PROPERTY
  CallReturns
CHECK_DEADLOCK FALSE
