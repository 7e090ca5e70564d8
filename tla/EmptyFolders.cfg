CONSTANTS
  NumTasks = 1
  Limit = 1
  IntHalf = 8
  Int32Half = 4
  MaxLen = 4
  DefaultSize = 2
  Nil = Nil
SPECIFICATION HelpersSpec
INVARIANT FoldersAreZipped
CHECK_DEADLOCK FALSE
