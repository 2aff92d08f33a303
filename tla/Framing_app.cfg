SPECIFICATION FrFairSpec
CONSTANTS
  short = short
  long = long
  huge = huge
  Msg <- MCMsg
  Size <- MCSize
  Limit = 3
  Chunk = 2
  Cap = 3
INVARIANTS NothingLost
PROPERTIES ImplementsChannel AllArrive
CHECK_DEADLOCK FALSE
