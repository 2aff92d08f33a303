SPECIFICATION FrSpec
CONSTANTS
  short = short
  long = long
  huge = huge
  Msg <- MCMsg
  Size <- MCSize
  Limit = 3
  Chunk = 2
  Cap = 2
INVARIANT ClientFollowsProtocol
CHECK_DEADLOCK FALSE
