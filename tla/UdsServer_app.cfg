SPECIFICATION AppFairSpec
CONSTANTS
  Conn = {c1, c2}
  Cid = {k1, k2}
  NoConn = NoConn
  NoCid = NoCid
  MaxWrites = 2
INVARIANTS CloseIsSafe NobodyIsDeaf
PROPERTY FailureUnregisters
CHECK_DEADLOCK FALSE
