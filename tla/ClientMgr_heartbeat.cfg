SPECIFICATION MCFairSpec
CONSTANTS
  Attempt = {a1}
  NoClient = NoClient
  MaxLate = 2
PROPERTY TimeoutReconnects
CHECK_DEADLOCK FALSE
