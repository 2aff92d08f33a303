SPECIFICATION MCFairSpec
CONSTANTS
  Attempt = {a1, a2}
  NoClient = NoClient
  MaxLate = 2
INVARIANTS WorkingHasClient GivenUpIsStopped OneConnection
PROPERTIES ImplementsConnection NeverStuckConnecting ServiceComesUp
CHECK_DEADLOCK FALSE
