SPECIFICATION VTFairSpec
CONSTANTS
  Task = {p1, d1, d2}
  Prompt = {p1}
  MaxFrame = 3
INVARIANTS NothingStranded WaitsOnOpenDevice
PROPERTIES ImplementsFrameTasks AcceptedBegins StopEnds
CHECK_DEADLOCK FALSE
