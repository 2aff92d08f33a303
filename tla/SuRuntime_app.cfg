SPECIFICATION MCSpec
CONSTANTS
  t1 = t1
  t2 = t2
  Tasks = {t1, t2}
  Workers = {w1}
  Counts <- MCCounts
  Kinds = {"rate", "once", "post", "execute"}
  Dones = {"later"}
  Nobody = Nobody
  MaxSub = 3
  MaxPool = 1
INVARIANT CountKept
PROPERTIES CancelFinal ImplementsCountedTask CountedTaskCompletes StopJoins
CHECK_DEADLOCK FALSE
