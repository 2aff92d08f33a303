SPECIFICATION Spec
CONSTANTS
  Actor = {a1, a2}
  Buffer = {b1, b2}
  Usr = {u1, u2}
  Id = {i1, i2}
  t1 = t1
  t2 = t2
  Tag = {t1, t2}
  Plan <- MCPlan
  NoUsr = NoUsr
  NoBuffer = NoBuffer
  NoId = NoId
  Nobody = Nobody
SYMMETRY VramSymmetry
INVARIANTS StepIsExclusive ReferencedIsAlive RegistryExact NothingLeaks ListsAreReachable
PROPERTY ImplementsTurns

