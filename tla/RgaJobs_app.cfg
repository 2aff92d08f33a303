SPECIFICATION MCSpec
CONSTANTS
  a1 = a1
  a2 = a2
  j1 = j1
  j2 = j2
  b1 = b1
  b2 = b2
  Thread = {a1, a2}
  Job = {j1, j2}
  Actor = {a1, a2, j1, j2}
  Buffer = {b1, b2}
  Usr = {u1}
  i1 = i1
  i2 = i2
  i3 = i3
  c1 = c1
  c2 = c2
  c3 = c3
  r1 = r1
  Shape <- MCShape
  Offset <- MCOffset
  Id = {i1, i2, i3}
  High = {i2}
  Request <- MCRequest
  Tag = {}
  Plan = {}
  NoUsr = NoUsr
  NoBuffer = NoBuffer
  NoId = NoId
  Nobody = Nobody
INVARIANTS HardwareUsesLiving  BuffersLetGo
PROPERTIES BuffersAsInVram JobSettles
CHECK_DEADLOCK FALSE
