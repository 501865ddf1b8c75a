SPECIFICATION Spec
CONSTANTS
  c1 = c1
  c2 = c2
  c3 = c3
  c4 = c4
  u1 = u1
  u2 = u2
  i1 = i1
  i2 = i2
  Conns = {c1, c2, c3, c4}
  Users = {u1, u2}
  Insts = {i1, i2}
  User <- UserOf
  Inst <- InstOf
  MaxHttp = 1
  MaxFails = 1
  MaxEvicts = 1
  MaxCrashes = 1
SYMMETRY Tabs
INVARIANT TypeOK
INVARIANT NobodyLeftBehind
INVARIANT StatusFollowsStore
CHECK_DEADLOCK FALSE
