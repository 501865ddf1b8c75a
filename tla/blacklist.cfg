SPECIFICATION Spec
CONSTANTS
  t1 = t1
  i1 = i1
  i2 = i2
  r1 = r1
  r2 = r2
  l1 = l1
  l2 = l2
  Tokens = {t1}
  Exp <- Lives
  Insts = {i1, i2}
  Requests = {r1, r2}
  Logouts = {l1, l2}
  MaxTime = 4
  MaxOutages = 1
SYMMETRY Alike
INVARIANT TypeOK
INVARIANT RevokedIsRefused
CHECK_DEADLOCK FALSE
