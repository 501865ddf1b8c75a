SPECIFICATION Spec
CONSTANTS
  ip = ip
  strict = strict
  normal = normal
  r1 = r1
  r2 = r2
  r3 = r3
  Requests = {r1, r2, r3}
  Keys = {ip}
  Configs = {strict, normal}
  Limit <- Limits
  W = 2
  MaxWindow = 2
SYMMETRY AnyRequest
INVARIANT TypeOK
INVARIANT QuotaPerWindow
PROPERTY RefusedOnlyWhenSpent
CHECK_DEADLOCK FALSE
