SPECIFICATION FairSpec
CONSTANTS
  c1 = c1
  c2 = c2
  u1 = u1
  u2 = u2
  Conns = {c1, c2}
  Users = {u1, u2}
  User <- TwoUsers
  SendCap = 1
  MaxMsgs <- OneSender
  MaxNotices = 1
  MaxRedis = 1
  Redis = FALSE
PROPERTY LostIsUnregistered
CHECK_DEADLOCK FALSE
