SPECIFICATION FairSpec
CONSTANTS
  c1 = c1
  c2 = c2
  u1 = u1
  u2 = u2
  Conns = {c1, c2}
  Users = {u1, u2}
  User <- TwoTabs
  SendCap = 1
  MaxMsgs <- OneSender
  MaxNotices = 1
  MaxRedis = 1
  Redis = FALSE
INVARIANT DirectDelivery
PROPERTY ClosedIsTornDown
PROPERTY SenderServed
CHECK_DEADLOCK FALSE
