SPECIFICATION Spec
CONSTANTS
  c1 = c1
  c2 = c2
  u1 = u1
  u2 = u2
  Conns = {c1, c2}
  Users = {u1, u2}
  User <- TwoUsers
  SendCap = 1
  MaxMsgs <- TwoByOne
  MaxNotices = 0
  MaxRedis = 1
  Redis = FALSE
INVARIANT TypeOK
INVARIANT MapMatchesChannels
INVARIANT OnlyRedisPanics
INVARIANT BroadcastAtMostOnce
INVARIANT SenderOrder
PROPERTY StreamsAreOutboxes
PROPERTY NoSilentLoss
CHECK_DEADLOCK FALSE
