SPECIFICATION FairSpec
CONSTANTS
  c1 = c1
  c2 = c2
  u1 = u1
  u2 = u2
  Conns = {c1}
  Users = {u1, u2}
  User <- Alone
  SendCap = 1
  MaxMsgs <- OneAlone
  MaxNotices = 0
  MaxRedis = 1
  Redis = TRUE
INVARIANT MapMatchesChannels
PROPERTY StreamsAreOutboxes
PROPERTY SenderServed
CHECK_DEADLOCK FALSE
