SPECIFICATION Spec
CONSTANTS
  Me = Me
  Peer = Peer
  i1 = i1
  i2 = i2
  Insts = {i1, i2}
  Away = Away
  MaxMsgs = 3
  Limit = 2
  Unstable = {Me}
  MaxDrops = 1
  MaxAsks = 2
  MaxTurns = 2
SYMMETRY Alike
INVARIANT TypeOK
INVARIANT ShownTwiceOnlyIfLate
INVARIANT SenderOrderKept
INVARIANT MissingOnlyIfLost
CHECK_DEADLOCK FALSE
