SPECIFICATION FairSpec
CONSTANTS
  i1 = i1
  i2 = i2
  Insts = {i1, i2}
  Prefetch = 2
  MaxMsgs = 3
  MaxStarts = 2
INVARIANT TypeOK
INVARIANT Accounted
INVARIANT HandledAgainOnlyIfLost
PROPERTY EventuallyHandled
CHECK_DEADLOCK FALSE
