SPECIFICATION Spec
CONSTANTS
  p1 = p1
  p2 = p2
  Nobody = Nobody
  Peers = {p1, p2}
  MaxSockets = 3
  MaxOpens = 2
  MaxFrames = 2
  MaxRetries = 1
SYMMETRY TwoPeers
INVARIANT TypeOK
INVARIANT OneLiveSocket
INVARIANT BeatsWhileOpen
INVARIANT LossIsRetried
INVARIANT ActiveIsRead
INVARIANT BadgesSettle
INVARIANT PaneMatchesOpen
CHECK_DEADLOCK FALSE
