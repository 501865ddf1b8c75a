SPECIFICATION SocketSpec
CONSTANT MaxSockets = 3
INVARIANT ClosedIsRetried
CHECK_DEADLOCK FALSE
