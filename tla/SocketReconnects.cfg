CONSTANT MaxFlying = 0
SPECIFICATION SocketSpec
CHECK_DEADLOCK FALSE
INVARIANT SocketReconnects
