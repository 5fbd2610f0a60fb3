CONSTANTS
  Parts = {"tcp out"}
  DHCP_FINE_TIMER_MSECS = 10000
  DHCP_COARSE_TIMER_SECS = 2
  U8 = 12
  U16 = 4
  INFINITE = 63
  Addrs = {"a1", "a2"}
  Options <- DhcpOptions
SPECIFICATION Spec
INVARIANT
  ClosedIsFreed
CHECK_DEADLOCK FALSE
