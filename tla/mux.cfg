\* Two sockets, two timers that expire together now and then, breaks that overlap.
CONSTANTS
  Socket = {s1, s2}
  fast = fast
  slow = slow
  Timer = {fast, slow}
  Delay <- MCDelay
  Period <- MCPeriod
  MaxInbox = 1
  MaxLate = 1
  MaxBytes = 2
SPECIFICATION PortSpec
INVARIANT NoneOverlooked
PROPERTY BreakReturns
