\* Two clients, so that the second may get the first one's descriptor, and be accepted while
\* the destructor shuts the first one down.
CONSTANTS
  Peer = {p1, p2}
  Fd <- MCFd
  Pieces = 2
  MaxPackets = 2
  NoPeer = NoPeer
  Listener = Listener
SPECIFICATION Spec
INVARIANTS OwnSockets ConnectedIffClients WholePackets NoUseAfterDestroy
PROPERTY DestructorReturns
CHECK_DEADLOCK FALSE
