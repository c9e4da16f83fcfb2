CONSTANTS
  c1 = c1  c2 = c2  c3 = c3
  l1 = l1
  Conns <- MCConns
  Fds <- MCFds
  Loops <- MCLoops
  Base = Base
  NoConn = NoConn
  MaxMessages = 2
SPECIFICATION Spec
INVARIANT IoStopsAfterConnections
