\* Two pairs of connections, each pair on one descriptor number.
CONSTANTS
  Conns = {c1, c2, c3, c4}
  Fds = {f1, f2}
  NoConn = NoConn
  NoFd = NoFd
  Faults = {}
SPECIFICATION FairSpec
PROPERTY WaitersSignalled
CHECK_DEADLOCK FALSE
CONSTRAINT SilentClients
