\* Three connections take turns on one descriptor, no failing system call.
CONSTANTS
  Conns = {c1, c2, c3}
  Fds = {f1}
  NoConn = NoConn
  NoFd = NoFd
  Faults = {}
SPECIFICATION FairSpec
INVARIANT
  NoLeak
PROPERTIES
  ShutdownCompletes
  RequestAnswered
\* run() returns, and then nothing happens any more.
CHECK_DEADLOCK FALSE
