\* Three connections share two descriptor numbers: one is always reused.
CONSTANTS
  Conns = {c1, c2, c3}
  Fds = {f1, f2}
  NoConn = NoConn
  NoFd = NoFd
  Faults = {"thread", "listen", "select"}
SPECIFICATION Spec
SYMMETRY Symmetric
INVARIANTS
  RegistryExact
  SoleOwner
  OwnConnection
  NoJobAfterReturn
\* run() returns, and then nothing happens any more.
CHECK_DEADLOCK FALSE
