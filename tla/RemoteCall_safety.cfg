\* Three calls, one of which throws, share two sockets; pepd stops once. Connecting is tried twice.
CONSTANTS
  Calls = {c1, c2, c3}
  Throws = {c1}
  Socks = {s1, s2}
  NoCall = NoCall
  NoSock = NoSock
  Tries = 2
  MaxStops = 1
  Interrupts = TRUE
SPECIFICATION Spec
SYMMETRY Symmetric
INVARIANTS
  TypeOK
  AtMostOnce
  OwnAnswer
  PoolClean
\* The system rests when all calls have ended.
CHECK_DEADLOCK FALSE
