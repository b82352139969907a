\* Two calls and two stops of pepd; signals may interrupt a thread.
CONSTANTS
  Calls = {c1, c2}
  Throws = {c1}
  Socks = {s1, s2}
  NoCall = NoCall
  NoSock = NoSock
  Tries = 3
  MaxStops = 2
  Interrupts = TRUE
SPECIFICATION FairHistorySpec
PROPERTIES
  SurvivesOneRestart
  NoOrphanWork
  ImplementsCall
\* The system rests when all calls have ended.
CHECK_DEADLOCK FALSE
