SPECIFICATION Spec
CONSTANTS
  Threads = {t1, t2, t3}
  NoThread = NoThread
  Other = Other
  MaxCalls = 2
  Replies <- MCReplies
INVARIANTS LockHeld
PROPERTIES ImplementsHeaderList CallsEnd
CHECK_DEADLOCK FALSE
