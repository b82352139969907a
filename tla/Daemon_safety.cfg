SPECIFICATION Spec
CONSTANTS
  Daemons = {d1, d2}
  CommandLines <- ServingLines
  NoFile = NoFile
  Earlier = Earlier
INVARIANTS SuccessTruthful ServerReachable
PROPERTIES PidFileStable StopEnds
CHECK_DEADLOCK FALSE
