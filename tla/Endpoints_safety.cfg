\* Every document with up to four handlers, overrides of registered applications among them.
CONSTANTS
  Ids = {default, other}
  Default = default
  Locations = {l1, l2}
  None = None
  MaxHandlers = 4
  MaxListeners = 2
SPECIFICATION Spec
INVARIANTS
  TypeOK
  EndpointsServed
  ListenerLive
CHECK_DEADLOCK FALSE
