SPECIFICATION Spec
CONSTANTS
  c1 = c1
  c2 = c2
  Conns = {c1, c2}
  kMaxIncomingQueueSize = 1
CHECK_DEADLOCK FALSE
INVARIANTS
  EventsAreHeard
  ShutdownIsClean
  NoCallbackAfterDestruction
PROPERTIES
  ShutdownReturns
