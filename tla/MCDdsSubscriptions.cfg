SPECIFICATION FairSpec
CONSTANTS
  d1 = d1
  d2 = d2
  e1 = e1
  e2 = e2
  e3 = e3
  t1 = t1
  t2 = t2
  w1 = w1
  w2 = w2
  Loop = Loop
  WsThreads = {w1, w2}
  Topics = {t1, t2}
  Domains = {d1, d2}
  Ents = {e1, e2, e3}
  MaxRefs = 2
  None = None
CHECK_DEADLOCK FALSE
INVARIANTS
  NoEntityLeaks
  CountsMatchSessions
  NoTopicClash
  ReaderFromOneDiscovery
  QuietAfterShutdown
PROPERTY
  CallsReturn
