SPECIFICATION ReplaySpec
CONSTANTS
  c1 = c1
  c2 = c2
  tf = tf
  other = other
  Clients = {c1, c2}
  Topics = {tf, other}
  LatchedTopic = tf
  Samples <- MCSamples
  max_message_age = 0
  ClockRange = 16
  MaxTime = 1
  MaxBuffered = 1
  MaxVersions = 2
  Intervals = {0, 2}
  Epoch = 2
  MaxSubscriptions = 2
  NoMessage = NoMessage
  NoClient = NoClient
  NoSample = NoSample
SYMMETRY MCSymmetry
VIEW MCView
CONSTRAINT MCBound
INVARIANTS
  NothingSentTwice
  EveryHolderIsCurrent
  RetainedIsNewest
PROPERTIES
  FreshNeverPurged
  StaleRemovedByAdd
