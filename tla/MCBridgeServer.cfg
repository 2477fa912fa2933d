CONSTANTS
  c1 = c1
  c2 = c2
  t1 = t1
  t2 = t2
  NoClient = NoClient
  Clients <- TwoClients
  Topics <- TwoTopics
  Whitelist <- TwoTopics
  MaxIncoming = 1
SPECIFICATION Spec
SYMMETRY Symmetry
INVARIANTS
  RefCountMatchesHolders
  SessionConsistent
  LatchedFollowsSubscription
  NoReplayStrands
  ToldIsTrue
  BacklogBelongsToSession
PROPERTIES
  LiveSessionsSurvive
  ImplementsSharedSubscriptions
