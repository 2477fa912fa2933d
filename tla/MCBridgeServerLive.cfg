CONSTANTS
  c1 = c1
  c2 = c2
  t1 = t1
  t2 = t2
  NoClient = NoClient
  Clients <- TwoClients
  Topics <- OneTopic
  Whitelist <- OneTopic
  MaxIncoming = 1
SPECIFICATION FairSpec
PROPERTIES
  DisconnectedIsForgotten
