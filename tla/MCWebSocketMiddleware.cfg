SPECIFICATION FairSpec
CONSTANTS
  c1 = c1
  c2 = c2
  Clients = {c1, c2}
  client_backlog_size = 2
  MaxFrames = 4
  NoClient = NoClient
INVARIANTS
  EveryFrameCounts
  BacklogIsNewest
  NoDeadBacklog
PROPERTIES
  SendReturns
  CongestedNeverFed
  ImplementsFrameStream
