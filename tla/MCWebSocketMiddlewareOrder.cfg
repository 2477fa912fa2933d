SPECIFICATION FairSpec
CONSTANTS
  c1 = c1
  c2 = c2
  Clients = {c1}
  client_backlog_size = 2
  MaxFrames = 3
  NoClient = NoClient
PROPERTIES
  NothingOvertakesBacklog
