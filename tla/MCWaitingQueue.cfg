SPECIFICATION FairQueueSpec
CONSTANTS
  anna = anna
  anna2 = anna2
  bert = bert
  carl = carl
  Clients <- MCClients
  NickOf <- MCNickOf
  HostOf <- MCHostOf
  MaxQueuedPlayers = 3
  MaxConnections = 2
  MaxClientsPerIP = 2
INVARIANTS QueueInv NobodyLeftBehind
PROPERTIES RefinesLine EverybodyServed
CHECK_DEADLOCK FALSE
