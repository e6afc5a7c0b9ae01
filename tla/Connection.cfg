SPECIFICATION FairConnSpec
CONSTANTS
  MaxPacket = 3
  MaxInFlight = 2
  MaxAcks = 1
  SetupSize = 5
  SetupChunk = 4
  LISTEN_TIMEOUT = 1
  SETUP_TIMEOUT = 1
  LOGIN_TIMEOUT = 1
  READY_TIMEOUT = 0
  IDLE_TIMEOUT = 0
  MaxNews = 1
  MaxRequests = 1
INVARIANTS NeverAccused ParsesStream SidesAgree
PROPERTIES RefinesPipe AllArrives ForgetsTheGone
CHECK_DEADLOCK FALSE
