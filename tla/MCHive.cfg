CONSTANTS
  h1 = h1
  h2 = h2
  c1 = c1
  Hives = {h1, h2}
  Cells = {c1}
  InitTeam <- Lonely
  Start = 7
  Regeneration = 1
  Rate = 2
  NurseTick = 2
  Threshold = 7
  MaxTank = 3
  InitTank = 1
  Garbage = {6}
  MaxPlayers = 2
  MaxDeposits = 1
SPECIFICATION FairSpec
INVARIANTS TypeOK NurseBooks BeesPaidFor
PROPERTIES HivesLive HivesStarve
