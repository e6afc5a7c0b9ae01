CONSTANTS
  Hive = hive
  Sources = {cell}
  EMPTY = 1
  FULL = 2
  InitTank = 3
  MaxTank = 4
  Rate = 2
  MinFramesPassed = 3
  FrameLimit = 2
  Orders = {"flying", "searching"}
SPECIFICATION FairSpec
INVARIANTS RefuelKeyPaired ForagerKnowsHoney
PROPERTIES PumpsOn
