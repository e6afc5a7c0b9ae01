SPECIFICATION FairSpec
CONSTANTS
  Vertex = {1, 2, 3, 4, 5}
  Place <- FivePoints
  Clear <- SevenRoads
  INT_MAX = 63
  Algorithm = {"dijkstra"}
PROPERTIES ReportsNoPath
CHECK_DEADLOCK FALSE
