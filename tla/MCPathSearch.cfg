SPECIFICATION FairSpec
CONSTANTS
  Vertex = {1, 2, 3, 4, 5}
  Place <- FivePoints
  Clear <- SevenRoads
  INT_MAX = 63
  Algorithm = {"bfs", "dfs", "dijkstra", "astar"}
INVARIANTS RightAnswer PathIsBest
PROPERTIES ComesCloser ComesBack
CHECK_DEADLOCK FALSE
