SPECIFICATION ChaserSpec
CONSTANTS
  Vertex = {1, 2, 3, 4}
  Place <- Square4
  INT_MAX = 31
  Clear <- Roads5
  Danger = {"d1", "d2", "d3"}
  NoPoint = "none"
  Radius = {1, 2}
  Crossed <- CrossedRoads
  NUM_AVOIDPTS = 2
  MinEnemySpottedTime = 2
INVARIANTS FliesCurrentMap ChaserInv HaltsForEnemies
PROPERTIES RefinesZones
CHECK_DEADLOCK FALSE
