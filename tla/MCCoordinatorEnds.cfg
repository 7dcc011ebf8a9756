CONSTANTS
  w1 = w1
  w2 = w2
  p1 = p1
  p2 = p2
  Coord = coordinator
  Nil = Nil
  WorkerList <- TwoWorkers
  PointList <- OnePoint
  Deviant = {}
  ObserverMayFail = FALSE
SPECIFICATION FairSpec
CHECK_DEADLOCK FALSE
PROPERTY ExecuteEnds
