CONSTANTS
  w1 = w1
  w2 = w2
  p1 = p1
  p2 = p2
  Coord = coordinator
  Nil = Nil
  WorkerList <- TwoWorkers
  PointList <- TwoPoints
  Deviant = {w2}
  ObserverMayFail = TRUE
SPECIFICATION Spec
CHECK_DEADLOCK FALSE
INVARIANTS ProtocolKept RecordsFit StepsAccounted
PROPERTY BarrierKept
