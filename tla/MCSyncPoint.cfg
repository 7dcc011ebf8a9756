CONSTANTS
  Worker = {w1, w2}
  Point = {p1, p2}
  Call = {c1, c2}
  Waiter = {v1, v2}
  Nil = Nil
SPECIFICATION Spec
SYMMETRY Interchangeable
CHECK_DEADLOCK FALSE
INVARIANTS TypeOK ArrivalsKept WaitsKept
PROPERTIES RecordedFactsStay ImplementsGate
