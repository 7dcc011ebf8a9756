CONSTANTS
  Worker = {w1, w2}
  Point = {p1}
  Call = {c1, c2}
  Waiter = {v1, v2}
  Nil = Nil
SPECIFICATION FairSpec
CHECK_DEADLOCK FALSE
PROPERTY CloseDrains
