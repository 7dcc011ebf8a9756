--------------------------- MODULE MCCoordinator ---------------------------
(* Small instances of one schedule execution for TLC.                        *)
EXTENDS Coordinator

CONSTANTS w1, w2, p1, p2

TwoWorkers == <<w1, w2>>
TwoPoints == <<p1, p2>>
OnePoint == <<p1>>
============================================================================
