SPECIFICATION MCSpec
CONSTANTS
    MaxSignals = 3
    Rewrites = TRUE
    Parts = {"quiet"}
    Unused = unused
CHECK_DEADLOCK FALSE
INVARIANT NoFalseAlarm
