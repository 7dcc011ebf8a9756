SPECIFICATION MCSpec
CONSTANTS
    Parts = {"baseline", "product", "departs", "analysis"}
    Planned = 2
    Cap = 3
    MaxTime = 5
    Fixed = TRUE
    Faults = {"dirty", "failed", "teardown", "spawn", "containment", "allocation"}
    Unknown = unknown
    Unused = unused
CHECK_DEADLOCK FALSE
INVARIANTS RowIsTrue ProductRowIsTrue ClaimsAreSupported
