SPECIFICATION MCSpec
CONSTANTS
    Parts = {"central", "late", "action", "pilot", "wire", "reuse"}
    Invocations = {i1, i2}
    Inv = {i}
    Worker = {w1, w2}
    Points = {"p"}
    Missing = "missing"
    MaxArrival = 2
    Capacity = 1
    Errors = {"nil", "context"}
    Facts <- WireFacts
    Cases <- WireFaults
    Nil = nil
    Unused = unused
    Bytes = {"x", "y"}
    Foreign = 1
    PageSize = 1
    Deadline = 1
    MaxRuns = 2
    NBlocks = 2
    FirstB = {1}
    MaxSignals = 2
    Orphans = FALSE
    MaxCuts = 2
SYMMETRY Symmetry
CHECK_DEADLOCK FALSE
INVARIANTS ReleasePublished GateEarned PairsComparable
PROPERTY HistoriesSound
