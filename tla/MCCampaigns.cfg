SPECIFICATION MCSpec
CONSTANTS
    MaxSignals = 3
    Rewrites = TRUE
    Parts = {"command", "plain", "gate", "arm", "pair", "slot", "lost", "edited", "registered", "provider", "timing"}
    Unused = unused
CHECK_DEADLOCK FALSE
INVARIANTS InputsAreSound TimesReconcile ProcessesAccounted
    BundlesAreHonest AllocationsSafe AttemptedOnce
PROPERTY StopsAreFinal
