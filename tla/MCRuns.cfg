SPECIFICATION MCSpec
CONSTANTS
    Parts = {"run", "fixture", "space", "command", "native", "external"}
    Run = {1, 2}
    Worker = {w1}
    Nil = Nil
    Unused = unused
    Containers = 4
CHECK_DEADLOCK FALSE
INVARIANTS TypeOK RunsApart ReportIsTrue FixtureIsSafe SpaceIsExact VerdictIsSound
PROPERTIES OwnFailureKept EverythingReturns
