SPECIFICATION MCSpec
CONSTANTS
    Parts = {"native", "wire", "again", "engine", "peer"}
    Invocation = {x1, x2, x3}
    Worker = {w1, w2}
    Reused = {x1, x2}
    Single = {x3}
    Nil = Nil
    Unused = unused
SYMMETRY Interchangeable
CHECK_DEADLOCK FALSE
INVARIANTS InvocationsKept SidesAgree OutcomeIsTrue SidesAreSafe
PROPERTIES RunFailureIsTheCause AdaptersImplementStream
