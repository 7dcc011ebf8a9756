SPECIFICATION MCSpec
CONSTANTS
    Parts = {"command", "gate", "slot", "pilot", "central", "action", "provider"}
    Unused = unused
CHECK_DEADLOCK FALSE
PROPERTY EverythingEnds
