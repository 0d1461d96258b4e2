SPECIFICATION VisitorSpec
CONSTANTS
    Targets <- MCTargets
    Micros = {0, 1}
    Rules <- MCRules
    Files <- MCFiles
    Room = 20
INVARIANTS
    FailuresAreReported
    HighIsProven
    SuppressedAsWritten
CHECK_DEADLOCK FALSE
