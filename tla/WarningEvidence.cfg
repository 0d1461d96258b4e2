SPECIFICATION Spec
CONSTANTS
    Paths <- MCPaths
    Records <- MCRecords
    Early <- MCEarly
    Environments <- MCEnvironments
    Scans <- MCScans
    Selections <- MCSelections
    Delivered <- MCDelivered
    Limits <- MCLimits
    MaxSessions <- MCMaxSessions
    MaxRaised <- MCMaxRaised
    MaxToggles <- MCMaxToggles
    MaxCommit <- MCMaxCommit
INVARIANTS
    NoStaleEvidence
    CorroborationIsEarned
    EveryObservationOnce
PROPERTIES
    CompleteIsWhole
    LongestPrefixKept
CHECK_DEADLOCK FALSE
