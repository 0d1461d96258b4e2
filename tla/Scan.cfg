SPECIFICATION Spec
CONSTANTS
    Targets <- MCTargets
    KnownSince <- MCKnownSince
    NameOrder <- MCNameOrder
    Sources <- MCSources
    Runtime <- MCRuntime
    Stem <- MCStem
    BuiltIn <- MCBuiltIn
    Scenarios <- MCScenarios
    Limit <- MCLimit
    Depth <- MCDepth
INVARIANTS
    SnapshotPerFile
    CompleteScanMissesNothing
    HandlersSettled
CHECK_DEADLOCK FALSE
