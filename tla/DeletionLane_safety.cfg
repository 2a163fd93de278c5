CONSTANTS
    Targets <- TwoTargets
    MaxItems = 2
    MaxEntries = 2
    MaxId = 2
    ReducedGuardrails = FALSE
SPECIFICATION Spec
CHECK_DEADLOCK FALSE
INVARIANTS
    TypeOK
    LanesMatchRail
    CancellationReachesPlanner
    StopKeepsTargetIntact
    StopsAtEntryBoundary
    QuitLeavesNothingRunning
    DialogMatchesRail
