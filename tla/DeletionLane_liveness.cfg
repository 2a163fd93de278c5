CONSTANTS
    Targets <- TwoTargets
    MaxItems = 2
    MaxEntries = 1
    MaxId = 1
    ReducedGuardrails = FALSE
SPECIFICATION FairSpec
CHECK_DEADLOCK FALSE
PROPERTIES
    CancelledPlanIsReleased
    ExecutionEnds
    ForcedExitEnds
