CONSTANTS
    Targets <- FolderEntryAndSibling
    MaxItems = 2
    MaxEntries = 1
    MaxId = 3
    ReducedGuardrails = TRUE
SPECIFICATION NobodyLeaves
CHECK_DEADLOCK FALSE
INVARIANTS
    NoStrayPlanCancellation
    PlannerAndExecutorApart
