CONSTANTS
    Sessions = {"own", "other"}
    OwnSession = "own"
    Paths <- MCPaths
    WorkInputs <- MCWorkInputs
    FocusCapacity = 1
    LeaseBurst = 1
    MaxGeneration = 1
    MaxSequence = 3
    MaxLease = 3
SPECIFICATION Spec
INVARIANTS IndexesAgree WorkConserved BackgroundBypassBounded
PROPERTIES ImplementsLedger
CHECK_DEADLOCK FALSE
