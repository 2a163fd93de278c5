CONSTANTS
    Workers = {w1, w2}
    Folders = {"root", "a"}
    Root = "root"
    Parts <- MCParts
    None = None
    CommandCapacity = 1
    InboxCapacity = 1
    MaxCauses = 1
SPECIFICATION FairSpec
INVARIANTS FinishIsComplete FailureHasCause
PROPERTIES ScanEnds
CHECK_DEADLOCK FALSE
