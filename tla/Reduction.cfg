CONSTANTS
    Dirs <- MCDirs
    Slots <- MCSlots
    Batches <- MCBatches
    Linkings <- MCLinkings
    Bytes <- MCBytes
    FanIn = 2
    Levels = 3
    UnreadableCap = 1
    MaxOddities = 2
    MaxVanished = 1
SPECIFICATION Spec
INVARIANTS MapIsTrue OverlayIsRescan
CHECK_DEADLOCK FALSE
