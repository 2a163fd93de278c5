CONSTANTS
    root = root
    directory = directory
    child = child
    file = file
    folderBrought = folderBrought
    Nothing = nothing
    Entries <- FolderAndChild
    Strangers = {file, folderBrought}
    Folders = {directory, folderBrought}
    Root = root
    Parent <- InFolder
    Plan <- ChildFirst
    Attempts = 2
    MaxChanges = 2
SPECIFICATION FairSpec
CHECK_DEADLOCK FALSE
INVARIANTS
    OnlyReviewedIsRemoved
    NothingIsLost
    OutcomeIsTrue
    FreedSpaceIsFree
    DescribedRemovalIsExact
    PrivateNamesAreRegistered
PROPERTIES
    RunEnds
