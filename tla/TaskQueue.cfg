CONSTANTS
    Tasks = {"root", "a", "b", "c", "d"}
    Root = "root"
    SizeOf <- MCSizeOf
    Capacity = 1
    Chunk = 3
    Limit = 14
    DbLengths = {0, 2}
SPECIFICATION Spec
INVARIANTS JournalIsWhole SpillIsProportionate QuotaIsExact
CHECK_DEADLOCK FALSE
