CONSTANTS
    Processes = {"p", "q"}
    Dirs <- MCDirs
    Leftovers <- MCLeftovers
    Working <- MCWorking
    MaxCandidates = 2
    MaxFaults = 3
    Nobody = "nobody"
    Nowhere = "nowhere"
SPECIFICATION FairSpec
INVARIANTS LiveSessionIsWhole
PROPERTIES MarkerGoesLast DeadSessionsAreSwept
