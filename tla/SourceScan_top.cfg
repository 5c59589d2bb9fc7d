SPECIFICATION Spec
CONSTANTS
    PathCount = 6
    Parent <- MCParent
    Fold <- MCFold
    Excluded = {4}
    Unsafe = {6}
    Contents <- MCContents
    InitialTrees <- MCTrees
    Faults = {"git", "read"}
    MaxFiles = 2
    MaxDirectories = 2
    MaxEdits = 0
CHECK_DEADLOCK FALSE
INVARIANT TrackedScanAnswers
