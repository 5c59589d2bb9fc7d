SPECIFICATION Spec
CONSTANTS
    PathCount = 6
    Parent <- MCParent
    Fold <- MCFold
    Excluded = {4}
    Unsafe = {6}
    Contents <- MCContents
    InitialTrees <- MCTrees
    Faults = {"git", "read"}
    MaxFiles = 2
    MaxDirectories = 2
    MaxEdits = 1
CHECK_DEADLOCK FALSE
INVARIANTS TypeOK ExactWhenQuiet StableFlawReported CollisionsReported
