SPECIFICATION Spec
CONSTANTS
    Shells = {p1, p2}
    InitialZips = {"none"}
    InitialHomes = {"none"}
    Faults = {}
    MaxSignals = 0
CHECK_DEADLOCK FALSE
INVARIANT HomeIsTheDistribution
