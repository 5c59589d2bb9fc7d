SPECIFICATION Spec
CONSTANTS
    owner = owner
    other = other
    s1 = s1
    s2 = s2
    op1 = op1
    op2 = op2
    op3 = op3
    op4 = op4
    Null = Null
    Actors = {owner, other}
    Sessions = {s1, s2}
    Operations = {op1, op2, op3, op4}
    Handlers = {h1}
    Owner <- MCOwner
    Target <- MCTarget
    Issuer <- MCIssuer
    Granted = {owner}
    WorkErrors = {"insufficient_funds"}
    FirstRevision = 0
    MaxRevision = 2
    MaxTime = 1
    MaxAttempts = 2
    MaxTimeouts = 0
    MaxCrashes = 1
SYMMETRY OperationSymmetry
CHECK_DEADLOCK FALSE
INVARIANTS TypeOK ConflictToldToOwner AlreadyProcessedNeedsRefresh
PROPERTIES ImplementsLedger ConflictIsFinal ObservedNeverGoesBack
