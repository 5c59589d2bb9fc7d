SPECIFICATION FairSpec
CONSTANTS
    owner = owner
    other = other
    s1 = s1
    s2 = s2
    op1 = op1
    op2 = op2
    op3 = op3
    op4 = op4
    Null = Null
    Actors = {owner, other}
    Sessions = {s1}
    Operations = {op1, op2}
    Handlers = {h1}
    Owner <- MCOwner
    Target <- MCTarget
    Issuer <- MCIssuer
    Granted = {owner}
    WorkErrors = {"insufficient_funds"}
    FirstRevision = 0
    MaxRevision = 2
    MaxTime = 0
    MaxAttempts = 3
    MaxTimeouts = 0
    MaxCrashes = 1
CHECK_DEADLOCK FALSE
PROPERTIES EveryOperationSettles
