SPECIFICATION Spec
CONSTANTS
    owner = owner
    other = other
    s1 = s1
    s2 = s2
    op1 = op1
    op2 = op2
    op3 = op3
    op4 = op4
    Null = Null
    Actors = {owner, other}
    Sessions = {s1}
    Operations = {op1, op2}
    Handlers = {h1, h2}
    Owner <- MCOwner
    Target <- MCTarget
    Issuer <- MCIssuer
    Granted = {owner}
    WorkErrors = {"insufficient_funds"}
    FirstRevision = 0
    MaxRevision = 2
    MaxTime = 0
    MaxAttempts = 2
    MaxTimeouts = 1
    MaxCrashes = 0
CHECK_DEADLOCK FALSE
SYMMETRY HandlerSymmetry
INVARIANTS RevisionsTakenOnce AuditTrail AppliedIsCommitted
