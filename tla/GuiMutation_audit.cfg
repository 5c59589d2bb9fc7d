SPECIFICATION Spec
CONSTANTS
    owner = owner
    other = other
    s1 = s1
    s2 = s2
    op1 = op1
    op2 = op2
    op3 = op3
    op4 = op4
    Null = Null
    Actors = {owner, other}
    Sessions = {s1, s2}
    Operations = {op1, op2, op3}
    Handlers = {h1}
    Owner <- MCOwner
    Target <- MCTarget
    Issuer <- MCIssuer
    Granted = {owner}
    WorkErrors = {}
    FirstRevision = 0
    MaxRevision = 1
    MaxTime = 1
    MaxAttempts = 2
    MaxTimeouts = 1
    MaxCrashes = 1
CHECK_DEADLOCK FALSE
INVARIANT CommitIsAudited
