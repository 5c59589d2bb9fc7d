SPECIFICATION Spec
CONSTANTS
    good1 = good1
    good2 = good2
    Keys = {good1, good2, badKey}
    ValidKeys = {good1, good2}
    Values = {text, tooLong}
    ValidValues = {text}
    Absent = Absent
    MaxFields = 1
    MaxRevision = 1
    MaxMutations = 2
SYMMETRY GoodKeySymmetry
INVARIANTS NeverUpdatedAndRemoved ValuesValid UntouchedPublished AcceptedWhenQuiet
CHECK_DEADLOCK FALSE
