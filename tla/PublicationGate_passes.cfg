SPECIFICATION Spec
CONSTANTS
    main = main
    c1 = c1
    c2 = c2
    bad = bad
    Jars <- MCJars
    Variants <- MCVariants
    Pom = Pom
    Module = Module
    Sbom = Sbom
    Contents = {c1, c2, bad}
    Valid = {c1, c2}
    Clean <- MCClean
    Metadata <- MCMetadata
    Absent = Absent
    Torn = Torn
    Faults = {"build", "changed"}
    MaxReplacements = 2
    MaxKills = 1
CHECK_DEADLOCK FALSE
INVARIANTS TypeOK MatchedIsReproduced MetadataNamesArchives ExactWhenQuiet
