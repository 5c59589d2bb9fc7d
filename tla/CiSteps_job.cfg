SPECIFICATION CiFairSpec
CONSTANTS
    Archive <- MCArchive
    Chunks = {"p", "q"}
    MaxArchive = 3
    Attempts = 2
    InitialItems <- MCInitialItems
    MaxEdits = 1
    ScalarOf <- MCScalarOf
    Unreadable <- MCUnreadable
    UnsafeCommands <- MCUnsafeCommands
    Workflow <- MCWorkflow
    MaxLines = 20
    Mutations <- MCMutations
    Graph <- MCGraph
    Digests = {"d1", "d2", "d3", "zeros"}
    Malformed = "bad"
    Zeros = "zeros"
    ExpectedTests = 2
    MaxReportFiles = 2
    MaxClassFiles = 2
    MaxClassBytes = 4
    ReviewedText <- MCReviewedText
    Texts <- MCTexts
    ReviewedMetadata <- MCReviewedMetadata
    Documents <- MCDocuments
    Outputs <- MCOutputs
    OtherClasses <- MCOtherClasses
INVARIANTS
    TypeOK
    DownloadedExact
    StableFlawRefused
    RefusedForCause
    WorkflowFailsClosed
    MetadataListsGraph
    ReportCountsPasses
    ClassesAreSound
PROPERTIES
    ToolchainDecided
CHECK_DEADLOCK FALSE
