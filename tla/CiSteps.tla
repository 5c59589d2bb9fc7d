------------------------------- MODULE CiSteps -------------------------------
(***************************************************************************)
(* The steps of the CI workflow before the publication gate, in their      *)
(* order: the toolchain, the policies, the build with its tests, and what  *)
(* is looked at of its outputs.  Each step is one process; the first that  *)
(* fails ends the job.  The toolchain's items may be changed all the time. *)
(*                                                                         *)
(* A step that reads a file, or a directory in one pass, is one action;    *)
(* the toolchain's has many, and verify_jdeps looks at the class files     *)
(* twice, which are two steps here.  A file that is changed before anybody *)
(* reads it is as good as found so at the step that does.                  *)
(***************************************************************************)
EXTENDS ToolchainVerifier, WorkflowParser, ReviewedDocuments

CONSTANTS
    ReviewedText, Texts,            \* .github/workflows/ci.yml, and what it may be
    ReviewedMetadata, Documents,    \* gradle/verification-metadata.xml likewise
    Outputs,        \* what a build may leave: [report, classes]
    OtherClasses    \* what may replace a class file

\* The reviewed files are what the verifiers were written for: a list item of the
\* workflow starts with a scalar, the first component lists an artifact.
ASSUME CiAssumption ==
    /\ Texts \subseteq Seq(WorkflowLine) /\ ReviewedText \in Texts
    /\ WorkflowAccepted(ReviewedText)
    /\ \A i \in DOMAIN ReviewedText : ReviewedText[i].dash => ReviewedText[i].value # ""
    /\ Documents \subseteq Seq(Component) /\ ReviewedMetadata \in Documents
    /\ MetadataExact(ReviewedMetadata)
    /\ ReviewedMetadata # <<>> /\ ReviewedMetadata[1].artifacts # <<>>
    /\ Zeros \in Digests \ {ReviewedMetadata[1].artifacts[1].checksums[1].value}
    /\ Outputs \subseteq [report : Seq(Seq(Suite)), classes : Seq(ClassFile)]
    /\ OtherClasses \subseteq ClassFile

Steps == <<"toolchain", "workflow", "metadata", "scan", "checks", "test", "report",
           "javadoc", "bytecode", "class_files", "jdeps", "publish">>

VARIABLES
    position,   \* the position in Steps
    failed,     \* this step has failed
    workflow, metadata, \* the files, as they were read
    outputs,    \* the build directory
    replaced    \* a class file was replaced after the bytecode step

files == <<workflow, metadata, outputs, replaced>>
ciVars == <<vars, position, failed, files>>

CiInit ==
    /\ Init
    /\ position = 1 /\ failed = FALSE
    /\ workflow = ReviewedText /\ metadata = ReviewedMetadata
    /\ outputs = [report |-> <<>>, classes |-> <<>>]
    /\ replaced = FALSE

At(name) == Steps[position] = name /\ ~failed
Past(name) == \E i \in 1..(position - 1) : Steps[i] = name
FailedAt(name) == Steps[position] = name /\ failed

\* A step that ends with status 0 makes place for the next.
Proceed(good) ==
    IF good THEN position' = position + 1 /\ UNCHANGED failed ELSE failed' = TRUE /\ UNCHANGED position

-----------------------------------------------------------------------------
VerifyToolchain == At("toolchain") /\ Verify /\ UNCHANGED <<position, failed, files>>

EndToolchain ==
    /\ At("toolchain") /\ pc \in Results
    /\ Proceed(pc = "valid")
    /\ UNCHANGED <<vars, files>>

AcceptedTexts == {t \in Texts : WorkflowAccepted(t)}
AcceptedDocuments == {d \in Documents : MetadataAccepted(d)}

\* verify_ci_workflow.py; of another manifest its own mutations may make no JSON.
VerifyWorkflow ==
    /\ At("workflow")
    /\ workflow' \in Texts
    /\ \/ Proceed(workflow' \in AcceptedTexts)
       \/ item["manifest"] = "other" /\ Proceed(FALSE)
    /\ UNCHANGED <<vars, metadata, outputs, replaced>>

\* verify_dependency_metadata.py
VerifyMetadata ==
    /\ At("metadata")
    /\ metadata' \in Documents
    /\ Proceed(metadata' \in AcceptedDocuments)
    /\ UNCHANGED <<vars, workflow, outputs, replaced>>

\* The source scan, which may answer or not (what it does is in SourceScan: at the
\* top of the repository it does not); the self-tests and the two clean checks,
\* whose outputs are removed before anybody reads them; javadoc, that finds the
\* classes up to date.
OtherStep ==
    /\ At("scan") \/ At("checks") \/ At("javadoc")
    /\ \E good \in BOOLEAN : Proceed(good)
    /\ UNCHANGED <<vars, files>>

\* gradlew clean test --rerun-tasks
RunTests ==
    /\ At("test")
    /\ \/ Proceed(FALSE) /\ UNCHANGED outputs
       \/ Proceed(TRUE) /\ outputs' \in Outputs
    /\ UNCHANGED <<vars, workflow, metadata, replaced>>

\* verify_test_report.py
VerifyReport ==
    /\ At("report")
    /\ Proceed(ReportAccepted(outputs.report))
    /\ UNCHANGED <<vars, files>>

\* verify_bytecode.py
VerifyBytecode ==
    /\ At("bytecode")
    /\ Proceed(BytecodeAccepted(outputs.classes))
    /\ UNCHANGED <<vars, files>>

\* verify_jdeps.py looks at the files itself
ListClassFiles ==
    /\ At("class_files")
    /\ Proceed(FilesRegular(outputs.classes))
    /\ UNCHANGED <<vars, files>>

\* and then runs the jdeps that is in JAVA_HOME now.  Another one may say anything,
\* and so may any that finds no regular file.
RunJdeps ==
    /\ At("jdeps")
    /\ \/ item["jdeps"] = "reviewed" /\ Proceed(JdepsAccepted(outputs.classes))
       \/ item["jdeps"] = "other" /\ Proceed(TRUE)
       \/ (item["jdeps"] # "reviewed" \/ ~FilesRegular(outputs.classes)) /\ Proceed(FALSE)
    /\ UNCHANGED <<vars, files>>

Job == VerifyToolchain \/ EndToolchain \/ VerifyWorkflow \/ VerifyMetadata \/ OtherStep
       \/ RunTests \/ VerifyReport \/ VerifyBytecode \/ ListClassFiles \/ RunJdeps

-----------------------------------------------------------------------------
(* Around the steps *)

EditItem ==
    /\ ~failed
    /\ \E i \in Items \ {"home"}, condition \in Conditions : Edit(i, condition)
    /\ UNCHANGED <<position, failed, files>>

\* Before the one look of verify_jdeps or before the other.
ReplaceClass ==
    /\ At("class_files") \/ At("jdeps")
    /\ ~replaced
    /\ replaced' = TRUE
    /\ \E i \in DOMAIN outputs.classes, class \in OtherClasses :
          outputs' = [outputs EXCEPT !.classes[i] = class]
    /\ UNCHANGED <<vars, position, failed, workflow, metadata>>

CiNext == Job \/ EditItem \/ ReplaceClass

CiSpec == CiInit /\ [][CiNext]_ciVars

\* Every command and every request of the toolchain step has a timeout: it goes
\* on.  (Nothing is asked of the other steps.)
CiFairSpec == CiSpec /\ WF_vars(Verify)

-----------------------------------------------------------------------------
(* Properties *)

\* "Parse and fail closed on any change": a workflow that passes says line by
\* line what the reviewed one says; and the reviewed one passes.
SameTexts == {t \in Texts : SameWorkflow(t, ReviewedText)}
WorkflowFailsClosed ==
    /\ Past("workflow") => workflow \in SameTexts
    /\ FailedAt("workflow") => workflow # ReviewedText \/ item["manifest"] = "other"

\* What metadata list, but for where a digest comes from and what a checksum has
\* below it.
ListedArtifacts(artifacts) ==
    [i \in DOMAIN artifacts |->
        [name |-> artifacts[i].name,
         digests |-> [k \in DOMAIN artifacts[i].checksums |-> artifacts[i].checksums[k].value]]]
Listing(document) ==
    [i \in DOMAIN document |->
        [key |-> document[i].key, artifacts |-> ListedArtifacts(document[i].artifacts)]]

OriginsReviewed(document) ==
    \A i \in DOMAIN document : \A j \in DOMAIN document[i].artifacts :
        LET checksums == document[i].artifacts[j].checksums
        IN  \A k \in DOMAIN checksums : checksums[k].origin \in ReviewedOrigins

\* Metadata pass if and only if they list the reviewed components, artifacts and
\* digests, in their order and each once, and all digests are of an origin that is
\* reviewed: though a name that came twice would be overwritten before the
\* comparison.  (Which origin it is, and what else a checksum trusts, is not
\* compared.)
MetadataListsGraph ==
    LET asReviewed == Listing(metadata) = Listing(ReviewedMetadata) /\ OriginsReviewed(metadata)
    IN  (Past("metadata") => asReviewed) /\ (FailedAt("metadata") => ~asReviewed)

\* The tests that have run, by file, suite and case; and what they say is all well.
TestsRun(report) ==
    UNION {UNION {{<<i, j>>} \X DOMAIN report[i][j].cases : j \in DOMAIN report[i]}
             : i \in DOMAIN report}
AllPassed(report) ==
    \A i \in DOMAIN report : \A j \in DOMAIN report[i] :
        \A k \in DOMAIN report[i][j].cases : report[i][j].cases[k] = {}

\* "A zero-failure test report": past the report exactly the expected number of
\* tests have run, and every one of them passed; a report is refused only when
\* that is not so, or not what it declares.
ReportCountsPasses ==
    LET report == outputs.report
        allWell == AllPassed(report) /\ Cardinality(TestsRun(report)) = ExpectedTests
    IN  /\ Past("report") => allWell
        /\ FailedAt("report") =>
              \/ Len(report) \notin 1..MaxReportFiles \/ ~allWell
              \/ \E i \in DOMAIN report :
                    \/ report[i] = <<>>
                    \/ \E j \in DOMAIN report[i] :
                          \/ report[i][j].declared # [mark \in Marks |-> 0]
                          \/ report[i][j].tests # Len(report[i][j].cases)

DependOnBaseOnly(classes) ==
    \A i \in DOMAIN classes : classes[i].modules \subseteq {"java.base"}

\* The bytes of all class files, by file and position.
Bytes(classes) == UNION {{i} \X (1..classes[i].size) : i \in DOMAIN classes}

\* Past jdeps the classes of the build that was tested (the publication is built
\* anew) depend on java.base only, in whatever state they were when jdeps ran, if
\* jdeps was not changed after it was verified; and they are regular files, within
\* the limit and compiled for Java 17, if none was replaced after verify_bytecode
\* had looked, for jdeps tells nothing of that.
ClassesAreSound ==
    LET classes == outputs.classes IN
    Past("jdeps") =>
        /\ "jdeps" \notin touched => DependOnBaseOnly(classes)
        /\ ~replaced =>
              /\ Cardinality(Bytes(classes)) <= MaxClassBytes
              /\ \A i \in DOMAIN classes : classes[i].regular /\ classes[i].major = 61
=============================================================================
