-------------------------- MODULE ReviewedDocuments --------------------------
(***************************************************************************)
(* What verify_dependency_metadata.py, verify_test_report.py,              *)
(* verify_bytecode.py and verify_jdeps.py make of what they read.          *)
(*                                                                         *)
(* Names that are compared in order are numbers.                           *)
(***************************************************************************)
EXTENDS Integers, Sequences, FiniteSets

CONSTANTS
    Graph,          \* EXPECTED: the digest of each artifact of each component
    Digests,        \* SHA-256 values
    Malformed,      \* what is none
    Zeros,          \* the one that the self-test puts in the place of another
    ExpectedTests,  \* --expected-tests
    MaxReportFiles, \* MAX_REPORT_FILES
    MaxClassFiles, MaxClassBytes    \* MAX_CLASS_FILES, MAX_CLASS_BYTES

ASSUME LimitsAssumption ==
    /\ ExpectedTests \in Nat \ {0}
    /\ MaxReportFiles \in Nat /\ MaxClassFiles \in Nat /\ MaxClassBytes \in Nat

-----------------------------------------------------------------------------
(***************************************************************************)
(* Dependency metadata: a sequence of components [key, artifacts], each    *)
(* with a sequence of artifacts [name, checksums].  A checksum says where  *)
(* its value comes from and may have children, which name other digests    *)
(* to trust as well.                                                       *)
(***************************************************************************)
Checksum ==
    [value : Digests \cup {Malformed}, origin : STRING, also : SUBSET Digests]
Component == [key : Int, artifacts : Seq([name : Int, checksums : Seq(Checksum)])]

ReviewedOrigins == {"Generated by Gradle", "Verified from Maven Central download"}

\* A name may come twice in a row.
InOrderWeakly(names) == \A i \in 2..Len(names) : names[i - 1] <= names[i]

InOrder(names) == \A i \in 2..Len(names) : names[i - 1] < names[i]

Names(artifacts) == [i \in DOMAIN artifacts |-> artifacts[i].name]

\* values[name] = ...: of several artifacts of one name the last one counts.
Values(artifacts) ==
    [name \in {artifacts[i].name : i \in DOMAIN artifacts} |->
        LET last == CHOOSE i \in DOMAIN artifacts :
                      /\ artifacts[i].name = name
                      /\ \A j \in DOMAIN artifacts : artifacts[j].name = name => j <= i
        IN  artifacts[last].checksums[1].value]

\* Nobody looks at the children of a checksum.
ComponentSound(component) ==
    /\ InOrder(Names(component.artifacts))
    /\ \A i \in DOMAIN component.artifacts :
          LET checksums == component.artifacts[i].checksums
          IN  /\ Len(checksums) = 1
              /\ checksums[1].value \in Digests /\ checksums[1].origin \in ReviewedOrigins

\* actual[key] = values
GraphOf(document) ==
    [key \in {document[i].key : i \in DOMAIN document} |->
        Values(document[CHOOSE i \in DOMAIN document : document[i].key = key].artifacts)]

\* _verify_tree
MetadataExact(document) ==
    /\ \A i \in 2..Len(document) : document[i - 1].key < document[i].key
    /\ \A i \in DOMAIN document : ComponentSound(document[i])
    /\ GraphOf(document) = Graph

\* The changes of _negative_self_test: a tampered checksum, another version, a
\* component nobody approved.  (The deletion leaves no XML.)
Tampered(document) ==
    LET component == document[1] IN
    {[document EXCEPT ![1].artifacts[1].checksums[1].value = Zeros],
     [document EXCEPT ![1].key = @ + 1],
     Append(document, [key |-> document[Len(document)].key + 1, artifacts |-> <<>>])}

MetadataAccepted(document) ==
    MetadataExact(document) /\ \A tampered \in Tampered(document) : ~MetadataExact(tampered)

-----------------------------------------------------------------------------
(***************************************************************************)
(* Test reports: a sequence of files, each a sequence of suites, each with *)
(* the results it declares and its test cases; a case is the set of what   *)
(* went wrong with it.                                                     *)
(***************************************************************************)
Marks == {"failure", "error", "skipped"}
Suite == [tests : Nat, declared : [Marks -> Nat], cases : Seq(SUBSET Marks)]

Marked(suite, mark) == {i \in DOMAIN suite.cases : mark \in suite.cases[i]}

\* Only the number of the tests is compared.
SuiteAgreesInNumber(suite) == suite.tests = Len(suite.cases)

SuiteAgrees(suite) ==
    /\ suite.tests = Len(suite.cases)
    /\ \A mark \in Marks : suite.declared[mark] = Cardinality(Marked(suite, mark))

\* A running total, from zero.
SumOf(counts) ==
    LET total[i \in 0..Len(counts)] == IF i = 0 THEN 0 ELSE total[i - 1] + counts[i]
    IN  total[Len(counts)]

\* What each file adds to the totals.
TestsIn(file) == SumOf([i \in DOMAIN file |-> file[i].tests])
MarkedIn(file, mark) == SumOf([i \in DOMAIN file |-> file[i].declared[mark]])

\* verify_report
ReportAccepted(files) ==
    /\ Len(files) \in 1..MaxReportFiles
    /\ \A i \in DOMAIN files :
          files[i] # <<>> /\ \A j \in DOMAIN files[i] : SuiteAgrees(files[i][j])
    /\ SumOf([i \in DOMAIN files |-> TestsIn(files[i])]) = ExpectedTests
    /\ \A mark \in Marks : SumOf([i \in DOMAIN files |-> MarkedIn(files[i], mark)]) = 0

-----------------------------------------------------------------------------
(***************************************************************************)
(* Class files: a sequence of [regular, size, major, modules], the modules *)
(* being those the class depends on.                                       *)
(***************************************************************************)
ClassFile == [regular : BOOLEAN, size : Nat, major : Nat, modules : SUBSET STRING]

ClassFilesListed(classes) == Len(classes) \in 1..MaxClassFiles

\* The size of one file is compared with the limit, not that of all.
BytesLeftAlone(classes, i) == classes[i].size <= MaxClassBytes

BytesLeft(classes, i) ==
    SumOf([j \in 1..i |-> classes[j].size]) <= MaxClassBytes

\* verify_classes; a file that is no class file has no major version.
BytecodeAccepted(classes) ==
    /\ ClassFilesListed(classes)
    /\ \A i \in DOMAIN classes :
          classes[i].regular /\ BytesLeft(classes, i) /\ classes[i].major = 61

\* What verify_jdeps looks at itself before it runs jdeps.
FilesRegular(classes) ==
    ClassFilesListed(classes) /\ \A i \in DOMAIN classes : classes[i].regular

ModulesOf(classes) == UNION {classes[i].modules : i \in DOMAIN classes}

\* What it makes of a jdeps that tells the truth.
JdepsAccepted(classes) == ModulesOf(classes) = {"java.base"}
=============================================================================
