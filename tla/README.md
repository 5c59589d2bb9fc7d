# A TLA+ model of reality-core

reality-core is the shared core of a set of Java server components: the value
types they exchange, the envelope a GUI mutation passes through, and the scripts
that decide whether a checkout may be built and published.  This directory
models the parts of it that have behaviour: state that several actors touch,
steps that something can come between, decisions whose order matters.  TLC
checks the models on small instances; TLAPS proves the most important invariants
for every value of the constants.

Paths below are relative to the root of the repository (`src/` in
`PROJECT.json`).  `PROJECT.json` lists the components, the runs, the definition
of the model each piece of code is translated to (`map`), the hazards, the
findings, the theorems, and for each checked property a mutated definition that
breaks it.

## 1. The system

### 1.1 Components

| Component | Code | State | Operations |
|---|---|---|---|
| GUI mutation boundary | `GuiSession`, `MutationRequestMetadata`, `Revision`, `ErrorCode`, `Result`, `AuthorizationPort`, `UnitOfWork`, `DomainEventEnvelope` | immutable session values, reissued at the next revision; whatever the adapters store | open, validate, isExpired, next, decide, execute, envelope |
| GUI payloads | `GuiSnapshot`, `GuiDelta`, `GuiFieldValidation` | the caller's collections, read several times; the copies | the constructors |
| GUI synchronisation | `GuiSnapshot`, `GuiDelta`, `Revision` | a snapshot at a revision, deltas between revisions | no code here: left to adapters |
| Structured errors, permissions | `ErrorInfo`, `Permission`, `PermissionSet` | defensive copies | constructors, lookups |
| Money and versions | `Money`, `CurrencyCode`, `SchemaVersion` | none | exact arithmetic, order |
| Opaque identities | `identity/*`, `LocaleTag`, `EventType` | none | one pattern match each |
| Gradle launcher | `gradlew` | the cached ZIP, the unpacked home, per-process downloads | find, download, verify, install, unpack, move, check, exec |
| Public source scan | `scripts/public_source_scan.py` | the tree on disk (or git's index), the findings, the table of folded paths | list, look, measure, read, judge |
| Publication gate | `scripts/verify_publication.py`, `verify_runtime_sbom.py`, `verify_reproducible_outputs.py`, `verify_reproducible_sbom.py`, the last four steps of `.github/workflows/ci.yml` | the build directory, two state files of hashes | build, validate, record, compare |
| Toolchain verifier | `scripts/verify_toolchain.py` | the attempt, the digest and the size read so far | look at manifest, `JAVA_HOME`, tools, archive and HEAD; download in two attempts |
| CI workflow verifier | `scripts/verify_ci_workflow.py` | the position in the text | parse line by line, compare, mutate |
| Dependency and report validators | `verify_dependency_metadata.py`, `verify_test_report.py` | none | order, overwrite and compare digests; count and add results |
| Bytecode and jdeps validators | `verify_bytecode.py`, `verify_jdeps.py` | the class files, looked at twice | count bytes, look at versions; run `jdeps` |
| CI steps | `.github/workflows/ci.yml` | the step, the build directory | run each of the above, stop at the first that fails |
| Gradle build, Windows launcher | `build.gradle`, `gradlew.bat` | - | declarative; no download |

### 1.2 How they interact

The Java library has no threads, no storage and no transport of its own.  A
server built on it has them all: it keeps the current `GuiSession` of each
session, takes deliveries from connections on several threads, and calls the
library in the order the README's example and `CoreContractIntegrationTest`
show: `GuiSession.validate`, then `AuthorizationPort.authorize`, then
`UnitOfWork.execute`, then `DomainEventEnvelope.of`.  What the library decides
(the verdict of a validation, which revision comes next, what a failing result
carries, what a client may retry) is what keeps these calls correct when they
interleave; that is the interaction `GuiMutation` models.  The payload
constructors share mutable collections with their caller.

The scripts share files.  Several runs of `gradlew` share one cache directory;
the scanner reads a tree that an editor may change; the workflow's last steps
hand files from a build to a validator to a recorder and from one pass to the
next through a state file.  The steps before them hand a toolchain from its
verifier to those who run it, and class files from the tests to two validators.

### 1.3 What is hard, and what makes each part correct

* **Boundary.** Requests are lost, delayed, delivered twice and retried under
  new request ids; two handlers validate against the same immutable value; a
  handler dies between two calls; revisions end at `Long.MAX_VALUE`.  That an
  operation is committed at most once is up to the adapter's idempotency store.
  Given that, correct means: every revision is taken by exactly one commit; an
  audit envelope belongs to exactly one commit by the authorized owner; a
  failing request learns the revision only when it comes from the owner; a
  client that follows the retry guidance settles.
* **Payloads.** The constructors read the caller's collections up to five times.
  Correct means: what is published is what was checked.
* **Launcher.** Concurrent shells, a download that is cut, signals that run the
  trap in the middle of the script, crashes; a home that was there before and is
  asked for nothing but its version.  Correct means: a home that a launcher
  unpacked is that of a verified ZIP, and nothing a run leaves behind blocks the
  next one.
* **Scan.** Files are listed, looked at, measured and read in four steps; where
  git lists them, its paths are compared with the place of the root in the
  worktree.  Correct means: there is a result for files that are in order;
  without changes it is exact; with changes, a file that is left alone does not
  escape.
* **Gate.** A file is looked at up to four times by two scripts, which ask
  different things of it; a recorded state file may be missing, old or cut
  short.  Correct means: what matches was built twice alike and is sound, and
  the metadata names the published archives.
* **Toolchain.** A server may cut a body short, send something else or never
  end, in either attempt; a tool may be exchanged between the look at it and its
  run.  Correct means: an accepted download is one whole response; an item that
  is left alone is looked at; there is a result in the end; and a refusal has a
  cause outside the verifier.
* **CI steps.** Validators compare what a parser *made* of a file, so what the
  parser drops or merges may be lost: lines after the outermost block, artifacts
  of one name, totals that cancel out, children of an element.  Correct means: a
  workflow that passes says what the reviewed one says, and metadata that pass
  list what was reviewed; the reviewed files pass; and the class files of the
  tested build are in order although two validators look at them three times.

## 2. The modules

| Module | Contents | Extends |
|---|---|---|
| `MutationLedger` | what the boundary promises: each operation applied at most once, in one step, at the revision it names | |
| `GuiMutation` | the boundary with clients, network and handlers | (INSTANCE of `MutationLedger`) |
| `MCGuiMutation` | owners, targets and symmetry for TLC | `GuiMutation` |
| `GuiMutationProofs` | nine theorems, one of them the refinement | `GuiMutation` |
| `GuiPayload`, `MCGuiPayload`, `GuiPayloadProofs` | construction of snapshots and deltas | |
| `GradleLauncher`, `MCGradleLauncher`, `GradleLauncherProofs` | the script, for any number of shells | |
| `SourceScan`, `MCSourceScan`, `SourceScanProofs` | listing and scanning | |
| `PublicationGate`, `MCPublicationGate`, `PublicationGateProofs` | the last four workflow steps | |
| `ToolchainVerifier`, `ToolchainVerifierProofs` | the toolchain step | |
| `WorkflowParser`, `WorkflowParserProofs` | the parser and the comparison of the workflow, as functions | |
| `ReviewedDocuments` | what the four other validators decide, as operators | |
| `CiSteps` | the job up to the publication gate: composes the three above | `ToolchainVerifier`, `WorkflowParser`, `ReviewedDocuments` |
| `MCCiSteps` | a short workflow, two components, a few builds, and all that is a small change away | `CiSteps` |
| `CiStepsProofs` | the job runs the verifier; what each step's acceptance means | `CiSteps`, `ToolchainVerifierProofs`, `WorkflowParserProofs` |

In each component module the constants come first, with one named assumption;
then the variables, `TypeOK` and `Init`; then one action per operation; then
`Next` and the specifications; then the properties.  A definition that stands in
front of another one and has the same parameters (`NextRevisionWrapping` before
`NextRevision`) is a mistake somebody could make there: `PROJECT.json` names the
property that tells it from the right one.  It takes no part in the
specification.

### 2.1 `GuiMutation`: state and actions

| Model | Code |
|---|---|
| `Open`, `IsExpired`, `Validate` | `GuiSession.open` and the private constructor, `isExpired`, `validate`, with the early returns in their order |
| `NextRevision` | `Revision.next`; `Null` is its `ArithmeticException` |
| `ErrorCode`, `RetryableByDefault` | the constants of `ErrorCode` and the flag of each |
| `Success`, `Failure`, `FailureWith`, `Outcome` | `Result` and `ErrorInfo`: a failing result ends the call |
| `Metadata` | the fields of `MutationRequestMetadata` |
| `Authorize` | `AuthorizationDecision.asResult` of the port's answer |
| `ValidateStep`, `AuthorizeStep`, `Commit`/`Abort`, `Emit`, `Reply` | the calls of a handler, in the order of `CoreContractIntegrationTest` |
| `Send`, `Timeout`, `Answered` | a client and the retry guidance |
| `Receive`, `Tick`, `Crash` | transport, clock, server: external |

`handler[h].session` is the session *value* taken with the delivery.
`GuiSession` is immutable, so the handler goes on with that value while
`session` moves on: this is the window all the interleavings are about.
`Receive` may yield another session than the request names, and no actor at all
(an unauthenticated connection), because `validate` has a test for each; and the
server may pass no time, which `validate` answers `malformed_request` like the
other two.

External behaviour follows the repository's documents: the idempotency store is
keyed by the `OperationId` and asked within the transaction
(`MutationRequestMetadata`'s comment), a commit reissues the session at the next
revision, a packet may be taken any number of times.  The transaction's work may
fail with any code of `WorkErrors`.  `revision_conflict` and
`operation_already_processed` are not among these: the boundary itself gives
them their meaning, and a work that used them for something else would tell the
client what is not so.  `copyParameters` of `ErrorInfo` is not translated: the
model's parameters are two numbers.

### 2.2 `GuiPayload`

`pc` is the next read of the caller's collections: `valuesSize`, `values` (one
turn of `forEach` per step), `keysSize`, `keys`, `keysCopy`, `disjoint`.  `Put`
and `ToggleRemoved` are the caller's other thread.  The collections are weakly
consistent (such as `ConcurrentHashMap`): an iteration reaches each key once and
sees it as it is then.  An iteration that throws
`ConcurrentModificationException` publishes nothing and is not modelled.
Streamer mode, screen and locale take no part in any decision but the null
checks; `args.complete` stands for these.

### 2.3 `GradleLauncher`

`pc[p]` is the command shell `p` is at.  `zip`, `home`, `nested` are the shared
files, `download[p]`, `extract[p]` its own, named with `$$`; a process id is
used once.  A home may be missing, without an executable `bin/gradle`
(`incomplete`), with one that is another version (`other`), with one that
reports 8.8 but is not what the ZIP contains (`altered`), or `whole`: `FindHome`
asks for the executable and `VerifyHome` for the version, so an `altered` home
is run.  `found` remembers what was there before the first run, for
`RunsVerified`.  `Fail` is `set -e` with the `EXIT` trap, which removes the
download while it is armed; `Trap` is `HUP`/`INT`/`TERM`, after which the
script, which does not exit in its trap, goes on.  `MoveHome` has the three
outcomes of `mv`: rename, move into a directory that has appeared, or fail.

`calm` is chosen at the start: the runs of a calm behaviour follow one another,
and nothing but a signal goes wrong (`MayFail`).  What one run leaves to the
next is asked there; everything else is asked of all behaviours.

### 2.4 `SourceScan`

A path is its place in the sorted order of all paths.  `Enumerate` is one turn
of the directory walk, `ListTracked` is `git ls-files` with the tests of the
paths it lists; `atTop` says that the root of a tracked scan is the top of the
worktree, where the prefix is `./` and no path of git's has it (`OutsideRoot`).
`Look`, `Size`, `Read` are the tests of one file in the order of the script,
each reading the tree anew; `Edit` replaces what is at one path, a directory
included.  The content checks of one file (extension, magic, encoding, secrets)
are one flaw, except the two POSIX path patterns, whose `search` and exceptions
`PathReported` translates.  What a symbolic link points to is gone.

### 2.5 `PublicationGate`

`stage` is the workflow step, `pc` the read or write it is at.  `Build` leaves
any contents in the archives, the POM and the SBOM, and any of `Metadata` as
module metadata: whether they are right is for the validators to say.
`VerifyPom`, `ReadModule`, `CheckVariant` are `verify_publication`; `VerifySbom`
is `verify_runtime_sbom`; `Read`, `Validate`, `Hash` are the recorder's three
looks at one file; `Truncate` and `Write` are the two halves of `write_text`;
`Compare` is the second pass.  `Replace` is another process.  `Kill` stops a
step anywhere, and `Repeat` goes on with *any* of the four steps: so a
comparison meets a state file that is missing, cut short, or of an earlier pass.
Only a step that was killed is followed by another; one that rejects ends the
workflow.

A content stands for its digest.  The validator and the recorder ask different
things of a file: `Valid` is what `verify_publication` and `verify_runtime_sbom`
ask of POM and SBOM and the recorder of an archive; of POM and metadata the
recorder only asks that the text be `Clean` (no paths, keys, timestamps, control
bytes).  Canonical metadata are in `Documents`, and have one digest for each
*variant*, not for each archive.  The archives are those of `build/libs`, which
is where both scripts look; the copies staged for publication beside the POM are
looked at by nobody, in the code as in the model.

A change in the middle of one read is either not seen by it or noticed
(`changed while being read`).  The earlier steps of the workflow are `CiSteps`;
the builds here begin with `clean` and take nothing from them.

### 2.6 `ToolchainVerifier`

`pc` is the look, or the state of the download, and at the end the result:
`valid`, `invalid`, or `traceback` for an exception nobody catches.  `item` is
what somebody else may change: the manifest, the tools, the archive, HEAD; each
is as reviewed, something else, or missing (a tool that resolves to a place
outside `JAVA_HOME/bin` counts as missing).  `CheckPath` and `RunTool` are the
two loops over the tools, one turn per step.  `Request`, `ReadChunk`,
`EndOfBody`, `ConnectionLost` and `MalformedAnswer` are an attempt of
`_download_and_verify`; the server is the choice between them, and of the chunk.
A chunk has size 1, and the digest is the sequence of chunks digested.  `served`
and `offered` remember what the server did and take part in no guard.

### 2.7 `WorkflowParser`, `ReviewedDocuments` and `CiSteps`

A line of the workflow is a record of its indentation, its dash, its key, its
colon (with a space after it or without) and the rest.  A mapping takes both
colons for the same, a literal block keeps the line as it is.  `Parse` is
`_block`, `_map` and `_list` as one recursive function of the line: `BlockAt`
says what the block that starts at a line is, given the blocks that start
further down, from its parts, the value after the key (`ValueAt`: a literal
block, a scalar, a nested block or nothing), what is below a dash (`BelowAt`)
and the rest of the block (`RestAt`).  It yields a tree and the line where it
stopped, which `Complete` compares with the number of lines.  `Exact` is the
comparison with `_expected_workflow`, `Replace` one change of
`_negative_self_test`.  `SameWorkflow` says without a parser what a text that
passes must be: line by line the same key, value and parent.

In `ReviewedDocuments`, a `Checksum` is a value, its origin and the values its
children trust as well; `ComponentSound` asks the origin to be one of two and
nothing of the children.  `Values` is the dictionary a loop of assignments
leaves (the last artifact of a name counts), `MetadataExact` is `_verify_tree`,
`SuiteAgrees` and `ReportAccepted` are the two levels of the report's totals,
`BytesLeft` the count of bytes file by file.

In `CiSteps`, `position` is the step of `ci.yml`, `failed` that it has ended
with an error.  The toolchain step is `ToolchainVerifier`'s, action for action;
each other step is one action, because it reads a file, or a directory in one
pass; but for `verify_jdeps.py`, which lists the class files (`ListClassFiles`)
and then has `jdeps` look at the directory (`RunJdeps`).  `RunTests` leaves any
outputs; `EditItem` changes a tool at any time, `ReplaceClass` one class file
before either look of `verify_jdeps.py`, after `verify_bytecode.py` had its own.
The `jdeps` that is run is the one that is there *then*, and one that is not the
reviewed one may say anything.  The scan step may answer or not: finding 4 says
that the repository's own call never does, and the job goes on here as if it
did, or nothing could be said of the steps behind it.

## 3. What the runs check

Every run that is expected to pass is exhaustive.

| Run | Instance | Properties |
|---|---|---|
| `mutation_concurrent` | 2 handlers, 2 operations of one owner on one session, 2 attempts each, 1 timeout, work that may fail | `RevisionsTakenOnce`, `AuditTrail`, `AppliedIsCommitted` |
| `mutation_serial` | 1 handler, 4 operations (one from another actor's connection), 2 attempts each, 2 sessions, expiry, 1 crash, revisions up to 2 | `TypeOK`, `ConflictToldToOwner`, `AlreadyProcessedNeedsRefresh`, `ImplementsLedger`, `ConflictIsFinal`, `ObservedNeverGoesBack` |
| `mutation_live` | 1 handler, 2 operations, 3 attempts, 1 crash, fairness | `EveryOperationSettles` |
| `mutation_audit` | 1 handler, 3 operations, 1 timeout, 1 crash | `CommitIsAudited` is violated (finding 1) |
| `payload_race` | 3 keys (one invalid), 2 values (one invalid), a limit of 1 field, 2 writes | `NeverUpdatedAndRemoved`, `ValuesValid`, `UntouchedPublished`, `AcceptedWhenQuiet` |
| `payload_invalid_key` | a limit of 2 fields, 1 write | `RemovedKeysValid` is violated (finding 2) |
| `launcher_concurrent` | 3 shells at once, or one after the other, every initial ZIP and all five kinds of home, every fault, 3 signals, fairness | `TypeOK`, `RunsVerified`, `DownloadCleanedUp`, `WholeHomeRefusedByRaceOnly`, `CacheOnlyImproves`, `RecoversFromSignals` |
| `launcher_nested` | 2 shells, empty cache, no fault | `HomeIsTheDistribution` is violated (finding 3) |
| `scan_edited` | 6 paths, limits of 2 files and 2 directories, every small tree, both listings, at the top of the worktree and below, 1 edit | `TypeOK`, `ExactWhenQuiet`, `StableFlawReported`, `CollisionsReported` |
| `scan_top` | the same trees, no edit | `TrackedScanAnswers` is violated (finding 4) |
| `ci_steps` | an archive of 2 chunks, a limit of 3, 2 attempts, at most one flawed item and one change; 249 texts of a 14-line workflow, 64 metadata documents, 85 builds; fairness of the verifier | `TypeOK`, `DownloadedExact`, `StableFlawRefused`, `RefusedForCause`, `WorkflowFailsClosed`, `MetadataListsGraph`, `ReportCountsPasses`, `ClassesAreSound`, `ToolchainDecided` |
| `gate_passes` | 1 archive named by 2 variants, 3 contents (one unsound, one that only an archive may have), 5 metadata, 2 replacements, 1 kill and any step after it | `TypeOK`, `MatchedIsReproduced`, `MetadataNamesArchives`, `ExactWhenQuiet` |

### 3.1 What they show

* **Revisions account for commits.** `RevisionsTakenOnce` relates the ledger to
  the session: no gap, no overwritten commit, also when a handler commits on a
  value that is out of date.  With two handlers such a commit *is* possible:
  `validate` looked at an immutable value, and the library has no conditional
  write.  So the stronger promise, that every operation is applied at the very
  revision its client named, is stated as the abstract `MutationLedger` and
  holds for one handler at a time (`ImplementsLedger`); an adapter with several
  must compare the revision again in its transaction.  That an operation is
  committed once is the idempotency store's doing and no property here; what the
  repository's code makes of it is: an answer `operation_already_processed` is
  true (`AppliedIsCommitted`), an envelope is that of the one commit
  (`AuditTrail`).
* **Early returns in the right order.** `ConflictToldToOwner` fails if the test
  of the actor is dropped, `ConflictIsFinal` if the test of the session is:
  another session of the same actor would then answer for the one the request
  names.
* **Retry guidance ends.** A client that follows `ErrorCode`'s retry flag
  settles within one attempt more than there are operations (2 operations, 3
  attempts; with 2 attempts TLC finds a client stuck on its second conflict),
  because a conflict names a later revision (`ObservedNeverGoesBack`), a
  conflicting request can never commit later (`ConflictIsFinal`), and a
  redelivered request meets the revision check before the idempotency check
  (`AlreadyProcessedNeedsRefresh`).
* **Payloads are disjoint and valid in their values whatever the caller
  writes**, because these checks are made on what is copied; and with a quiet
  caller exactly the acceptable arguments are accepted (`AcceptedWhenQuiet`,
  said without the steps).  The removed keys are the exception (finding 2).  The
  limit on the number of fields is only checked on the caller's collection.
* **The launcher runs what a launcher verified and unpacked, or what it found.**
  By `RunsVerified` a home that some shell moved into place is that of a ZIP
  with the pinned digest, whatever happens meanwhile; but a home that was there
  before, has an executable `bin/gradle` and reports 8.8 is run although nobody
  compares it with the ZIP.  `CacheOnlyImproves`: the ZIP in the cache only ever
  becomes the pinned one and a home only appears complete where there was none,
  at any kill, so nothing a run leaves is refused by the next; a run left alone
  then succeeds (`RecoversFromSignals`).  A whole home is refused only by a
  shell that met it while another moved it into place
  (`WholeHomeRefusedByRaceOnly`): it may appear between the test for its
  executable and the test for its directory.
* **The scan is exact when nothing moves**: `ExactWhenQuiet` compares it with a
  definition of the source files that has no walk in it, at, below and above
  both limits, with one exception: a tracked scan at the top of the worktree
  never has a result (finding 4).  What is reported of a file with several
  absolute paths is what the first match of each pattern gives, in the
  definition as in the code.  While files move, `StableFlawReported` and
  `CollisionsReported` say what a caller may still rely on.
* **The gate's matching hashes mean something**: of each file left alone in one
  of the passes, the hash is that of a file this pass built and that both the
  validator and the recorder accept.  It holds as well if a step was killed and
  somebody goes straight on with the comparison, which then meets a state file
  that is missing, cut short or of an earlier pass.  An archive is validated in
  one read and hashed in another, so nothing is claimed for a file replaced
  meanwhile; and nothing for the staged copies of the archives.
* **The toolchain step accepts one whole response.**  `DownloadedExact` fails if
  the second attempt goes on with the digest or the size of the first, and so
  does `RefusedForCause`: a sound archive would then be refused.
  `ToolchainDecided` holds whatever the server does.  What is verified is not
  what is used, though: a tool may be exchanged afterwards, so `ClassesAreSound`
  speaks of a `jdeps` that was left alone.  A tool is "reviewed" if it reports
  the reviewed version, which is all that is asked of it.
* **What the parsers drop is named.**  `WorkflowFailsClosed` and
  `MetadataListsGraph` compare the file itself, not its parse, with the reviewed
  one.  A workflow that passes says line by line the same; the spellings that
  may differ are blank lines, `030` for `30`, `|-` for `|`, deeper indentation,
  no space after a colon outside a literal block.  Metadata that pass list the
  reviewed components, artifacts and digests, in the same order; the strict
  order of names is what keeps an unreviewed digest from being overwritten by a
  reviewed one.  That is less than the "exact reviewed Gradle
  dependency-verification graph" of the docstring
  (`verify_dependency_metadata.py`, line 2): which of the two allowed origins a
  digest has and what its children trust as well is compared by nobody.
* **A passing report counts passes** (`ReportCountsPasses`): what a suite
  declares is held against its cases, so totals cannot cancel out.
* **The looks at the tested classes fit together**: `ClassesAreSound` says what
  is left of each if a class file is replaced between them.  These are the
  classes of the build that was tested; `ci.yml` line 76 deletes them, and what
  is published is compiled anew.

### 3.2 Bounds, and why they are enough

Bounds are constants named `Max...`, used only in guards.

* Boundary: a wrong interleaving needs two actors, hence two handlers and two
  operations.  A second session and a second actor are in the serial run, where
  they can be told apart in every early return.  There three operations of the
  owner vie for two revisions, so commits follow one another on one session and
  the top of the range is reached and met again; the three are interchangeable,
  hence the symmetry.  Two attempts let a retry race its original and meet a
  conflict after a lost answer; three, in the live run, are the number that
  settles two operations.  `MaxTime` 1 puts expiry before, between and after the
  steps.  The one code in `WorkErrors` is not retryable, so a client settles on
  it; a work that fails with a retryable code for ever would keep any client
  from settling.
* Payloads: two valid keys and an invalid one let one key cross from one
  collection to the other while another is left alone.  One field is the limit,
  so collections below, at and above it occur.  Two writes are a move.
* Launcher: three shells let one find, one install and one unpack at the same
  time.  The behaviour starts from every combination of a ZIP (none, good, bad)
  and a home (the five of 2.3).
* Scan: six paths hold a directory with a file, a collision, an excluded
  directory with a flawed file and an unsafe name.  The limit on the files, two,
  is compared with the entries of one directory and with the whole list.  Every
  edit may put any item at any path, between any two steps.
* Gate: with one archive named twice the loop over the variants has a second
  turn and the loop over the artifacts three.  Two replacements are one in each
  pass, or one and its reversal.  Of the three contents one is in order
  everywhere, one only in an archive (it has a control byte), one is unsound; of
  the five metadata three name one archive in both variants, the unsound one
  too, one has variants that differ, one is no metadata.  One kill with any step
  after it lets a comparison run behind a truncated state file, behind none, and
  behind that of an earlier pass.
* CI steps: two chunks let a body be cut, reordered, one too long, and be made
  up of halves of two responses, the limit of three lets a body be too long
  without being over it; two attempts are the code's own number.  One change of
  an item falls between any two looks; two flaws at once would be refused by the
  first.  The texts are the reviewed workflow, which has a mapping, a list, a
  literal block, nested keys and each kind of scalar, with a line deleted,
  doubled, swapped with the next, moved in or out, reworded, without the space
  after its colon, or appended; 8 of the 249 pass.  The documents are one change
  away, and two where the second could hide the first; 2 of the 64 pass, the
  reviewed one and one with the other origin and a second trusted digest.  The
  reports have up to two files, two suites and two cases around the expected
  number of two tests.

`CHECK_DEADLOCK FALSE` is set where the system stops by design: a constructor or
a scan returns, a shell ends, the workflow is over, the clients have no attempts
left.  `mutation_live` uses no symmetry.

### 3.3 Fairness

* `GuiMutation`: weak fairness of `Serve(h)`, because a thread that has a task
  goes on with it; of `Send(o)`, because a client that is ready sends; strong
  fairness of `Delivered(r)` for each request id, because a network that loses a
  request again and again for ever is outside what any retry can cure.  There is
  no fairness on `Timeout`, `Tick` or `Crash`.
* `GradleLauncher`: weak fairness of `Run(p)` and `Launch(p)`: a process that is
  not killed executes its next command, and somebody runs the script again.
  `RecoversFromSignals` is about calm behaviours, where a fault cannot come back
  for ever.
* `CiSteps`: weak fairness of `Verify`: every command and every request of the
  toolchain step is given a timeout, so the verifier goes on.  Nothing is asked
  of the other steps, of the server (which only chooses how an attempt goes) or
  of changes.

### 3.4 Findings

1. **Audit gap** (`mutation_audit`).  The documented order commits first and
   creates the envelope afterwards, while `SECURITY.md` asks adapters to persist
   envelopes atomically with their mutation.  A handler that dies in between
   leaves a commit that no retry ever audits.
2. **Unchecked removed key** (`payload_invalid_key`).  `copyKeys` validates the
   caller's set in one iteration and copies it in another.
3. **Nested home** (`launcher_nested`).  Two shells that both find no home: the
   second `mv` moves its home into the first one's, and that shell goes on to
   run Gradle from a directory the verified ZIP does not describe.
4. **No tracked scan at the top** (`scan_top`).  The README and the workflow run
   `public_source_scan.py --repo-root . --tracked-only` at the top of the
   worktree.  There the root's relative path is `.`, so every path git lists is
   held against the prefix `./` and refused (lines 222 and 240): the result is
   invalid whatever the files are.

Two more disagreements are named as hazards and as limits of what is claimed,
without a property: `pattern.search` judges a file by its first match of each
path pattern (`public_source_scan.py` line 339), so a path in the shebang line
hides those behind it; and the children of a `<sha256>` element are not looked
at (`verify_dependency_metadata.py` line 120).

## 4. What is proved

All proofs are for arbitrary constants subject to the named assumption of the
component's module (`BoundaryAssumption`, `PayloadAssumption`,
`LauncherAssumption`, `ScanAssumption` with `TreeAssumption`, `GateAssumption`,
`ToolchainAssumption`), which say what sets the constants come from and no more.
`LimitsAssumption` says so of the numbers in the validators.  `CiAssumption`
also says of the reviewed files what the repository's are: the reviewed workflow
and metadata are accepted themselves, each list item of the workflow starts with
a key and its scalar (`- name: ...`), the first component has an artifact, whose
digest is not the string of zeros that the self-test puts in its place.

| Theorem | Says |
|---|---|
| `GuiMutationProofs!TypeCorrect`, `RevisionsTakenOnceHolds`, `AuditTrailHolds`, `ConflictToldToOwnerHolds`, `AppliedIsCommittedHolds` | the invariants of the boundary, for any number of handlers, sessions, operations and retries |
| `GuiMutationProofs!ObservedNeverGoesBackHolds` | a client's revision never goes back, for any number of handlers |
| `GuiMutationProofs!SerialImplementsLedger` | with one handler the boundary implements `MutationLedger` |
| `GuiMutationProofs!ConflictIsFinalHolds`, `AlreadyProcessedNeedsRefreshHolds` | with one handler, what a refused or repeated request means |
| `GuiPayloadProofs!TypeCorrect`, `NeverUpdatedAndRemovedHolds`, `ValuesValidHolds`, `UntouchedPublishedHolds`, `AcceptedWhenQuietHolds` | what is published and what is refused, for any keys, limit and number of writes |
| `GradleLauncherProofs!TypeCorrect`, `RunsVerifiedHolds`, `DownloadCleanedUpHolds`, `WholeHomeRefusedByRaceOnlyHolds`, `CacheOnlyImprovesHolds` | the cache and what is run from it, for any files to begin with and any number of shells, faults and signals |
| `SourceScanProofs!TypeCorrect`, `CollisionsReportedHolds`, `StableFlawReportedHolds`, `ExactWhenQuietHolds` | the scan, for any tree, any list and any number of edits |
| `PublicationGateProofs!TypeCorrect`, `MatchedIsReproducedHolds`, `MetadataNamesArchivesHolds`, `ExactWhenQuietHolds` | the gate, for any archives, variants, contents, replacements and kills, and any step after a kill |
| `ToolchainVerifierProofs!TypeCorrect`, `DownloadedExactHolds`, `StableFlawRefusedHolds`, `RefusedForCauseHolds` | the toolchain step, for any archive, limit, number of attempts and changes |
| `ToolchainVerifierProofs!VerifierAdvances`, `VerifierBounded` | each step of the verifier leaves fewer steps to take, and nobody else adds one: at most `Attempts * (MaxArchive + 3) + 12` in all |
| `WorkflowParserProofs!ExactTextsAgree` | the workflow's parser is faithful: two texts parsed to the reviewed tree say line by line the same, for texts of any length and nesting |
| `CiStepsProofs!ExactMetadataListing` | if some metadata pass the comparison with the graph, others do exactly if they list the same components, artifacts and digests in the same order, each digest once and of one of the two origins, for any graph; what children of a digest trust makes no difference |
| `CiStepsProofs!JobRunsVerifier` | the job implements `ToolchainVerifier`'s specification, so its theorems hold of the job |
| `CiStepsProofs!WorkflowFailsClosedHolds`, `MetadataListsGraphHolds`, `ReportCountsPassesHolds` | what the acceptance of a workflow, of metadata and of a test report means, for any other texts and documents, any mutations and builds |
| `CiStepsProofs!ClassesAreSoundHolds` | what is known of the tested classes past `jdeps`, for any builds, tools and replacements |

### 4.1 The arguments

* **Boundary.** None of the invariants is inductive alone.  `IInv` adds two
  things to `TypeOK` and the invariants themselves.  `Validated`: a task past
  `validate` holds a session value that belongs to its actor and is the one its
  request names, and one past `authorize` has a granted actor; the session map
  never changes owners.  `Recorded`: a task that is about to emit has its commit
  in the ledger, under its own request id and actor; one that will answer that
  the operation is done has a commit of the operation there; no task holds a
  revision later than its session's.  That an operation has one commit
  (`AtMostOnce`, which comes from the guard of the external store) is part of
  `IInv`; the commit a task is about to emit being its own, `AuditTrail`
  follows.  For the refinement, `SerialInv` adds that, with one handler, the
  value held is the current one and the revision the request names is the
  session's until the commit; `Commit` is then `Apply` and every other step a
  stutter.  What a client may conclude from an answer is about the order of
  requests: `Aged` says that the requests of a client are numbered, that a later
  one never names an earlier revision, that no client is ahead of its session,
  and that a conflict was about a revision the session has left behind.  With
  one handler a commit takes the very revision its request names, so a request
  that was in conflict cannot commit any more.
* **Payloads.** `PayloadInv` adds to the claims: every entry copied so far was
  checked (`CopyChecked`), nothing is copied before its phase (`NoTraceYet`),
  and a key that is untouched and already visited has been copied as it is
  (`UntouchedCopied`).  `AcceptInv` lists, place by place, what the steps so far
  have established of the arguments of a caller that does not write, so that
  what arrives at the end is acceptable and a refusal has its cause.
* **Launcher.** `ShellsOK` says what a shell's place in the script implies of
  the files: past the ZIP's verification the ZIP in the cache is good, a shell
  that has unpacked it has a whole home, a running shell one that reports the
  pinned version, at `install` a download that is still there is verified, and
  outside the armed commands there is none unless the shell was killed.  It is
  stable under the other shells because the cache only improves: `MoveHome`
  renames where there is nothing, and what it moves is whole because the ZIP was
  good when it was unpacked.  An altered home is therefore the one `found` there
  at the start.
* **Scan.** `ScanInv` says that the paths done come before those left
  (`OrderOK`) and that `seen` names, for each folded form met, the first path of
  it, every other path met being in the findings (`SeenOK`); the path that is
  being read counts as met.  For a file that is left alone while others are
  edited (`StableInv`), either a directory on its way is still pending or the
  path is listed (`Followed`); an edit elsewhere cannot change that, because the
  walk goes through directories that are left alone too.  When nothing is edited
  at all, `WalkInv` says which directories the walk has done: those it can reach
  with none on their way pending.  Taking the greatest pending directory adds
  exactly that one, so the count of directories is the number of those done, and
  at the end they are all that can be reached.  `ResultInv` carries the findings
  from there.  The ancestors of a path are defined as the least set closed under
  `Parent`, and what is needed of them (`AncestorsWay`, `AncestorsStep`) follows
  without induction from the least and the greatest member of a set of numbers.
* **Gate.** `GateInv` follows the files through the passes.  `Verified`: past
  `verify_publication`, POM and metadata that were left alone are what was built
  and in order, and each variant of such metadata names its archive, if that was
  left alone too (`VariantsChecked` while the loop is at it).  `SoFarHashed`,
  `AllHashed`, `DataRead` and `AcceptedSound` say of the recorder, one file at a
  time, that what it has hashed of an untouched file is its built content, and
  sound by both scripts' standard.  `FirstHashed` and `FirstNamed` say the same
  of what a gate's state file holds, with `first` for the pass that wrote it;
  they are about a file that is there and whole (`Kept`), for a comparison
  refuses the others.  A match makes the two sets of hashes equal.  That a step
  may follow any other after a kill costs nothing: every build starts a pass
  anew, and `first` goes with the file.  For the exact result, `QuietInv` adds
  that a build leaves its artifacts and no other file (`Shape`), that with
  nothing replaced the hashes at the end are the whole of what was built, and
  the recorded ones the whole of what the first pass built.
* **Toolchain.** `BodyExact`: within a body, what has been digested is what the
  server has sent of *this* response; hence a digest equal to the archive's is a
  whole response.  `PastLooks` says which items have been looked at once the
  verifier is at a place: each was as reviewed then, or has been touched.
  `Caused` is its dual for refusals: as long as nothing is touched, a look that
  failed names its item, and an attempt that was offered the archive has
  accepted it.  `StepsLeft` counts what is left: the looks, two turns for each
  tool, and for each attempt its start, its chunks up to one over the limit, and
  its end.
* **Workflow parser.** All facts about the recursive function go from the last
  line up: what holds of a line if it holds of the lines below it holds of all
  (`Downward`, from the least counterexample in a set of numbers).  So a block
  goes forward and within the text, a tree has the kind of its first line's dash
  (`NestedSound`), and the parts of the tree are those of the block
  (`PartTrees`, `ValueKinds`).  `Agree` then says of the blocks at one line of
  two texts: if both succeed with the same tree, they end at the same line, the
  lines between say the same (`SameLine`), none is out of the block (`NotOut`),
  and each line has the same parents in both (`Alike`).  The value below a key,
  the lines below a dash and the rest of the block are each nested in this way
  (`ValueAlike`, `BelowAlike`, `RestAlike`), and a line in front of lines that
  are below it becomes the parent of the outermost (`FrontAlike`). `ScalarItems`
  is needed because the other keys of a list item are read at any deeper
  indentation, deeper than a block nested in its first key too (line 158 of
  `verify_ci_workflow.py`): behind such a block they would have another parent
  and still give the same tree.
* **Metadata.** A sequence in strict order is determined by the set of its
  values, so the keys, and the names within a component, are those of the graph,
  once each.  The dictionary that a loop of assignments leaves then has one
  artifact for each name, and its digest is the graph's.  Nothing in the
  comparison depends on the children of a checksum, and on its origin only that
  it is one of two, so the converse holds too: whatever has the same listing
  passes.
* **CI steps.** `JobInv`: the job is past the toolchain step only with the
  result `valid`, and past `jdeps` only with class files whose modules `jdeps`
  has looked at, in the state they were in then, or with a `jdeps` that was
  touched, because untouched it is the reviewed one (`StableFlawRefused`).  The
  look of `verify_jdeps.py` itself adds nothing to that: a class may be
  exchanged behind it.  What else is known of the classes is what
  `verify_bytecode.py` saw, if none is `replaced`.  `ReadInv` says what each
  step that the job is past has established of the file it read: of a text that
  was accepted `SameWorkflow`, of metadata that they list what was reviewed, of
  the report and the class files what the sums say.  It holds of a failed job
  too, because a step that refuses must have had a reason.  A sum over a
  sequence counts the union of its parts (the marked tests of all suites of all
  files), so a declared total that agrees in every suite agrees with the tests
  that ran; and the bytes left to spend are the limit less those of the classes
  read so far.

### 4.2 What is only model-checked

`EveryOperationSettles`, `RecoversFromSignals` and `ToolchainDecided` are
liveness under fairness; the prover has no rule for these (nor for `ENABLED`).
Of `ToolchainDecided` the bound on the steps is proved (`VerifierAdvances`);
that a step is possible until there is a result, and that fairness takes it, is
left to TLC. All other properties of the passing runs are theorems.

The provers cannot use a rule of induction that takes an operator as a
parameter.  What the proofs say of a recursive function, they say of the set of
the numbers for which it holds, which has a least or a greatest counterexample
if it has any.  The modules that are proved about therefore define recursive
functions of a number and no `RECURSIVE` operator.

## 5. What is not modelled

* Adapters' real transport, clock, stores: the models take the weakest behaviour
  the documents allow.  A transaction's work that fails with a retryable code
  again and again is left out of the liveness run.
* `gradlew`: what `altered` homes contain; that a process id comes twice, in
  which case `unzip` meets what a killed run with the same id left.
* The text forms of identities, locales, event types, currencies: one pattern
  each.
* Logging, messages, layout; the contents behind one verdict of a validator
  (canonical ZIP, canonical JSON, POM text).
* XML and JSON syntax, control characters, symbolic links and size limits of a
  single file in the validators' readers; XML comments, layout and what is below
  the two settings of `<configuration>`, which no comparison of the metadata
  reaches; suites within a suite of a test report, which the validator does not
  look for.
* That the class files of the publishing build equal those that were looked at
  (the publication step builds anew after `clean`), and that the staged copies
  of the archives equal those of `build/libs`.
* What a tool is beyond the version it reports.
* GUI synchronisation: no code of the repository applies a delta.
* `Money`, `SchemaVersion`, `ErrorInfo`, `PermissionSet`: immutable values
  without a protocol.  Their arithmetic is the platform's exact one; their
  constructors copy a caller's collection after a look at it, the shape of
  `GuiPayload`.
* `build.gradle` and `gradlew.bat`.

## 6. Plan

What is left, in this order.

1. `CoreValues`: the copies of `ErrorInfo` and `PermissionSet` beside
   `GuiPayload`'s, and the arithmetic of `Money` at the ends of a small width.
2. `GuiSync`, should the repository come to apply deltas: a view at a revision,
   with deltas lost, duplicated and reordered.
