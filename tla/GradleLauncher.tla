--------------------------- MODULE GradleLauncher ---------------------------
(***************************************************************************)
(* The gradlew script: find or download the pinned Gradle ZIP, verify its  *)
(* SHA-256, unpack it into the distribution directory, check the version   *)
(* and exec Gradle.  Several shells may run the script in one checkout at  *)
(* the same time; they share the directory and nothing else, and each may  *)
(* be killed between any two of its commands.  What one shell leaves on    *)
(* disk the next one finds.                                                *)
(*                                                                         *)
(* Every shell has a process id of its own ($$ in the names of its         *)
(* download and its extraction directory), used once.                      *)
(***************************************************************************)
EXTENDS Integers, FiniteSets

CONSTANTS
    Shells,         \* process ids: one run of the script each
    InitialZips,    \* what may be at $ZIP before the first run
    InitialHomes,   \* what may be at $PINNED_GRADLE_HOME before the first run
    Faults,         \* what may go wrong around the script
    MaxSignals      \* bound on the signals and crashes that hit a shell

\* A home without an executable bin/gradle is incomplete.  One with it may be
\* another program ("other"), report the pinned version without being what the
\* ZIP contains ("altered"), or be exactly that ("whole").
Homes == {"none", "incomplete", "other", "altered", "whole"}
Executable == {"other", "altered", "whole"}
ReportsPinnedVersion == {"altered", "whole"}

ASSUME LauncherAssumption ==
    /\ InitialZips \subseteq {"none", "good", "bad"}
    /\ InitialHomes \subseteq Homes
    /\ Faults \subseteq {"environment", "curl", "network", "content", "unzip", "java"}
    /\ MaxSignals \in Nat

VARIABLES
    zip,        \* the file at $ZIP: none, with the pinned digest, or with another
    home,       \* the directory at $PINNED_GRADLE_HOME
    nested,     \* a second Gradle home has been moved into $PINNED_GRADLE_HOME
    download,   \* each shell's $ZIP.download.$$
    extract,    \* each shell's .extract.$$
    pc,         \* the command each shell is at
    signals,    \* signals and crashes so far
    calm,       \* the runs follow one another, and nothing but signals goes wrong
    found       \* what the first run found at $PINNED_GRADLE_HOME (history)

vars == <<zip, home, nested, download, extract, pc, signals, calm, found>>

Armed == {"curl", "verifyDownload", "install"}
Live == Armed \cup {"findZip", "verifyZip", "download", "findHome", "checkHome",
                    "extract", "unzip", "moveHome", "verifyHome"}
Ended == {"running", "failed", "refused", "killed"}

\* The files and the shells keep their types.
TypeOK ==
    /\ zip \in {"none", "good", "bad"}
    /\ home \in Homes /\ found \in Homes
    /\ nested \in BOOLEAN
    /\ download \in [Shells -> {"none", "partial", "good", "bad"}]
    /\ extract \in [Shells -> {"none", "partial", "altered", "whole"}]
    /\ pc \in [Shells -> {"off"} \cup Live \cup Ended]
    /\ signals \in 0..MaxSignals
    /\ calm \in BOOLEAN

Init ==
    /\ zip \in InitialZips
    /\ home \in InitialHomes
    /\ found = home
    /\ nested = FALSE
    /\ download = [p \in Shells |-> "none"]
    /\ extract = [p \in Shells |-> "none"]
    /\ pc = [p \in Shells |-> "off"]
    /\ signals = 0
    /\ calm \in BOOLEAN

MayFail(fault) == ~calm /\ fault \in Faults

Goto(p, next) == pc' = [pc EXCEPT ![p] = next]

\* A shell without its EXIT trap.
FailUntrapped(p) == Goto(p, "failed") /\ UNCHANGED download

\* set -e, or an explicit exit 1: the EXIT trap, while it is armed, removes the
\* shell's download.
Fail(p) ==
    /\ Goto(p, "failed")
    /\ download' = IF pc[p] \in Armed THEN [download EXCEPT ![p] = "none"] ELSE download

-----------------------------------------------------------------------------
\* The version override and the external Gradle homes are refused before
\* anything else; mkdir -p of the distribution directory changes nothing else.
Launch(p) ==
    /\ pc[p] = "off"
    /\ calm => \A q \in Shells : pc[q] \notin Live
    /\ Goto(p, "findZip") \/ (MayFail("environment") /\ Goto(p, "failed"))
    /\ UNCHANGED <<zip, home, nested, download, extract, signals, calm, found>>

\* if [ -f "$ZIP" ]
FindZip(p) ==
    /\ pc[p] = "findZip"
    /\ Goto(p, IF zip # "none" THEN "verifyZip" ELSE "download")
    /\ UNCHANGED <<zip, home, nested, download, extract, signals, calm, found>>

\* verify_gradle_zip of the ZIP that is there.
VerifyZip(p) ==
    /\ pc[p] = "verifyZip"
    /\ IF zip = "good" THEN Goto(p, "findHome") /\ UNCHANGED download ELSE Fail(p)
    /\ UNCHANGED <<zip, home, nested, extract, signals, calm, found>>

\* The trap is set and curl begins to write; without curl the shell gives up.
StartDownload(p) ==
    /\ pc[p] = "download"
    /\ \/ Goto(p, "curl") /\ download' = [download EXCEPT ![p] = "partial"]
       \/ MayFail("curl") /\ Fail(p)
    /\ UNCHANGED <<zip, home, nested, extract, signals, calm, found>>

\* curl's failure is not noticed and what it wrote is not checked.
FinishDownloadBlindly(p) ==
    /\ pc[p] = "curl"
    /\ \/ Goto(p, "verifyDownload") /\ download' = [download EXCEPT ![p] = "good"]
       \/ MayFail("network") /\ Goto(p, "install") /\ UNCHANGED download
    /\ UNCHANGED <<zip, home, nested, extract, signals, calm, found>>

\* curl ends, with the archive, with something else, or with an error.
FinishDownload(p) ==
    /\ pc[p] = "curl"
    /\ \/ Goto(p, "verifyDownload") /\ download' = [download EXCEPT ![p] = "good"]
       \/ /\ MayFail("content")
          /\ Goto(p, "verifyDownload") /\ download' = [download EXCEPT ![p] = "bad"]
       \/ MayFail("network") /\ Fail(p)
    /\ UNCHANGED <<zip, home, nested, extract, signals, calm, found>>

\* The download is installed without a look at its digest.
VerifyDownloadNever(p) ==
    /\ pc[p] = "verifyDownload"
    /\ Goto(p, "install")
    /\ UNCHANGED <<zip, home, nested, download, extract, signals, calm, found>>

\* verify_gradle_zip of the download; a file that is gone has no digest.
VerifyDownload(p) ==
    /\ pc[p] = "verifyDownload"
    /\ IF download[p] = "good" THEN Goto(p, "install") /\ UNCHANGED download ELSE Fail(p)
    /\ UNCHANGED <<zip, home, nested, extract, signals, calm, found>>

\* mv "$DOWNLOAD" "$ZIP" replaces whatever is there; then the trap is cleared.
InstallZip(p) ==
    /\ pc[p] = "install"
    /\ IF download[p] = "none"
         THEN Fail(p) /\ UNCHANGED zip
         ELSE /\ zip' = download[p]
              /\ download' = [download EXCEPT ![p] = "none"]
              /\ Goto(p, "findHome")
    /\ UNCHANGED <<home, nested, extract, signals, calm, found>>

\* Whether the home can be used is not asked.
FindHomeNever(p) ==
    /\ pc[p] = "findHome"
    /\ Goto(p, "checkHome")
    /\ UNCHANGED <<zip, home, nested, download, extract, signals, calm, found>>

\* if [ -x "$PINNED_GRADLE_HOME/bin/gradle" ]
FindHome(p) ==
    /\ pc[p] = "findHome"
    /\ Goto(p, IF home \in Executable THEN "verifyHome" ELSE "checkHome")
    /\ UNCHANGED <<zip, home, nested, download, extract, signals, calm, found>>

\* if [ -e "$PINNED_GRADLE_HOME" ]: "Refusing to overwrite an existing
\* incomplete Gradle directory".
CheckHome(p) ==
    /\ pc[p] = "checkHome"
    /\ Goto(p, IF home # "none" THEN "refused" ELSE "extract")
    /\ UNCHANGED <<zip, home, nested, download, extract, signals, calm, found>>

\* unzip writes straight into the distribution directory.
StartExtractInPlace(p) ==
    /\ pc[p] = "extract"
    /\ Goto(p, "unzip")
    /\ home' = "incomplete"
    /\ extract' = [extract EXCEPT ![p] = "partial"]
    /\ UNCHANGED <<zip, nested, download, signals, calm, found>>

\* mkdir -p "$EXTRACT_DIR"; unzip begins to write.
StartExtract(p) ==
    /\ pc[p] = "extract"
    /\ Goto(p, "unzip")
    /\ extract' = [extract EXCEPT ![p] = "partial"]
    /\ UNCHANGED <<zip, home, nested, download, signals, calm, found>>

\* unzip ends; the unpacked home is there and executable, or the shell fails.  It
\* is the pinned distribution if the ZIP is.
FinishExtract(p) ==
    /\ pc[p] = "unzip"
    /\ \/ /\ Goto(p, "moveHome")
          /\ extract' = [extract EXCEPT ![p] = IF zip = "good" THEN "whole" ELSE "altered"]
          /\ UNCHANGED download
       \/ MayFail("unzip") /\ Fail(p) /\ UNCHANGED extract
    /\ UNCHANGED <<zip, home, nested, signals, calm, found>>

\* mv of the unpacked home.  Where a directory has appeared in the meantime mv
\* moves INTO it; it fails if that has been done already, or if the directory
\* appeared while mv was at it.  The emptied extraction directory is removed.
MoveHome(p) ==
    /\ pc[p] = "moveHome"
    /\ \/ /\ home = "none"
          /\ home' = extract[p] /\ UNCHANGED nested
          /\ extract' = [extract EXCEPT ![p] = "none"]
          /\ Goto(p, "verifyHome") /\ UNCHANGED download
       \/ /\ home # "none" /\ ~nested
          /\ nested' = TRUE /\ UNCHANGED home
          /\ extract' = [extract EXCEPT ![p] = "none"]
          /\ Goto(p, "verifyHome") /\ UNCHANGED download
       \/ home # "none" /\ Fail(p) /\ UNCHANGED <<home, nested, extract>>
    /\ UNCHANGED <<zip, signals, calm, found>>

\* verify_gradle_version compares the first line of gradle --version and nothing
\* else; then exec.
VerifyHome(p) ==
    /\ pc[p] = "verifyHome"
    /\ \/ home \in ReportsPinnedVersion /\ Goto(p, "running") /\ UNCHANGED download
       \/ (home \notin ReportsPinnedVersion \/ MayFail("java")) /\ Fail(p)
    /\ UNCHANGED <<zip, home, nested, extract, signals, calm, found>>

-----------------------------------------------------------------------------
\* HUP, INT or TERM while the trap is set: it runs when the running command is
\* over, removes the download, and the script goes on.
Trap(p) ==
    /\ pc[p] \in Armed
    /\ download[p] # "none"
    /\ signals < MaxSignals
    /\ signals' = signals + 1
    /\ download' = [download EXCEPT ![p] = "none"]
    /\ Goto(p, IF pc[p] = "curl" THEN "verifyDownload" ELSE pc[p])
    /\ UNCHANGED <<zip, home, nested, extract, calm, found>>

\* A signal nothing is set for, or a crash of the machine: the files stay.
Kill(p) ==
    /\ pc[p] \in Live
    /\ signals < MaxSignals
    /\ signals' = signals + 1
    /\ Goto(p, "killed")
    /\ UNCHANGED <<zip, home, nested, download, extract, calm, found>>

Run(p) ==
    \/ FindZip(p) \/ VerifyZip(p) \/ StartDownload(p) \/ FinishDownload(p)
    \/ VerifyDownload(p) \/ InstallZip(p) \/ FindHome(p) \/ CheckHome(p)
    \/ StartExtract(p) \/ FinishExtract(p) \/ MoveHome(p) \/ VerifyHome(p)

Next == \E p \in Shells : Launch(p) \/ Run(p) \/ Trap(p) \/ Kill(p)

Spec == Init /\ [][Next]_vars

\* A shell that is not killed runs its next command; one that can be launched
\* is launched.
FairSpec == Spec /\ \A p \in Shells : WF_vars(Run(p)) /\ WF_vars(Launch(p))

-----------------------------------------------------------------------------
(* Properties *)

\* Gradle runs only with a ZIP of the pinned digest in the cache, and from a home
\* that some shell unpacked from such a ZIP, whatever other shells, faults and
\* signals do meanwhile.  The one home it may run from without that is one that
\* was there before the first run and reports the pinned version: its files are
\* never held against the ZIP.
RunsVerified ==
    \A p \in Shells : pc[p] = "running" =>
        /\ zip = "good"
        /\ home = "whole" \/ (home = "altered" /\ found = "altered")

\* The shared files change for the better only: the ZIP becomes one with the
\* pinned digest, and a home appears where none was, complete at once.  So a
\* verified ZIP is never replaced by anything else, and no run, killed or not,
\* leaves a ZIP or a home that the next run refuses.
CacheOnlyImproves ==
    [][/\ zip' # zip => zip' = "good"
       /\ home' # home => home = "none" /\ home' = "whole"]_vars

\* A shell that ends by itself, in success, error or after a signal, leaves no
\* download behind.
DownloadCleanedUp ==
    \A p \in Shells : pc[p] \in {"running", "failed", "refused"} => download[p] = "none"

\* In calm, from files no run refuses, a run that no signal hits ends with Gradle
\* running, whatever the signals made of the runs before it.
RecoversFromSignals ==
    calm /\ zip # "bad" /\ home \notin {"incomplete", "other"} =>
        <>((\E p \in Shells : pc[p] = "running") \/ signals >= Cardinality(Shells))

\* A whole home is refused only by a race: another shell has moved it there since
\* this one looked for it.  Runs that follow one another never see that.
WholeHomeRefusedByRaceOnly ==
    \A p \in Shells : pc[p] = "refused" /\ home = "whole" =>
        /\ ~calm
        /\ \E q \in Shells \ {p} : pc[q] \in {"verifyHome", "running", "failed", "killed"}

\* "The launcher accepts only the verified Gradle 8.8 distribution cache": the
\* home Gradle runs from is what the ZIP contains and nothing more.
HomeIsTheDistribution == \A p \in Shells : pc[p] = "running" => ~nested
=============================================================================
