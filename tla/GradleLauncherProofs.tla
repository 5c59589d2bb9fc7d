------------------------ MODULE GradleLauncherProofs ------------------------
(***************************************************************************)
(* Proofs about GradleLauncher, for any number of shells, signals and      *)
(* faults.                                                                 *)
(***************************************************************************)
EXTENDS GradleLauncher, TLAPS

\* What a shell has established by the command it is at: a download that is to
\* be installed has the pinned digest, past the ZIP's verification the cache
\* holds it, what it moves into place was unpacked from that, and only while its
\* trap is set does a shell own a download.
ShellOK(p) ==
    /\ pc[p] = "install" => download[p] \in {"none", "good"}
    /\ pc[p] \in {"findHome", "checkHome", "extract", "unzip", "moveHome", "verifyHome",
                  "running", "refused"} => zip = "good"
    /\ pc[p] = "moveHome" => extract[p] = "whole"
    /\ pc[p] = "running" => home \in ReportsPinnedVersion
    /\ pc[p] \notin Armed \cup {"killed"} => download[p] = "none"

\* A home that was not there before the first run is the pinned distribution.
ShellsOK ==
    /\ \A p \in Shells : ShellOK(p)
    /\ home \in {"whole", found}

LEMMA FailType ==
    ASSUME TypeOK, NEW p \in Shells, Fail(p)
    PROVE  /\ pc' \in [Shells -> {"off"} \cup Live \cup Ended]
           /\ download' \in [Shells -> {"none", "partial", "good", "bad"}]
  BY DEF Fail, Goto, TypeOK, Ended

LEMMA InitType == Init => TypeOK
  <1> SUFFICES ASSUME Init PROVE TypeOK
    OBVIOUS
  <1>1. nested \in BOOLEAN /\ calm \in BOOLEAN /\ home \in Homes /\ found = home
    BY LauncherAssumption DEF Init
  <1> QED
    BY <1>1, LauncherAssumption DEF Init, TypeOK

LEMMA NextType == TypeOK /\ ShellsOK /\ [Next]_vars => TypeOK'
  <1> SUFFICES ASSUME TypeOK, ShellsOK, [Next]_vars PROVE TypeOK'
    OBVIOUS
  <1> USE LauncherAssumption DEF Live, Armed, Ended, Goto
  <1>1. ASSUME NEW p \in Shells, Launch(p) \/ FindZip(p) \/ FindHome(p) \/ CheckHome(p)
        PROVE  TypeOK'
    BY <1>1 DEF Launch, FindZip, FindHome, CheckHome, TypeOK
  <1>2. ASSUME NEW p \in Shells, VerifyZip(p) PROVE TypeOK'
    BY <1>2, FailType DEF VerifyZip, TypeOK
  <1>3. ASSUME NEW p \in Shells, StartDownload(p) PROVE TypeOK'
    BY <1>3, FailType DEF StartDownload, TypeOK
  <1>4. ASSUME NEW p \in Shells, FinishDownload(p) PROVE TypeOK'
    BY <1>4, FailType DEF FinishDownload, TypeOK
  <1>5. ASSUME NEW p \in Shells, VerifyDownload(p) PROVE TypeOK'
    BY <1>5, FailType DEF VerifyDownload, TypeOK
  <1>6. ASSUME NEW p \in Shells, InstallZip(p) PROVE TypeOK'
    BY <1>6, FailType DEF InstallZip, TypeOK, ShellsOK, ShellOK
  <1>7. ASSUME NEW p \in Shells, FinishExtract(p) PROVE TypeOK'
    BY <1>7, FailType DEF FinishExtract, TypeOK
  <1>8. ASSUME NEW p \in Shells, MoveHome(p) PROVE TypeOK'
    BY <1>8, FailType DEF MoveHome, TypeOK, ShellsOK, ShellOK, Homes
  <1>9. ASSUME NEW p \in Shells, VerifyHome(p) PROVE TypeOK'
    BY <1>9, FailType DEF VerifyHome, TypeOK
  <1>10. ASSUME NEW p \in Shells, StartExtract(p) PROVE TypeOK'
    BY <1>10 DEF StartExtract, TypeOK
  <1>11. ASSUME NEW p \in Shells, Trap(p) \/ Kill(p) PROVE TypeOK'
    BY <1>11 DEF Trap, Kill, TypeOK
  <1>12. CASE UNCHANGED vars
    BY <1>12 DEF vars, TypeOK
  <1> QED
    BY <1>1, <1>2, <1>3, <1>4, <1>5, <1>6, <1>7, <1>8, <1>9, <1>10, <1>11, <1>12
    DEF Next, Run

-----------------------------------------------------------------------------
LEMMA InitShells == Init => ShellsOK
  BY DEF Init, ShellsOK, ShellOK, Armed

\* A step of shell p, seen from another shell: its own command and files are
\* untouched, the ZIP and the home change for the better only.
SharedKept ==
    /\ zip' # zip => zip' = "good"
    /\ home' # home => home = "none" /\ home' = "whole"
    /\ found' = found

OthersKept(p) ==
    \A q \in Shells \ {p} :
        pc'[q] = pc[q] /\ download'[q] = download[q] /\ extract'[q] = extract[q]

LEMMA SharedKeptByShell ==
    ASSUME TypeOK, ShellsOK, NEW p \in Shells, Launch(p) \/ Run(p) \/ Trap(p) \/ Kill(p)
    PROVE  SharedKept /\ OthersKept(p)
  <1> USE DEF SharedKept, OthersKept, TypeOK, Goto, Fail
  <1>1. CASE Launch(p) \/ Trap(p) \/ Kill(p)
    BY <1>1 DEF Launch, Trap, Kill
  <1>2. CASE FindZip(p) \/ VerifyZip(p) \/ StartDownload(p) \/ FinishDownload(p)
             \/ VerifyDownload(p)
    BY <1>2 DEF FindZip, VerifyZip, StartDownload, FinishDownload, VerifyDownload
  <1>3. CASE InstallZip(p)
    BY <1>3 DEF InstallZip, ShellsOK, ShellOK
  <1>4. CASE FindHome(p) \/ CheckHome(p) \/ StartExtract(p) \/ FinishExtract(p)
             \/ VerifyHome(p)
    BY <1>4 DEF FindHome, CheckHome, StartExtract, FinishExtract, VerifyHome
  <1>5. CASE MoveHome(p)
    BY <1>5 DEF MoveHome, ShellsOK, ShellOK
  <1> QED
    BY <1>1, <1>2, <1>3, <1>4, <1>5 DEF Run

LEMMA OwnStep ==
    ASSUME TypeOK, ShellsOK, NEW p \in Shells, Launch(p) \/ Run(p) \/ Trap(p) \/ Kill(p)
    PROVE  ShellOK(p)'
  <1> USE DEF TypeOK, ShellsOK, ShellOK, Armed, Goto, Fail
  <1>1. ASSUME Launch(p) \/ Trap(p) \/ Kill(p) PROVE ShellOK(p)'
    BY <1>1 DEF Launch, Trap, Kill, Live
  <1>2. ASSUME FindZip(p) \/ VerifyZip(p) \/ StartDownload(p) PROVE ShellOK(p)'
    BY <1>2 DEF FindZip, VerifyZip, StartDownload
  <1>3. ASSUME FinishDownload(p) \/ VerifyDownload(p) PROVE ShellOK(p)'
    BY <1>3 DEF FinishDownload, VerifyDownload
  <1>4. ASSUME InstallZip(p) PROVE ShellOK(p)'
    BY <1>4 DEF InstallZip
  <1>5. ASSUME FindHome(p) \/ CheckHome(p) \/ StartExtract(p) \/ FinishExtract(p) PROVE ShellOK(p)'
    BY <1>5 DEF FindHome, CheckHome, StartExtract, FinishExtract
  <1>6. ASSUME MoveHome(p) \/ VerifyHome(p) PROVE ShellOK(p)'
    BY <1>6 DEF MoveHome, VerifyHome
  <1> QED
    BY <1>1, <1>2, <1>3, <1>4, <1>5, <1>6 DEF Run

LEMMA NextShells == TypeOK /\ ShellsOK /\ [Next]_vars => ShellsOK'
  <1> SUFFICES ASSUME TypeOK, ShellsOK, [Next]_vars PROVE ShellsOK'
    OBVIOUS
  <1>1. ASSUME NEW p \in Shells, Launch(p) \/ Run(p) \/ Trap(p) \/ Kill(p) PROVE ShellsOK'
    <2>1. ShellOK(p)'
      BY <1>1, OwnStep
    <2>2. ASSUME NEW q \in Shells \ {p} PROVE ShellOK(q)'
      BY <1>1, SharedKeptByShell DEF SharedKept, OthersKept, ShellsOK, ShellOK, ReportsPinnedVersion
    <2>3. home' \in {"whole", found'}
      BY <1>1, SharedKeptByShell DEF SharedKept, ShellsOK
    <2> QED
      BY <2>1, <2>2, <2>3 DEF ShellsOK
  <1>2. CASE UNCHANGED vars
    BY <1>2 DEF vars, ShellsOK, ShellOK
  <1> QED
    BY <1>1, <1>2 DEF Next

LEMMA LauncherInvariance == Spec => [](TypeOK /\ ShellsOK)
  <1>1. Init => TypeOK /\ ShellsOK
    BY InitType, InitShells
  <1>2. TypeOK /\ ShellsOK /\ [Next]_vars => (TypeOK /\ ShellsOK)'
    BY NextType, NextShells
  <1> QED
    BY <1>1, <1>2, PTL DEF Spec

THEOREM TypeCorrect == Spec => []TypeOK
  BY LauncherInvariance, PTL

\* Gradle runs only with a verified ZIP in the cache, and from a home unpacked from
\* one unless an altered home was there before the first run.
THEOREM RunsVerifiedHolds == Spec => []RunsVerified
  <1>1. ShellsOK => RunsVerified
    BY DEF ShellsOK, ShellOK, RunsVerified, ReportsPinnedVersion
  <1> QED
    BY <1>1, LauncherInvariance, PTL

\* A shell that ends by itself leaves no download behind.
THEOREM DownloadCleanedUpHolds == Spec => []DownloadCleanedUp
  <1>1. ShellsOK => DownloadCleanedUp
    BY DEF ShellsOK, ShellOK, DownloadCleanedUp, Armed
  <1> QED
    BY <1>1, LauncherInvariance, PTL

\* The ZIP and the home change for the better only, whatever shells are killed or
\* fail half way.
THEOREM CacheOnlyImprovesHolds == Spec => CacheOnlyImproves
  <1>1. TypeOK /\ ShellsOK /\ [Next]_vars =>
          [/\ zip' # zip => zip' = "good"
           /\ home' # home => home = "none" /\ home' = "whole"]_vars
    BY SharedKeptByShell DEF Next, SharedKept
  <1> QED
    BY <1>1, LauncherInvariance, PTL DEF Spec, CacheOnlyImproves

-----------------------------------------------------------------------------
(* Who may be refused a whole home *)

\* In calm one run follows the other.
OneAtATime == calm => \A p, q \in Shells : pc[p] \in Live /\ pc[q] \in Live => p = q

Past == {"verifyHome", "running", "failed", "killed"}

\* A shell that looks at a whole home, or was refused it, found it missing before.
Raced(p) ==
    /\ pc[p] = "refused" => home # "none"
    /\ pc[p] \in {"checkHome", "refused"} /\ home = "whole" =>
          ~calm /\ \E q \in Shells \ {p} : pc[q] \in Past

RaceInv == OneAtATime /\ \A p \in Shells : Raced(p)

LEMMA NextOneAtATime ==
    ASSUME TypeOK, RaceInv, NEW p \in Shells, Launch(p) \/ Run(p) \/ Trap(p) \/ Kill(p)
    PROVE  OneAtATime' /\ calm' = calm
  <1> USE DEF TypeOK, RaceInv, OneAtATime, Goto, Fail, Live, Armed
  <1>1. ASSUME Launch(p) PROVE OneAtATime' /\ calm' = calm
    BY <1>1 DEF Launch
  <1>2. ASSUME Trap(p) \/ Kill(p) PROVE OneAtATime' /\ calm' = calm
    BY <1>2 DEF Trap, Kill
  <1>3. ASSUME Run(p)
        PROVE  /\ calm' = calm /\ pc[p] \in Live
               /\ \A q \in Shells \ {p} : pc'[q] = pc[q]
    BY <1>3 DEF Run, FindZip, VerifyZip, StartDownload, FinishDownload, VerifyDownload,
           InstallZip, FindHome, CheckHome, StartExtract, FinishExtract, MoveHome, VerifyHome
  <1>4. ASSUME Run(p) PROVE OneAtATime'
    BY <1>3, <1>4
  <1> QED
    BY <1>1, <1>2, <1>3, <1>4

\* What a step does to the home, and to the shells that have moved one there.
LEMMA HomeSteps ==
    ASSUME TypeOK, NEW p \in Shells, Launch(p) \/ Run(p) \/ Trap(p) \/ Kill(p)
    PROVE  /\ home' = home \/ (MoveHome(p) /\ home = "none" /\ pc'[p] = "verifyHome")
           /\ home # "none" => home' = home
           /\ pc[p] \in Past => pc'[p] \in Past
           /\ pc'[p] = "refused" => pc[p] = "refused" \/ CheckHome(p)
           /\ pc'[p] = "checkHome" => (FindHome(p) /\ home \notin Executable) \/ pc[p] = "checkHome"
           /\ \A q \in Shells \ {p} : pc'[q] = pc[q]
  <1> USE DEF TypeOK, Goto, Fail, Past
  <1>1. CASE Launch(p) \/ Trap(p) \/ Kill(p)
    BY <1>1 DEF Launch, Trap, Kill, Armed, Live
  <1>2. CASE FindZip(p) \/ VerifyZip(p) \/ StartDownload(p) \/ FinishDownload(p)
             \/ VerifyDownload(p)
    BY <1>2 DEF FindZip, VerifyZip, StartDownload, FinishDownload, VerifyDownload
  <1>3. CASE InstallZip(p) \/ StartExtract(p) \/ FinishExtract(p)
    BY <1>3 DEF InstallZip, StartExtract, FinishExtract
  <1>4. CASE FindHome(p) \/ CheckHome(p)
    BY <1>4 DEF FindHome, CheckHome
  <1>5. CASE MoveHome(p)
    BY <1>5 DEF MoveHome
  <1>6. CASE VerifyHome(p)
    BY <1>6 DEF VerifyHome
  <1> QED
    BY <1>1, <1>2, <1>3, <1>4, <1>5, <1>6 DEF Run

LEMMA NextRaced ==
    ASSUME TypeOK, RaceInv, NEW p \in Shells, Launch(p) \/ Run(p) \/ Trap(p) \/ Kill(p)
    PROVE  RaceInv'
  <1>1. OneAtATime' /\ calm' = calm
    BY NextOneAtATime
  <1>2. ASSUME NEW s \in Shells PROVE Raced(s)'
    <2>1. pc'[s] = "refused" => home' # "none"
      BY HomeSteps DEF CheckHome, Goto, TypeOK, RaceInv, Raced
    <2>2. ASSUME pc'[s] \in {"checkHome", "refused"}, home' = "whole"
          PROVE  ~calm' /\ \E q \in Shells \ {s} : pc'[q] \in Past
      <3>1. CASE home = "whole"
        <4>1. pc[s] \in {"checkHome", "refused"}
          BY <2>2, <3>1, HomeSteps DEF CheckHome, Executable
        <4>2. ~calm /\ \E q \in Shells \ {s} : pc[q] \in Past
          BY <3>1, <4>1 DEF RaceInv, Raced
        <4> QED
          BY <4>2, <1>1, HomeSteps
      <3>2. CASE home # "whole"
        <4>1. MoveHome(p) /\ home = "none" /\ pc'[p] = "verifyHome"
          BY <2>2, <3>2, HomeSteps
        <4>2. s # p /\ pc[s] = pc'[s] /\ pc[s] = "checkHome"
          BY <2>2, <4>1, HomeSteps DEF RaceInv, Raced
        <4>3. ~calm
          BY <4>1, <4>2 DEF RaceInv, OneAtATime, MoveHome, Live
        <4> QED
          BY <4>1, <4>2, <4>3, <1>1 DEF Past
      <3> QED
        BY <3>1, <3>2
    <2> QED
      BY <2>1, <2>2 DEF Raced
  <1> QED
    BY <1>1, <1>2 DEF RaceInv

\* A whole home is refused only by a race, never in runs that follow one another.
THEOREM WholeHomeRefusedByRaceOnlyHolds == Spec => []WholeHomeRefusedByRaceOnly
  <1>1. Init => RaceInv
    BY DEF Init, RaceInv, OneAtATime, Raced, Live, Armed
  <1>2. TypeOK /\ RaceInv /\ [Next]_vars => RaceInv'
    <2>1. ASSUME RaceInv, UNCHANGED vars PROVE RaceInv'
      BY <2>1 DEF vars, RaceInv, OneAtATime, Raced
    <2> QED
      BY <2>1, NextRaced DEF Next
  <1>3. RaceInv => WholeHomeRefusedByRaceOnly
    BY DEF RaceInv, Raced, WholeHomeRefusedByRaceOnly, Past
  <1> QED
    BY <1>1, <1>2, <1>3, TypeCorrect, PTL DEF Spec
=============================================================================
