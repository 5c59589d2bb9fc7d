--------------------------- MODULE PublicationGate ---------------------------
(***************************************************************************)
(* The last four steps of the CI workflow: publish twice and compare the   *)
(* artifacts, then build the SBOM twice and compare it.  Each step runs    *)
(* `gradlew clean ...`, then a validator (verify_publication.py or         *)
(* verify_runtime_sbom.py), then a recorder (verify_reproducible_*.py),    *)
(* which writes the hashes of the first pass or compares those of the      *)
(* second with them.  Another process may replace files of the build       *)
(* directory meanwhile, and a step may be killed and any step run next.    *)
(*                                                                         *)
(* The archives are those of build/libs: none of the steps looks at the    *)
(* copies that are staged beside the POM and the metadata.                 *)
(*                                                                         *)
(* A content stands for its digest.  A change within one read of a file is *)
(* either not seen by that read or noticed by it.                          *)
(***************************************************************************)
EXTENDS Integers, Sequences, FiniteSets

CONSTANTS
    Jars,           \* the archives, in the order of ARTIFACTS
    Variants,       \* the archive each variant of the module metadata names
    Pom, Module, Sbom,  \* the other files
    Contents,       \* what a file may contain
    Valid,          \* contents of archives, POM and SBOM that are as they should be
    Clean,          \* texts without paths, keys, timestamps and control bytes
    Metadata,       \* what comes up as module metadata, a bound
    Absent, Torn,   \* no file; a state file cut short
    Faults,         \* "build", "changed"
    MaxReplacements, MaxKills   \* bounds on what happens around the steps

JarSet == {Jars[i] : i \in DOMAIN Jars}
Files == JarSet \cup {Pom, Module, Sbom}

\* Canonical module metadata: the digest each variant names for its archive.
Documents == [DOMAIN Variants -> Contents]
Values == Contents \cup Documents
Disks == [Files -> Values \cup {Absent}]

ASSUME GateAssumption ==
    /\ Jars \in Seq(JarSet) /\ Variants \in Seq(JarSet)
    /\ Variants # <<>>
    /\ JarSet \cap {Pom, Module, Sbom} = {} /\ Cardinality({Pom, Module, Sbom}) = 3
    /\ Valid \subseteq Contents /\ Clean \subseteq Values /\ Metadata \subseteq Values
    /\ Absent \notin Values /\ Torn \notin Disks /\ Absent \notin Disks
    /\ Faults \subseteq {"build", "changed"}
    /\ MaxReplacements \in Nat /\ MaxKills \in Nat

Gates == {"publication", "sbom"}

VARIABLES
    disk,       \* the build directory
    recorded,   \* ci-state: the state file of each gate
    stage,      \* the workflow step, 1 to 4
    pc,         \* where the step is
    position,   \* in the loop over Variants or over the artifacts
    document,   \* the module metadata verify_publication has read
    data,       \* the bytes the recorder has read
    hashes,     \* the recorder's values
    built, touched,     \* what this pass built, and what was replaced since
    first,      \* the same of the pass whose hashes a gate has recorded
    replacements, kills,
    quiet       \* nothing was replaced, killed or failed

environment == <<disk, built, touched, replacements, kills, quiet>>
vars == <<disk, recorded, stage, pc, position, document, data, hashes,
          built, touched, first, replacements, kills, quiet>>

Gate == IF stage <= 2 THEN "publication" ELSE "sbom"
Recording == stage \in {1, 3}

\* ARTIFACTS, or the one file of the SBOM's recorder.
ArtifactsOf(gate) == IF gate = "publication" THEN Jars \o <<Pom, Module>> ELSE <<Sbom>>
Artifacts == ArtifactsOf(Gate)
Artifact == Artifacts[position]

NoFiles == [f \in Files |-> Absent]

\* The steps' variables keep their types, and the loops stay within their lists.
TypeOK ==
    /\ disk \in Disks /\ built \in Disks
    /\ recorded \in [Gates -> {Absent, Torn} \cup Disks]
    /\ stage \in 1..4
    /\ pc \in {"build", "pom", "module", "variants", "sbom", "read", "validate", "hash",
               "state", "writing", "matched", "rejected", "killed"}
    /\ position \in Nat \ {0}
    /\ pc = "variants" => position <= Len(Variants)
    /\ pc \in {"read", "validate", "hash"} => position <= Len(Artifacts)
    /\ document \in Documents \cup {Absent}
    /\ data \in Values \cup {Absent}
    /\ hashes \in Disks
    /\ touched \subseteq Files
    /\ first \in [Gates -> [built : Disks, touched : SUBSET Files]]
    /\ replacements \in 0..MaxReplacements
    /\ kills \in 0..MaxKills
    /\ quiet \in BOOLEAN

Init ==
    /\ disk = NoFiles
    /\ recorded = [g \in Gates |-> Absent]
    /\ stage = 1
    /\ pc = "build"
    /\ position = 1
    /\ document = Absent
    /\ data = Absent
    /\ hashes = NoFiles
    /\ built = NoFiles /\ touched = {}
    /\ first = [g \in Gates |-> [built |-> NoFiles, touched |-> {}]]
    /\ replacements = 0 /\ kills = 0
    /\ quiet = TRUE

-----------------------------------------------------------------------------
(* Build: `clean` and the tasks of the step *)

\* What a build may leave: whether it is right is for the validators to say.
Outputs ==
    IF Gate = "publication"
      THEN {[f \in Files |-> IF f \in JarSet THEN jars[f]
                             ELSE IF f = Pom THEN pom
                             ELSE IF f = Module THEN module ELSE Absent]
              : jars \in [JarSet -> Contents], pom \in Contents, module \in Metadata}
      ELSE {[NoFiles EXCEPT ![Sbom] = sbom] : sbom \in Contents}

Build ==
    /\ pc = "build"
    /\ \/ /\ \E output \in Outputs : disk' = output /\ built' = output
          /\ pc' = IF Gate = "publication" THEN "pom" ELSE "sbom"
          /\ touched' = {}
          /\ UNCHANGED quiet
       \/ /\ "build" \in Faults
          /\ pc' = "rejected" /\ quiet' = FALSE
          /\ UNCHANGED <<disk, built, touched>>
    /\ position' = 1 /\ document' = Absent /\ data' = Absent
    /\ hashes' = NoFiles
    /\ UNCHANGED <<recorded, stage, first, replacements, kills>>

-----------------------------------------------------------------------------
(* verify_publication.py and verify_runtime_sbom.py *)

Reject ==
    /\ pc' = "rejected"
    /\ UNCHANGED <<recorded, stage, position, document, data, hashes, first>>

\* "changed while being read": the size is not the one expected.
Noticed(f) == "changed" \in Faults /\ f \in touched

VerifyPom ==
    /\ pc = "pom"
    /\ \/ disk[Pom] \notin Valid /\ Reject
       \/ /\ disk[Pom] \in Valid
          /\ pc' = "module"
          /\ UNCHANGED <<recorded, stage, position, document, data, hashes, first>>
    /\ UNCHANGED environment

ReadModule ==
    /\ pc = "module"
    /\ \/ disk[Module] \notin Documents /\ Reject
       \/ /\ disk[Module] \in Documents
          /\ document' = disk[Module]
          /\ pc' = "variants"
          /\ UNCHANGED <<recorded, stage, position, data, hashes, first>>
    /\ UNCHANGED environment

\* The digest of the variant the loop is at is that of its archive.
DigestMatches == disk[Variants[position]] = document[position]

\* A loop that goes once too often.
MoreVariantsByOne == position <= Len(Variants)

MoreVariants == position < Len(Variants)

CheckVariant ==
    /\ pc = "variants"
    /\ \/ ~DigestMatches /\ Reject
       \/ Noticed(Variants[position]) /\ Reject
       \/ /\ DigestMatches
          /\ IF MoreVariants
               THEN position' = position + 1 /\ UNCHANGED pc
               ELSE position' = 1 /\ pc' = "read"
          /\ UNCHANGED <<recorded, stage, document, data, hashes, first>>
    /\ UNCHANGED environment

VerifySbom ==
    /\ pc = "sbom"
    /\ \/ disk[Sbom] \notin Valid /\ Reject
       \/ /\ disk[Sbom] \in Valid
          /\ pc' = "hash"
          /\ UNCHANGED <<recorded, stage, position, document, data, hashes, first>>
    /\ UNCHANGED environment

-----------------------------------------------------------------------------
(* verify_reproducible_outputs.py and verify_reproducible_sbom.py *)

\* The first _bounded_bytes: the file must be there.
Read ==
    /\ pc = "read"
    /\ \/ (disk[Artifact] = Absent \/ Noticed(Artifact)) /\ Reject
       \/ /\ disk[Artifact] # Absent
          /\ data' = disk[Artifact]
          /\ pc' = "validate"
          /\ UNCHANGED <<recorded, stage, position, document, hashes, first>>
    /\ UNCHANGED environment

\* A validation that takes every archive.
AcceptedUnopened == Artifact \in JarSet \/ data \in Clean

\* An archive is opened anew; of a text only the bytes read are searched.
Accepted == IF Artifact \in JarSet THEN disk[Artifact] \in Valid ELSE data \in Clean

Validate ==
    /\ pc = "validate"
    /\ \/ ~Accepted /\ Reject
       \/ /\ Accepted
          /\ pc' = "hash"
          /\ UNCHANGED <<recorded, stage, position, document, data, hashes, first>>
    /\ UNCHANGED environment

\* _hash reads the file once more.
Hash ==
    /\ pc = "hash"
    /\ \/ (disk[Artifact] = Absent \/ Noticed(Artifact)) /\ Reject
       \/ /\ disk[Artifact] # Absent
          /\ hashes' = [hashes EXCEPT ![Artifact] = disk[Artifact]]
          /\ IF position < Len(Artifacts)
               THEN position' = position + 1 /\ pc' = "read"
               ELSE pc' = "state" /\ UNCHANGED position
          /\ UNCHANGED <<recorded, stage, document, data, first>>
    /\ UNCHANGED environment

\* --write: write_text truncates the state file, then writes it.
Truncate ==
    /\ pc = "state" /\ Recording
    /\ recorded' = [recorded EXCEPT ![Gate] = Torn]
    /\ pc' = "writing"
    /\ UNCHANGED environment
    /\ UNCHANGED <<stage, position, document, data, hashes, first>>

Write ==
    /\ pc = "writing"
    /\ recorded' = [recorded EXCEPT ![Gate] = hashes]
    /\ first' = [first EXCEPT ![Gate] = [built |-> built, touched |-> touched]]
    /\ stage' = stage + 1
    /\ pc' = "build"
    /\ UNCHANGED environment
    /\ UNCHANGED <<position, document, data, hashes>>

\* Only the archives are compared.
SameArchives ==
    /\ recorded[Gate] \notin {Absent, Torn}
    /\ \A jar \in JarSet : recorded[Gate][jar] = hashes[jar]

Same == recorded[Gate] = hashes

\* --compare; _read_state refuses a state file that is missing or cut short.
Compare ==
    /\ pc = "state" /\ ~Recording
    /\ \/ ~Same /\ Reject
       \/ /\ Same
          /\ pc' = "matched"
          /\ UNCHANGED <<recorded, stage, position, document, data, hashes, first>>
    /\ UNCHANGED environment

\* The publication's comparison is done: on to the SBOM.
NextStep ==
    /\ pc = "matched" /\ stage = 2
    /\ stage' = 3
    /\ pc' = "build"
    /\ UNCHANGED environment
    /\ UNCHANGED <<recorded, position, document, data, hashes, first>>

-----------------------------------------------------------------------------
(* Around the steps *)

Running == pc \notin {"build", "matched", "rejected", "killed"}

\* Another process replaces or removes a file of the build directory.
Replace(f, value) ==
    /\ Running /\ built[f] # Absent
    /\ replacements < MaxReplacements /\ value # disk[f]
    /\ disk' = [disk EXCEPT ![f] = value]
    /\ touched' = touched \cup {f}
    /\ replacements' = replacements + 1
    /\ quiet' = FALSE
    /\ UNCHANGED <<recorded, stage, pc, position, document, data, hashes, built, first, kills>>

Kill ==
    /\ Running /\ kills < MaxKills
    /\ pc' = "killed"
    /\ kills' = kills + 1
    /\ quiet' = FALSE
    /\ UNCHANGED <<disk, recorded, stage, position, document, data, hashes,
                   built, touched, first, replacements>>

\* Somebody goes on with any of the steps; the state files are as they were left:
\* cut short, of an earlier pass, or missing.
Repeat ==
    /\ pc = "killed"
    /\ stage' \in 1..4
    /\ pc' = "build"
    /\ UNCHANGED environment
    /\ UNCHANGED <<recorded, position, document, data, hashes, first>>

Step == Build \/ VerifyPom \/ ReadModule \/ CheckVariant \/ VerifySbom \/ Read \/ Validate
        \/ Hash \/ Truncate \/ Write \/ Compare \/ NextStep

Next ==
    \/ Step
    \/ Kill
    \/ Repeat
    \/ \E f \in Files, value \in Contents \cup {Absent} : Replace(f, value)
    \/ \E value \in Metadata : Replace(Module, value)

Spec == Init /\ [][Next]_vars

-----------------------------------------------------------------------------
(* Properties *)

ArtifactSet == {Artifacts[i] : i \in DOMAIN Artifacts}

\* The validator and the recorder have nothing against a file.
Sound(f, value) ==
    value \in IF f = Pom THEN Valid \cap Clean
              ELSE IF f = Module THEN Documents \cap Clean ELSE Valid

\* When the hashes match, they are what was built: of every file that was left
\* alone during one of the two passes, the hash is that of a sound file that
\* pass's build made.  So a file left alone in both was built twice alike,
\* whatever a killed step has left in the state file.
MatchedIsReproduced ==
    pc = "matched" =>
        \A f \in ArtifactSet :
            /\ f \notin touched => hashes[f] = built[f] /\ Sound(f, hashes[f])
            /\ f \notin first[Gate].touched =>
                  hashes[f] = first[Gate].built[f] /\ Sound(f, hashes[f])

\* When the hashes match, each variant of the published metadata names its
\* archive, if in one of the two passes nobody replaced either.
MetadataNamesArchives ==
    pc = "matched" /\ Gate = "publication" =>
        \A i \in DOMAIN Variants :
            ({Variants[i], Module} \cap touched = {}
               \/ {Variants[i], Module} \cap first[Gate].touched = {})
                => hashes[Module] \in Documents /\ hashes[Module][i] = hashes[Variants[i]]

\* A pass's outputs have something wrong with them.
Wrong ==
    \/ \E f \in ArtifactSet : ~Sound(f, built[f])
    \/ Gate = "publication" /\ \E i \in DOMAIN Variants : built[Module][i] # built[Variants[i]]

\* When nothing is replaced, killed or fails, the steps refuse exactly what has
\* something wrong with it or was not built twice alike.
ExactWhenQuiet ==
    quiet =>
        /\ pc = "matched" => ~Wrong /\ built = first[Gate].built
        /\ pc = "rejected" => Wrong \/ (~Recording /\ built # first[Gate].built)
=============================================================================
