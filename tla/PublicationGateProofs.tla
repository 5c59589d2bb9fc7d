------------------------ MODULE PublicationGateProofs ------------------------
(***************************************************************************)
(* Proofs about PublicationGate, for any archives, contents, replacements  *)
(* and kills.                                                              *)
(***************************************************************************)
EXTENDS PublicationGate, FiniteSetTheorems, TLAPS

\* Where the loops start, and where the two gates and the two modes apply.
Control ==
    /\ pc \in {"pom", "module", "sbom"} => position = 1
    /\ pc = "sbom" => Gate = "sbom"
    /\ pc = "writing" => Recording
    /\ pc \in {"pom", "module", "variants", "read", "validate"} => Gate = "publication"

TypeInv == TypeOK /\ Control

\* An artifact is a file.
LEMMA ArtifactsAreFiles == ASSUME NEW i \in 1..Len(Artifacts) PROVE Artifacts[i] \in Files
<1>1. CASE Gate = "publication"
  <2>1. Jars \in Seq(JarSet) /\ <<Pom, Module>> \in Seq({Pom, Module})
    BY GateAssumption
  <2>2. Artifacts = Jars \o <<Pom, Module>>
    BY <1>1 DEF Artifacts, ArtifactsOf
  <2>3. i \in 1..(Len(Jars) + 2)
    BY <2>1, <2>2
  <2>4. CASE i <= Len(Jars)
    BY <2>1, <2>2, <2>4 DEF Files
  <2>5. CASE i = Len(Jars) + 1
    BY <2>1, <2>2, <2>5 DEF Files
  <2>6. CASE i = Len(Jars) + 2
    BY <2>1, <2>2, <2>6 DEF Files
  <2> QED  BY <2>1, <2>3, <2>4, <2>5, <2>6
<1>2. CASE Gate # "publication"
  BY <1>2 DEF Artifacts, ArtifactsOf, Files
<1> QED  BY <1>1, <1>2

LEMMA ArtifactIsFile ==
    ASSUME position \in Nat \ {0}, position <= Len(Artifacts)
    PROVE  Artifact \in Files
<1>1. Len(Artifacts) \in Nat
  BY GateAssumption DEF Artifacts, ArtifactsOf
<1> QED  BY <1>1, ArtifactsAreFiles DEF Artifact

\* There is always an artifact.
LEMMA SomeArtifact == 1 <= Len(Artifacts)
<1>1. Jars \in Seq(JarSet)
  BY GateAssumption
<1>2. Len(Jars \o <<Pom, Module>>) = Len(Jars) + 2
  BY <1>1
<1> QED  BY <1>1, <1>2 DEF Artifacts, ArtifactsOf

\* What the artifacts are.
LEMMA ArtifactSetIs ==
    /\ ArtifactSet = IF Gate = "publication" THEN JarSet \cup {Pom, Module} ELSE {Sbom}
    /\ pc \in {"read", "validate", "hash"} /\ TypeOK => Artifact \in ArtifactSet
<1>1. CASE Gate = "publication"
  <2>1. Jars \in Seq(JarSet) /\ <<Pom, Module>> \in Seq({Pom, Module})
    BY GateAssumption
  <2>2. Artifacts = Jars \o <<Pom, Module>>
    BY <1>1 DEF Artifacts, ArtifactsOf
  <2>3. /\ Len(Artifacts) = Len(Jars) + 2 /\ DOMAIN Artifacts = 1..(Len(Jars) + 2)
        /\ \A i \in 1..Len(Jars) : Artifacts[i] = Jars[i]
        /\ Artifacts[Len(Jars) + 1] = Pom /\ Artifacts[Len(Jars) + 2] = Module
        /\ Len(Jars) \in Nat /\ DOMAIN Jars = 1..Len(Jars)
    BY <2>1, <2>2
  <2>4. ASSUME NEW i \in DOMAIN Artifacts PROVE Artifacts[i] \in JarSet \cup {Pom, Module}
    <3>1. i \in 1..Len(Jars) \/ i = Len(Jars) + 1 \/ i = Len(Jars) + 2
      BY <2>3
    <3> QED  BY <2>3, <3>1 DEF JarSet
  <2>5. ASSUME NEW f \in JarSet \cup {Pom, Module} PROVE \E i \in DOMAIN Artifacts : Artifacts[i] = f
    <3>1. CASE f \in JarSet
      <4>1. PICK i \in DOMAIN Jars : f = Jars[i]
        BY <3>1 DEF JarSet
      <4> QED  BY <2>3, <4>1
    <3>2. CASE f = Pom
      BY <2>3, <3>2
    <3>3. CASE f = Module
      BY <2>3, <3>3
    <3> QED  BY <3>1, <3>2, <3>3
  <2>6. pc \in {"read", "validate", "hash"} /\ TypeOK => position \in DOMAIN Artifacts
    BY <2>3 DEF TypeOK
  <2> QED  BY <1>1, <2>4, <2>5, <2>6 DEF ArtifactSet, Artifact
<1>2. CASE Gate # "publication"
  <2>1. Artifacts = <<Sbom>>
    BY <1>2 DEF Artifacts, ArtifactsOf
  <2>2. pc \in {"read", "validate", "hash"} /\ TypeOK => position \in DOMAIN Artifacts
    BY <2>1 DEF TypeOK
  <2> QED  BY <1>2, <2>1, <2>2 DEF ArtifactSet, Artifact
<1> QED  BY <1>1, <1>2

\* The three files beside the archives are different ones.
LEMMA ThreeFiles == Pom # Module /\ Pom # Sbom /\ Module # Sbom
<1>1. Cardinality({Pom, Module, Sbom}) = 3
  BY GateAssumption
<1>2. ASSUME NEW x, NEW y, {Pom, Module, Sbom} = {x, y} PROVE FALSE
  <2>1. Cardinality({x, y}) <= 2
    <3>1. IsFiniteSet({x}) /\ Cardinality({x}) = 1
      BY FS_Singleton
    <3>2. Cardinality({x} \cup {y}) \in {1, 2}
      BY <3>1, FS_AddElement
    <3>3. {x, y} = {x} \cup {y}
      OBVIOUS
    <3> QED  BY <3>2, <3>3
  <2>2. Cardinality({x, y}) = 3
    BY <1>1, <1>2
  <2> QED  BY <2>1, <2>2
<1>3. Pom = Module => {Pom, Module, Sbom} = {Pom, Sbom}
  OBVIOUS
<1>4. Pom = Sbom => {Pom, Module, Sbom} = {Pom, Module}
  OBVIOUS
<1>5. Module = Sbom => {Pom, Module, Sbom} = {Pom, Module}
  OBVIOUS
<1> QED  BY <1>2, <1>3, <1>4, <1>5

\* What a build leaves is a build directory.
LEMMA OutputsAreDisks == Outputs \subseteq Disks
<1>1. CASE Gate = "publication"
  <2> SUFFICES ASSUME NEW jars \in [JarSet -> Contents], NEW pom \in Contents,
                      NEW module \in Metadata
               PROVE  [f \in Files |-> IF f \in JarSet THEN jars[f]
                                       ELSE IF f = Pom THEN pom
                                       ELSE IF f = Module THEN module ELSE Absent] \in Disks
    BY <1>1 DEF Outputs
  <2> QED  BY GateAssumption DEF Disks, Values
<1>2. CASE Gate # "publication"
  BY <1>2 DEF Outputs, NoFiles, Disks, Values
<1> QED  BY <1>1, <1>2

LEMMA TypeInit == Init => TypeInv
<1> SUFFICES ASSUME Init PROVE TypeInv
  OBVIOUS
<1>1. NoFiles \in Disks
  BY DEF NoFiles, Disks
<1>2. first \in [Gates -> [built : Disks, touched : SUBSET Files]]
  BY <1>1 DEF Init
<1> QED  BY <1>1, <1>2, GateAssumption DEF Init, TypeInv, TypeOK, Control, Gate, Recording

\* What Reject does to the types, wherever it is taken.
LEMMA TypeReject ==
    ASSUME TypeInv, Reject, disk' \in Disks, built' \in Disks, touched' \subseteq Files,
           replacements' \in 0..MaxReplacements, kills' \in 0..MaxKills, quiet' \in BOOLEAN
    PROVE  TypeInv'
BY DEF TypeInv, TypeOK, Control, Reject, Gate, Recording

LEMMA TypeBuild == TypeInv /\ Build => TypeInv'
<1> SUFFICES ASSUME TypeInv, Build PROVE TypeInv'
  OBVIOUS
<1>1. NoFiles \in Disks
  BY DEF NoFiles, Disks
<1>2. disk' \in Disks /\ built' \in Disks /\ touched' \subseteq Files /\ quiet' \in BOOLEAN
  BY OutputsAreDisks DEF Build, TypeInv, TypeOK
<1>3. pc' \in {"pom", "sbom", "rejected"} /\ position' = 1
  BY DEF Build
<1>4. pc' = "sbom" => Gate' = "sbom"
  BY DEF Build, Gate
<1> QED  BY <1>1, <1>2, <1>3, <1>4 DEF Build, TypeInv, TypeOK, Control, Gate

LEMMA TypeValidators ==
    TypeInv /\ (VerifyPom \/ ReadModule \/ CheckVariant \/ VerifySbom) => TypeInv'
<1> SUFFICES ASSUME TypeInv, VerifyPom \/ ReadModule \/ CheckVariant \/ VerifySbom PROVE TypeInv'
  OBVIOUS
<1>0. UNCHANGED environment
  BY DEF VerifyPom, ReadModule, CheckVariant, VerifySbom
<1>1. CASE Reject
  BY <1>0, <1>1, TypeReject DEF environment, TypeInv, TypeOK
<1>2. CASE VerifyPom /\ ~Reject
  BY <1>2 DEF VerifyPom, environment, TypeInv, TypeOK, Control, Gate
<1>3. CASE ReadModule /\ ~Reject
  <2>1. 1 <= Len(Variants)
    BY GateAssumption
  <2> QED  BY <1>3, <2>1 DEF ReadModule, environment, TypeInv, TypeOK, Control, Gate
<1>4. CASE CheckVariant /\ ~Reject
  <2>1. Len(Variants) \in Nat
    BY GateAssumption
  <2>2. pc = "variants" /\ UNCHANGED <<recorded, stage, document, data, hashes, first>>
    BY <1>4 DEF CheckVariant
  <2>3. CASE MoreVariants /\ position' = position + 1 /\ UNCHANGED pc
    BY <1>4, <1>0, <2>1, <2>2, <2>3
       DEF CheckVariant, MoreVariants, environment, TypeInv, TypeOK, Control, Gate
  <2>4. CASE position' = 1 /\ pc' = "read"
    <3>1. 1 <= Len(Artifacts)'
      BY SomeArtifact, <2>2 DEF Artifacts, ArtifactsOf, Gate
    <3> QED  BY <1>0, <2>2, <2>4, <3>1 DEF environment, TypeInv, TypeOK, Control, Gate
  <2> QED  BY <1>4, <2>3, <2>4 DEF CheckVariant
<1>5. CASE VerifySbom /\ ~Reject
  <2>1. UNCHANGED <<recorded, stage, position, document, data, hashes, first>>
        /\ pc = "sbom" /\ pc' = "hash"
    BY <1>5 DEF VerifySbom
  <2>2. position' <= Len(Artifacts)'
    BY <2>1, SomeArtifact DEF Artifacts, ArtifactsOf, Gate, TypeInv, Control
  <2> QED  BY <1>0, <2>1, <2>2 DEF environment, TypeInv, TypeOK, Control, Gate
<1> QED  BY <1>1, <1>2, <1>3, <1>4, <1>5

LEMMA TypeRecorder ==
    TypeInv /\ (Read \/ Validate \/ Hash \/ Truncate \/ Write \/ Compare \/ NextStep) => TypeInv'
<1> SUFFICES ASSUME TypeInv, Read \/ Validate \/ Hash \/ Truncate \/ Write \/ Compare \/ NextStep
             PROVE  TypeInv'
  OBVIOUS
<1>0. UNCHANGED environment
  BY DEF Read, Validate, Hash, Truncate, Write, Compare, NextStep
<1>1. CASE Reject
  BY <1>0, <1>1, TypeReject DEF environment, TypeInv, TypeOK
<1>2. CASE Read /\ ~Reject
  <2>1. pc = "read" /\ pc' = "validate" /\ disk[Artifact] # Absent /\ data' = disk[Artifact]
        /\ UNCHANGED <<recorded, stage, position, document, hashes, first>>
    BY <1>2 DEF Read
  <2>2. Artifact \in Files
    BY <2>1, ArtifactIsFile DEF TypeInv, TypeOK
  <2>3. data' \in Values
    BY <2>1, <2>2 DEF TypeInv, TypeOK, Disks
  <2>4. position' <= Len(Artifacts)'
    BY <2>1 DEF Artifacts, ArtifactsOf, Gate, TypeInv, TypeOK
  <2> QED  BY <1>0, <2>1, <2>3, <2>4 DEF environment, TypeInv, TypeOK, Control, Gate
<1>3. CASE Validate /\ ~Reject
  <2>1. pc = "validate" /\ pc' = "hash"
        /\ UNCHANGED <<recorded, stage, position, document, data, hashes, first>>
    BY <1>3 DEF Validate
  <2>2. position' <= Len(Artifacts)'
    BY <2>1 DEF Artifacts, ArtifactsOf, Gate, TypeInv, TypeOK
  <2> QED  BY <1>0, <2>1, <2>2 DEF environment, TypeInv, TypeOK, Control, Gate
<1>4. CASE Hash /\ ~Reject
  <2>1. /\ pc = "hash" /\ disk[Artifact] # Absent
        /\ hashes' = [hashes EXCEPT ![Artifact] = disk[Artifact]]
        /\ UNCHANGED <<recorded, stage, document, data, first>>
        /\ \/ position < Len(Artifacts) /\ position' = position + 1 /\ pc' = "read"
           \/ pc' = "state" /\ UNCHANGED position
    BY <1>4 DEF Hash
  <2>2. Artifact \in Files
    BY <2>1, ArtifactIsFile DEF TypeInv, TypeOK
  <2>3. hashes' \in Disks
    BY <2>1, <2>2 DEF TypeInv, TypeOK, Disks
  <2>4. Artifacts' = Artifacts /\ Gate' = Gate
    BY <2>1 DEF Artifacts, ArtifactsOf, Gate
  <2>5. Len(Artifacts) \in Nat
    BY GateAssumption DEF Artifacts, ArtifactsOf
  <2>6. CASE position < Len(Artifacts) /\ position' = position + 1 /\ pc' = "read"
    <3>1. position' \in Nat \ {0} /\ position' <= Len(Artifacts)'
      BY <2>4, <2>5, <2>6 DEF TypeInv, TypeOK
    <3>2. Gate = "publication"
      <4>1. position \in Nat \ {0} /\ position < Len(Artifacts)
        BY <2>6 DEF TypeInv, TypeOK
      <4>2. Gate # "publication" => Len(Artifacts) = 1
        BY DEF Artifacts, ArtifactsOf
      <4>3. ~(position < 1)
        BY <4>1
      <4> QED  BY <4>1, <4>2, <4>3
    <3> QED  BY <1>0, <2>1, <2>3, <2>4, <2>6, <3>1, <3>2 DEF environment, TypeInv, TypeOK, Control
  <2>7. CASE pc' = "state" /\ UNCHANGED position
    <3>1. TypeOK'
      BY <1>0, <2>1, <2>3, <2>7 DEF environment, TypeInv, TypeOK
    <3> QED  BY <2>7, <3>1 DEF TypeInv, Control
  <2> QED  BY <2>1, <2>6, <2>7
<1>5. CASE Truncate
  <2>1. Gate \in Gates
    BY DEF Gate, Gates
  <2> QED  BY <1>5, <2>1 DEF Truncate, environment, TypeInv, TypeOK, Control, Gate, Recording
<1>6. CASE Write
  <2>1. Gate \in Gates
    BY DEF Gate, Gates
  <2>2. stage' \in 1..4
    BY <1>6 DEF Write, TypeInv, TypeOK, Control, Recording
  <2> QED  BY <1>6, <2>1, <2>2 DEF Write, environment, TypeInv, TypeOK, Control
<1>7. CASE Compare /\ ~Reject
  BY <1>7 DEF Compare, environment, TypeInv, TypeOK, Control
<1>8. CASE NextStep
  BY <1>8 DEF NextStep, environment, TypeInv, TypeOK, Control
<1> QED  BY <1>1, <1>2, <1>3, <1>4, <1>5, <1>6, <1>7, <1>8

LEMMA TypeAround ==
    ASSUME TypeInv,
           Kill \/ Repeat \/ \E f \in Files, value \in Values \cup {Absent} : Replace(f, value)
    PROVE  TypeInv'
<1>1. CASE Kill
  <2>1. MaxKills \in Nat
    BY GateAssumption
  <2>2. pc' = "killed" /\ kills' \in 0..MaxKills /\ quiet' = FALSE
    BY <1>1, <2>1 DEF Kill, TypeInv, TypeOK
  <2>3. UNCHANGED <<disk, recorded, stage, position, document, data, hashes,
                    built, touched, first, replacements>>
    BY <1>1 DEF Kill
  <2> QED  BY <2>2, <2>3 DEF TypeInv, TypeOK, Control
<1>2. CASE Repeat
  BY <1>2 DEF Repeat, environment, TypeInv, TypeOK, Control
<1>3. ASSUME NEW f \in Files, NEW value \in Values \cup {Absent}, Replace(f, value)
      PROVE  TypeInv'
  <2>1. disk' \in Disks /\ touched' \subseteq Files /\ replacements' \in 0..MaxReplacements
    BY <1>3, GateAssumption DEF Replace, TypeInv, TypeOK, Disks
  <2>2. UNCHANGED <<recorded, stage, pc, position, document, data, hashes, built, first, kills>>
        /\ quiet' = FALSE
    BY <1>3 DEF Replace
  <2>3. Artifacts' = Artifacts /\ Gate' = Gate /\ Recording' = Recording
    BY <2>2 DEF Artifacts, ArtifactsOf, Gate, Recording
  <2> QED  BY <2>1, <2>2, <2>3 DEF TypeInv, TypeOK, Control
<1> QED  BY <1>1, <1>2, <1>3

\* A replacement of the module metadata is a replacement.
LEMMA NextCases ==
    ASSUME Next
    PROVE  \/ Build
           \/ VerifyPom \/ ReadModule \/ CheckVariant \/ VerifySbom
           \/ Read \/ Validate \/ Hash \/ Truncate \/ Write \/ Compare \/ NextStep
           \/ Kill \/ Repeat
           \/ \E f \in Files, value \in Values \cup {Absent} : Replace(f, value)
BY GateAssumption DEF Next, Step, Files, Values

LEMMA TypeNext == TypeInv /\ [Next]_vars => TypeInv'
<1>1. TypeInv /\ Next => TypeInv'
  BY NextCases, TypeBuild, TypeValidators, TypeRecorder, TypeAround
<1>2. TypeInv /\ UNCHANGED vars => TypeInv'
  BY DEF vars, TypeInv, TypeOK, Control, Gate, Recording, Artifacts, ArtifactsOf
<1> QED  BY <1>1, <1>2

LEMMA TypeInvariant == Spec => []TypeInv
BY TypeInit, TypeNext, PTL DEF Spec

\* The variables of the four steps keep their types, for any archives, contents,
\* replacements and kills, and the loops stay within their lists.
THEOREM TypeCorrect == Spec => []TypeOK
<1>1. TypeInv => TypeOK
  BY DEF TypeInv
<1> QED  BY <1>1, TypeInvariant, PTL

-----------------------------------------------------------------------------
(* What a hash stands for *)

\* A file left alone since the build is hashed as it was built, and sound.
AsBuilt(f) == f \notin touched => hashes[f] = built[f] /\ Sound(f, hashes[f])
AsFirstBuilt(g, f) ==
    f \notin first[g].touched
        => recorded[g][f] = first[g].built[f] /\ Sound(f, recorded[g][f])

\* A variant of the metadata a pass built names the archive it built.
Names(output, i) == output[Module] \in Documents /\ output[Module][i] = output[Variants[i]]
Named(i) == {Variants[i], Module} \cap touched = {} => Names(built, i)

FilesOf(g) == {ArtifactsOf(g)[i] : i \in DOMAIN ArtifactsOf(g)}
Kept(g) == recorded[g] \notin {Absent, Torn}

\* What was left alone is as built.
Left == \A f \in Files : f \notin touched => disk[f] = built[f]

\* verify_publication: the texts it has accepted, and the loop over the variants.
Recorder == {"read", "validate", "hash", "state", "writing", "matched"}
PomVerified ==
    pc \in {"module", "variants"} \cup Recorder /\ Gate = "publication" /\ Pom \notin touched
        => built[Pom] \in Valid
ModuleVerified ==
    pc \in {"variants"} \cup Recorder /\ Gate = "publication" /\ Module \notin touched
        => built[Module] \in Documents
VariantsChecked ==
    pc = "variants" => /\ Module \notin touched => document = built[Module]
                       /\ document \in Documents
                       /\ \A i \in 1..(position - 1) : Named(i)
AllNamed == pc \in Recorder /\ Gate = "publication" => \A i \in DOMAIN Variants : Named(i)
Verified == PomVerified /\ ModuleVerified /\ AllNamed

\* The recorder's loop: the files hashed so far, and the one it is at.
SoFarHashed ==
    pc \in {"read", "validate", "hash"} => \A i \in 1..(position - 1) : AsBuilt(Artifacts[i])
AllHashed == pc \in {"state", "writing", "matched"} => \A f \in ArtifactSet : AsBuilt(f)
DataRead == pc = "validate" /\ Artifact \notin touched => data = built[Artifact]
AcceptedSound == pc = "hash" /\ Artifact \notin touched => Sound(Artifact, built[Artifact])

\* What the recorded hashes of either gate stand for.
FirstHashed == \A g \in Gates : Kept(g) => \A f \in FilesOf(g) : AsFirstBuilt(g, f)
FirstNamed ==
    Kept("publication") =>
        \A i \in DOMAIN Variants :
            {Variants[i], Module} \cap first["publication"].touched = {}
                => Names(first["publication"].built, i)
MatchedRecorded == pc = "matched" => recorded[Gate] = hashes /\ ~Recording

GateInv ==
    /\ Left
    /\ VariantsChecked /\ Verified
    /\ SoFarHashed /\ AllHashed /\ DataRead /\ AcceptedSound
    /\ FirstHashed /\ FirstNamed /\ MatchedRecorded

Inv == TypeInv /\ GateInv

\* The facts about the recorded hashes depend on two variables.
LEMMA FirstKept ==
    ASSUME FirstHashed, FirstNamed, UNCHANGED <<recorded, first>>
    PROVE  FirstHashed' /\ FirstNamed'
BY DEF FirstHashed, FirstNamed, Kept, FilesOf, ArtifactsOf, AsFirstBuilt, Names, Sound

\* The artifacts are those of the gate.
LEMMA OfGate == Gate \in Gates /\ ArtifactSet = FilesOf(Gate)
BY DEF Gate, Gates, ArtifactSet, Artifacts, ArtifactsOf, FilesOf

\* What the validator has established stays while the outputs do.
LEMMA VerifiedKept ==
    ASSUME Verified, UNCHANGED <<stage, built>>, touched \subseteq touched',
           pc' \in Recorder => pc \in Recorder,
           pc' \in {"module", "variants"} => pc' = pc
    PROVE  Verified'
<1>1. Gate' = Gate
  BY DEF Gate
<1>2. \A i : Named(i) => Named(i)'
  BY DEF Named, Names
<1> QED  BY <1>1, <1>2 DEF Verified, PomVerified, ModuleVerified, AllNamed, Recorder

\* Outside the loops and after them only the build directory and the recorded
\* hashes matter.
LEMMA OutsideLoops ==
    ASSUME GateInv, Left', UNCHANGED <<recorded, first>>,
           pc' \in {"rejected", "killed", "build", "pom", "sbom"}
    PROVE  GateInv'
<1>1. FirstHashed' /\ FirstNamed'
  BY FirstKept DEF GateInv
<1> QED  BY <1>1 DEF GateInv, VariantsChecked, Verified, PomVerified, ModuleVerified, AllNamed,
                     Recorder, SoFarHashed, AllHashed, DataRead, AcceptedSound, MatchedRecorded

LEMMA LeftKept == ASSUME Left, UNCHANGED environment PROVE Left'
BY DEF Left, environment

LEMMA GateReject == ASSUME Inv, Reject, UNCHANGED environment PROVE GateInv'
BY LeftKept, OutsideLoops DEF Inv, GateInv, Reject

LEMMA GateInit == Init => GateInv
<1> SUFFICES ASSUME Init PROVE GateInv
  OBVIOUS
<1>1. \A g \in Gates : ~Kept(g)
  BY DEF Init, Kept
<1> QED  BY <1>1 DEF Init, GateInv, Left, VariantsChecked, Verified, PomVerified, ModuleVerified,
                     AllNamed, Recorder, SoFarHashed, AllHashed, DataRead, AcceptedSound,
                     FirstHashed, FirstNamed, MatchedRecorded, Gates

LEMMA GateBuild == Inv /\ Build => GateInv'
<1> SUFFICES ASSUME Inv, Build PROVE GateInv'
  OBVIOUS
<1>1. Left'
  BY DEF Build, Left, Inv, GateInv
<1>2. pc' \in {"pom", "sbom", "rejected"} /\ UNCHANGED <<recorded, stage, first>>
  BY DEF Build
<1> QED  BY <1>1, <1>2, OutsideLoops DEF Inv

LEMMA GateValidators ==
    Inv /\ (VerifyPom \/ ReadModule \/ CheckVariant \/ VerifySbom) => GateInv'
<1> SUFFICES ASSUME Inv, VerifyPom \/ ReadModule \/ CheckVariant \/ VerifySbom PROVE GateInv'
  OBVIOUS
<1>0. UNCHANGED environment
  BY DEF VerifyPom, ReadModule, CheckVariant, VerifySbom
<1>a. Left' /\ Left
  BY <1>0, LeftKept DEF Inv, GateInv
<1>1. CASE Reject
  BY <1>0, <1>1, GateReject
<1>2. CASE VerifyPom /\ ~Reject
  <2>1. /\ pc = "pom" /\ pc' = "module" /\ disk[Pom] \in Valid
        /\ UNCHANGED <<recorded, stage, position, document, data, hashes, first>>
    BY <1>2 DEF VerifyPom
  <2>2. Verified'
    BY <1>0, <1>a, <2>1 DEF Verified, PomVerified, ModuleVerified, AllNamed, Recorder, Left,
                            environment, Files
  <2>3. FirstHashed' /\ FirstNamed'
    BY <2>1, FirstKept DEF Inv, GateInv
  <2> QED  BY <1>a, <2>1, <2>2, <2>3 DEF GateInv, VariantsChecked, SoFarHashed, AllHashed,
                                         DataRead, AcceptedSound, MatchedRecorded
<1>3. CASE ReadModule /\ ~Reject
  <2>1. /\ pc = "module" /\ pc' = "variants"
        /\ disk[Module] \in Documents /\ document' = disk[Module]
        /\ UNCHANGED <<recorded, stage, position, data, hashes, first>>
    BY <1>3 DEF ReadModule
  <2>2. position' = 1 /\ Gate' = Gate
    BY <2>1 DEF Inv, TypeInv, Control, Gate
  <2>3. VariantsChecked'
    BY <1>0, <1>a, <2>1, <2>2 DEF VariantsChecked, Left, environment, Files
  <2>4. Verified'
    BY <1>0, <1>a, <2>1, <2>2 DEF Verified, PomVerified, ModuleVerified, AllNamed, Recorder, Left,
                                  environment, Files, Inv, GateInv
  <2>5. FirstHashed' /\ FirstNamed'
    BY <2>1, FirstKept DEF Inv, GateInv
  <2> QED  BY <1>a, <2>1, <2>3, <2>4, <2>5 DEF GateInv, SoFarHashed, AllHashed, DataRead,
                                               AcceptedSound, MatchedRecorded
<1>4. CASE CheckVariant /\ ~Reject
  <2>1. /\ pc = "variants" /\ DigestMatches
        /\ UNCHANGED <<recorded, stage, document, data, hashes, first>>
        /\ \/ position < Len(Variants) /\ position' = position + 1 /\ UNCHANGED pc
           \/ ~(position < Len(Variants)) /\ position' = 1 /\ pc' = "read"
    BY <1>4 DEF CheckVariant, MoreVariants
  <2>2. Variants \in Seq(JarSet) /\ position \in 1..Len(Variants) /\ Len(Variants) \in Nat
    BY <2>1, GateAssumption DEF Inv, TypeInv, TypeOK
  <2>3. Variants[position] \in JarSet
    BY <2>2
  <2>4. Named(position)
    <3> SUFFICES ASSUME Variants[position] \notin touched, Module \notin touched
                 PROVE  Names(built, position)
      BY DEF Named
    <3>1. disk[Variants[position]] = built[Variants[position]]
      BY <1>a, <2>3 DEF Left, Files
    <3>2. document = built[Module] /\ document \in Documents
      BY <2>1 DEF Inv, GateInv, VariantsChecked
    <3> QED  BY <2>1, <3>1, <3>2 DEF Names, DigestMatches
  <2>5. \A i \in 1..position : Named(i)
    <3>1. \A i \in 1..(position - 1) : Named(i)
      BY <2>1 DEF Inv, GateInv, VariantsChecked
    <3> QED  BY <2>2, <2>4, <3>1
  <2>6. FirstHashed' /\ FirstNamed'
    BY <2>1, FirstKept DEF Inv, GateInv
  <2>7. \A i : Named(i)' <=> Named(i)
    BY <1>0 DEF Named, Names, environment
  <2>8. CASE position < Len(Variants) /\ position' = position + 1 /\ UNCHANGED pc
    <3>1. VariantsChecked'
      <4>1. \A i \in 1..(position' - 1) : Named(i)
        BY <2>2, <2>5, <2>8
      <4>2. (Module \notin touched => document = built[Module]) /\ document \in Documents
        BY <2>1 DEF Inv, GateInv, VariantsChecked
      <4> QED  BY <1>0, <2>1, <2>7, <4>1, <4>2 DEF VariantsChecked, environment
    <3>2. Verified'
      BY <1>0, <2>1, <2>8, VerifiedKept DEF environment, Inv, GateInv
    <3> QED  BY <1>a, <2>1, <2>6, <2>8, <3>1, <3>2 DEF GateInv, SoFarHashed, AllHashed,
                                                   DataRead, AcceptedSound, MatchedRecorded
  <2>9. CASE ~(position < Len(Variants)) /\ position' = 1 /\ pc' = "read"
    <3>1. DOMAIN Variants = 1..position
      BY <2>2, <2>9
    <3>2. AllNamed'
      BY <2>5, <2>7, <3>1 DEF AllNamed
    <3>3. PomVerified' /\ ModuleVerified'
      BY <1>0, <2>1, <2>9 DEF PomVerified, ModuleVerified, Gate, environment, Inv, GateInv, Verified
    <3>4. SoFarHashed'
      BY <2>9 DEF SoFarHashed
    <3> QED  BY <1>a, <2>6, <2>9, <3>2, <3>3, <3>4
                DEF GateInv, Verified, VariantsChecked, AllHashed, DataRead, AcceptedSound,
                    MatchedRecorded
  <2> QED  BY <2>1, <2>8, <2>9
<1>5. CASE VerifySbom /\ ~Reject
  <2>1. /\ pc = "sbom" /\ pc' = "hash" /\ disk[Sbom] \in Valid
        /\ UNCHANGED <<recorded, stage, position, document, data, hashes, first>>
    BY <1>5 DEF VerifySbom
  <2>2. position' = 1 /\ Gate' = "sbom"
    BY <2>1 DEF Inv, TypeInv, Control, Gate
  <2>3. Artifact' = Sbom
    BY <2>2 DEF Artifact, Artifacts, ArtifactsOf
  <2>4. AcceptedSound'
    BY <1>0, <1>a, <2>1, <2>3, ThreeFiles DEF AcceptedSound, Left, Sound, environment, Files
  <2>5. SoFarHashed' /\ Verified'
    BY <2>1, <2>2 DEF SoFarHashed, Verified, PomVerified, ModuleVerified, AllNamed
  <2>6. FirstHashed' /\ FirstNamed'
    BY <2>1, FirstKept DEF Inv, GateInv
  <2> QED  BY <1>a, <2>1, <2>4, <2>5, <2>6 DEF GateInv, VariantsChecked, AllHashed, DataRead,
                                           MatchedRecorded
<1> QED  BY <1>1, <1>2, <1>3, <1>4, <1>5

LEMMA GateRecorder ==
    Inv /\ (Read \/ Validate \/ Hash \/ Truncate \/ Write \/ Compare \/ NextStep) => GateInv'
<1> SUFFICES ASSUME Inv, Read \/ Validate \/ Hash \/ Truncate \/ Write \/ Compare \/ NextStep
             PROVE  GateInv'
  OBVIOUS
<1>0. UNCHANGED environment
  BY DEF Read, Validate, Hash, Truncate, Write, Compare, NextStep
<1>a. Left' /\ Left
  BY <1>0, LeftKept DEF Inv, GateInv
<1>b. UNCHANGED <<built, touched>> /\ Verified
  BY <1>0 DEF environment, Inv, GateInv
<1>1. CASE Reject
  BY <1>0, <1>1, GateReject
<1>2. CASE Read /\ ~Reject
  <2>1. /\ pc = "read" /\ pc' = "validate" /\ data' = disk[Artifact]
        /\ UNCHANGED <<recorded, stage, position, document, hashes, first>>
    BY <1>2 DEF Read
  <2>2. Artifact' = Artifact /\ Artifacts' = Artifacts
    BY <2>1 DEF Artifact, Artifacts, ArtifactsOf, Gate
  <2>3. Artifact \in Files
    BY <2>1, ArtifactIsFile DEF Inv, TypeInv, TypeOK
  <2>4. DataRead'
    BY <1>0, <1>a, <2>1, <2>2, <2>3 DEF DataRead, Left, environment
  <2>5. SoFarHashed'
    BY <1>0, <2>1, <2>2 DEF SoFarHashed, AsBuilt, Sound, environment, Inv, GateInv
  <2>6. Verified'
    BY <1>b, <2>1, VerifiedKept DEF Recorder
  <2>7. FirstHashed' /\ FirstNamed'
    BY <2>1, FirstKept DEF Inv, GateInv
  <2> QED  BY <1>a, <2>1, <2>4, <2>5, <2>6, <2>7
              DEF GateInv, VariantsChecked, AllHashed, AcceptedSound, MatchedRecorded
<1>3. CASE Validate /\ ~Reject
  <2>1. /\ pc = "validate" /\ pc' = "hash" /\ Accepted
        /\ UNCHANGED <<recorded, stage, position, document, data, hashes, first>>
    BY <1>3 DEF Validate
  <2>2. Artifact' = Artifact /\ Artifacts' = Artifacts
    BY <2>1 DEF Artifact, Artifacts, ArtifactsOf, Gate
  <2>3. Artifact \in Files /\ Artifact \in JarSet \cup {Pom, Module} /\ Gate = "publication"
    BY <2>1, ArtifactIsFile, ArtifactSetIs DEF Inv, TypeInv, TypeOK, Control
  <2>4. Artifact \notin touched => Sound(Artifact, built[Artifact])
    <3> SUFFICES ASSUME Artifact \notin touched PROVE Sound(Artifact, built[Artifact])
      OBVIOUS
    <3>1. CASE Artifact \in JarSet
      BY <1>a, <2>1, <2>3, <3>1, GateAssumption DEF Accepted, Left, Sound
    <3>2. CASE Artifact \notin JarSet
      <4>1. built[Artifact] \in Clean
        BY <2>1, <3>2 DEF Accepted, DataRead, Inv, GateInv
      <4>2. Artifact = Pom => built[Artifact] \in Valid
        BY <1>b, <2>1, <2>3 DEF Verified, PomVerified, Recorder
      <4>3. Artifact = Module => built[Artifact] \in Documents
        BY <1>b, <2>1, <2>3 DEF Verified, ModuleVerified, Recorder
      <4> QED  BY <2>3, <3>2, <4>1, <4>2, <4>3 DEF Sound
    <3> QED  BY <3>1, <3>2
  <2>5. AcceptedSound'
    BY <1>0, <2>2, <2>4 DEF AcceptedSound, Sound, environment
  <2>6. SoFarHashed'
    BY <1>0, <2>1, <2>2 DEF SoFarHashed, AsBuilt, Sound, environment, Inv, GateInv
  <2>7. Verified'
    BY <1>b, <2>1, VerifiedKept DEF Recorder
  <2>8. FirstHashed' /\ FirstNamed'
    BY <2>1, FirstKept DEF Inv, GateInv
  <2> QED  BY <1>a, <2>1, <2>5, <2>6, <2>7, <2>8
              DEF GateInv, VariantsChecked, AllHashed, DataRead, MatchedRecorded
<1>4. CASE Hash /\ ~Reject
  <2>1. /\ pc = "hash"
        /\ hashes' = [hashes EXCEPT ![Artifact] = disk[Artifact]]
        /\ UNCHANGED <<recorded, stage, document, data, first>>
        /\ \/ position < Len(Artifacts) /\ position' = position + 1 /\ pc' = "read"
           \/ ~(position < Len(Artifacts)) /\ pc' = "state" /\ UNCHANGED position
    BY <1>4 DEF Hash
  <2>2. Artifacts' = Artifacts /\ ArtifactSet' = ArtifactSet
    BY <2>1 DEF Artifacts, ArtifactsOf, Gate, ArtifactSet
  <2>3. Len(Artifacts) \in Nat /\ position \in 1..Len(Artifacts)
    BY <2>1, GateAssumption DEF Artifacts, ArtifactsOf, Inv, TypeInv, TypeOK
  <2>4. Artifact \in Files /\ \A i \in 1..Len(Artifacts) : Artifacts[i] \in Files
    BY <2>3, ArtifactsAreFiles DEF Artifact
  <2>5. ASSUME NEW f \in Files, f = Artifact \/ AsBuilt(f)
        PROVE  AsBuilt(f)'
    <3>1. hashes \in [Files -> Values \cup {Absent}]
      BY DEF Inv, TypeInv, TypeOK, Disks
    <3>2. CASE f = Artifact
      <4>1. hashes'[f] = disk[f]
        BY <2>1, <3>1, <3>2
      <4>2. f \notin touched => disk[f] = built[f] /\ Sound(f, built[f])
        BY <1>a, <2>1, <3>2 DEF Left, AcceptedSound, Inv, GateInv
      <4> QED  BY <1>b, <4>1, <4>2 DEF AsBuilt, Sound
    <3>3. CASE f # Artifact
      <4>1. hashes'[f] = hashes[f]
        BY <2>1, <3>1, <3>3
      <4> QED  BY <1>b, <2>5, <3>3, <4>1 DEF AsBuilt, Sound
    <3> QED  BY <3>2, <3>3
  <2>6. \A i \in 1..position : AsBuilt(Artifacts[i])'
    <3> SUFFICES ASSUME NEW i \in 1..position PROVE AsBuilt(Artifacts[i])'
      OBVIOUS
    <3>1. Artifacts[i] \in Files
      BY <2>3, <2>4
    <3>2. Artifacts[i] = Artifact \/ AsBuilt(Artifacts[i])
      <4>1. \A k \in 1..(position - 1) : AsBuilt(Artifacts[k])
        BY <2>1 DEF SoFarHashed, Inv, GateInv
      <4>2. i = position \/ i \in 1..(position - 1)
        BY <2>3
      <4> QED  BY <4>1, <4>2 DEF Artifact
    <3>3. \A f \in Files : (f = Artifact \/ AsBuilt(f)) => AsBuilt(f)'
      BY <2>5
    <3> QED  BY <2>2, <3>1, <3>2, <3>3 DEF AsBuilt, Sound
  <2>7. Verified'
    BY <1>b, <2>1, VerifiedKept DEF Recorder
  <2>8. FirstHashed' /\ FirstNamed'
    BY <2>1, FirstKept DEF Inv, GateInv
  <2>9. CASE position < Len(Artifacts) /\ position' = position + 1 /\ pc' = "read"
    <3>1. position' - 1 = position
      BY <2>3, <2>9
    <3>2. SoFarHashed'
      BY <2>2, <2>6, <3>1 DEF SoFarHashed, AsBuilt, Sound
    <3> QED  BY <1>a, <2>7, <2>8, <2>9, <3>2
                DEF GateInv, VariantsChecked, AllHashed, DataRead, AcceptedSound, MatchedRecorded
  <2>10. CASE ~(position < Len(Artifacts)) /\ pc' = "state" /\ UNCHANGED position
    <3>1. position = Len(Artifacts)
      BY <2>3, <2>10
    <3>2. \A f \in ArtifactSet : \E i \in 1..position : f = Artifacts[i]
      BY <3>1, GateAssumption DEF ArtifactSet, Artifacts, ArtifactsOf
    <3>3. AllHashed'
      BY <2>2, <2>6, <3>2 DEF AllHashed, AsBuilt, Sound
    <3> QED  BY <1>a, <2>7, <2>8, <2>10, <3>3
                DEF GateInv, VariantsChecked, SoFarHashed, DataRead, AcceptedSound, MatchedRecorded
  <2> QED  BY <2>1, <2>9, <2>10
<1>5. CASE Truncate
  <2>1. /\ pc = "state" /\ pc' = "writing" /\ recorded' = [recorded EXCEPT ![Gate] = Torn]
        /\ UNCHANGED <<stage, position, document, data, hashes, first>>
    BY <1>5 DEF Truncate
  <2>2. ArtifactSet' = ArtifactSet
    BY <2>1 DEF Artifacts, ArtifactsOf, Gate, ArtifactSet
  <2>3. AllHashed'
    BY <1>b, <2>1, <2>2 DEF AllHashed, AsBuilt, Sound, Inv, GateInv
  <2>4. Verified'
    BY <1>b, <2>1, VerifiedKept DEF Recorder
  <2>5. \A g \in Gates : Kept(g)' => Kept(g) /\ recorded'[g] = recorded[g]
    BY <2>1 DEF Kept, Inv, TypeInv, TypeOK
  <2>6. FirstHashed' /\ FirstNamed'
    BY <2>1, <2>5 DEF FirstHashed, FirstNamed, FilesOf, ArtifactsOf, AsFirstBuilt, Names, Sound,
                      Gates, Inv, GateInv
  <2> QED  BY <1>a, <2>1, <2>3, <2>4, <2>6 DEF GateInv, VariantsChecked, SoFarHashed, DataRead,
              AcceptedSound, MatchedRecorded
<1>6. CASE Write
  <2>1. /\ pc = "writing" /\ pc' = "build"
        /\ recorded' = [recorded EXCEPT ![Gate] = hashes]
        /\ first' = [first EXCEPT ![Gate] = [built |-> built, touched |-> touched]]
    BY <1>6 DEF Write
  <2>2. /\ recorded'[Gate] = hashes /\ first'[Gate] = [built |-> built, touched |-> touched]
        /\ \A g \in Gates \ {Gate} : recorded'[g] = recorded[g] /\ first'[g] = first[g]
    BY <2>1, OfGate DEF Inv, TypeInv, TypeOK
  <2>3. FirstHashed'
    <3> SUFFICES ASSUME NEW g \in Gates, Kept(g)', NEW f \in FilesOf(g)
                 PROVE  AsFirstBuilt(g, f)'
      BY DEF FirstHashed, FilesOf, ArtifactsOf
    <3>1. CASE g = Gate
      <4>1. AsBuilt(f)
        BY <2>1, <3>1, OfGate DEF AllHashed, Inv, GateInv
      <4> QED  BY <2>2, <3>1, <4>1 DEF AsFirstBuilt, AsBuilt, Sound
    <3>2. CASE g # Gate
      <4>1. AsFirstBuilt(g, f)
        BY <2>2, <3>2 DEF Kept, FirstHashed, Inv, GateInv
      <4> QED  BY <2>2, <3>2, <4>1 DEF AsFirstBuilt, Sound
    <3> QED  BY <3>1, <3>2
  <2>4. FirstNamed'
    <3>1. CASE Gate = "publication"
      <4>1. \A i \in DOMAIN Variants : Named(i)
        BY <2>1, <3>1 DEF Verified, AllNamed, Recorder, Inv, GateInv
      <4> QED  BY <2>2, <3>1, <4>1 DEF FirstNamed, Named, Names
    <3>2. CASE Gate # "publication"
      BY <2>2, <3>2 DEF FirstNamed, Kept, Names, Gates, Inv, GateInv
    <3> QED  BY <3>1, <3>2
  <2> QED  BY <1>a, <2>1, <2>3, <2>4 DEF GateInv, VariantsChecked, Verified, PomVerified,
              ModuleVerified, AllNamed, Recorder, SoFarHashed, AllHashed, DataRead, AcceptedSound,
              MatchedRecorded
<1>7. CASE Compare /\ ~Reject
  <2>1. pc = "state" /\ ~Recording /\ Same /\ pc' = "matched"
        /\ UNCHANGED <<recorded, stage, position, document, data, hashes, first>>
    BY <1>7 DEF Compare
  <2>2. Gate' = Gate /\ ArtifactSet' = ArtifactSet
    BY <2>1 DEF Artifacts, ArtifactsOf, Gate, ArtifactSet
  <2>3. AllHashed'
    BY <1>b, <2>1, <2>2 DEF AllHashed, AsBuilt, Sound, Inv, GateInv
  <2>4. Verified'
    BY <1>b, <2>1, VerifiedKept DEF Recorder
  <2>5. FirstHashed' /\ FirstNamed'
    BY <2>1, FirstKept DEF Inv, GateInv
  <2>6. MatchedRecorded'
    BY <2>1, <2>2 DEF MatchedRecorded, Same, Recording
  <2> QED  BY <1>a, <2>1, <2>3, <2>4, <2>5, <2>6 DEF GateInv, VariantsChecked, SoFarHashed,
              DataRead, AcceptedSound
<1>8. CASE NextStep
  BY <1>a, <1>8, OutsideLoops DEF NextStep, Inv
<1> QED  BY <1>1, <1>2, <1>3, <1>4, <1>5, <1>6, <1>7, <1>8

LEMMA GateAround ==
    ASSUME Inv,
           Kill \/ Repeat \/ \E f \in Files, value \in Values \cup {Absent} : Replace(f, value)
    PROVE  GateInv'
<1>1. CASE Kill
  <2>1. pc' = "killed" /\ UNCHANGED <<disk, recorded, stage, built, touched, first>>
    BY <1>1 DEF Kill
  <2>2. Left'
    BY <2>1 DEF Left, Inv, GateInv
  <2> QED  BY <2>1, <2>2, OutsideLoops DEF Inv
<1>2. CASE Repeat
  BY <1>2, LeftKept, OutsideLoops DEF Repeat, Inv, GateInv
<1>3. ASSUME NEW f \in Files, NEW value \in Values \cup {Absent}, Replace(f, value)
      PROVE  GateInv'
  <2>1. /\ disk' = [disk EXCEPT ![f] = value] /\ touched' = touched \cup {f}
        /\ UNCHANGED <<recorded, stage, pc, position, document, data, hashes, built, first, kills>>
    BY <1>3 DEF Replace
  <2>2. Left'
    <3>1. disk \in [Files -> Values \cup {Absent}]
      BY DEF Inv, TypeInv, TypeOK, Disks
    <3> QED  BY <2>1, <3>1 DEF Left, Inv, GateInv
  <2>3. Artifacts' = Artifacts /\ Artifact' = Artifact /\ ArtifactSet' = ArtifactSet /\ Gate' = Gate
    BY <2>1 DEF Artifacts, ArtifactsOf, Artifact, Gate, ArtifactSet
  <2>4. VariantsChecked'
    BY <2>1 DEF VariantsChecked, Named, Names, Inv, GateInv
  <2>5. Verified'
    BY <2>1, VerifiedKept DEF Inv, GateInv
  <2>6. SoFarHashed' /\ AllHashed'
    BY <2>1, <2>3 DEF SoFarHashed, AllHashed, AsBuilt, Sound, Inv, GateInv
  <2>7. DataRead' /\ AcceptedSound'
    BY <2>1, <2>3 DEF DataRead, AcceptedSound, Sound, Inv, GateInv
  <2>8. FirstHashed' /\ FirstNamed'
    BY <2>1, FirstKept DEF Inv, GateInv
  <2>9. MatchedRecorded'
    BY <2>1, <2>3 DEF MatchedRecorded, Recording, Inv, GateInv
  <2> QED  BY <2>2, <2>4, <2>5, <2>6, <2>7, <2>8, <2>9 DEF GateInv
<1> QED  BY <1>1, <1>2, <1>3

LEMMA GateNext == Inv /\ [Next]_vars => Inv'
<1>1. Inv /\ Next => GateInv'
  BY NextCases, GateBuild, GateValidators, GateRecorder, GateAround
<1>2. ASSUME Inv, UNCHANGED vars PROVE GateInv'
  <2>1. Left'
    BY <1>2 DEF vars, Left, Inv, GateInv
  <2>2. FirstHashed' /\ FirstNamed'
    BY <1>2, FirstKept DEF vars, Inv, GateInv
  <2>3. Artifacts' = Artifacts /\ Artifact' = Artifact /\ Gate' = Gate /\ ArtifactSet' = ArtifactSet
    BY <1>2 DEF vars, Artifacts, ArtifactsOf, Artifact, Gate, ArtifactSet
  <2>4. VariantsChecked' /\ Verified'
    BY <1>2, VerifiedKept DEF vars, VariantsChecked, Named, Names, Inv, GateInv
  <2>5. SoFarHashed' /\ AllHashed'
    BY <1>2, <2>3 DEF vars, SoFarHashed, AllHashed, AsBuilt, Sound, Inv, GateInv
  <2>6. DataRead' /\ AcceptedSound' /\ MatchedRecorded'
    BY <1>2, <2>3 DEF vars, DataRead, AcceptedSound, MatchedRecorded, Sound, Recording, Inv, GateInv
  <2> QED  BY <2>1, <2>2, <2>4, <2>5, <2>6 DEF GateInv
<1> QED  BY <1>1, <1>2, TypeNext DEF Inv

LEMMA GateInvariant == Spec => []Inv
<1>1. Init => Inv
  BY TypeInit, GateInit DEF Inv
<1> QED  BY <1>1, GateNext, PTL DEF Spec

\* A comparison that matches was made with hashes that are really recorded:
\* neither with a file that is missing nor with one that is cut short.
LEMMA MatchedIsRecorded == Inv /\ pc = "matched" => Kept(Gate) /\ recorded[Gate] = hashes
<1> SUFFICES ASSUME Inv, pc = "matched" PROVE Kept(Gate) /\ recorded[Gate] = hashes
  OBVIOUS
<1>1. hashes \in Disks /\ recorded[Gate] = hashes
  BY DEF Inv, TypeInv, TypeOK, GateInv, MatchedRecorded
<1> QED  BY <1>1, GateAssumption DEF Kept

LEMMA ReproducedWhenMatched == Inv => MatchedIsReproduced
<1> SUFFICES ASSUME Inv, pc = "matched", NEW f \in ArtifactSet
             PROVE  /\ f \notin touched => hashes[f] = built[f] /\ Sound(f, hashes[f])
                    /\ f \notin first[Gate].touched =>
                          hashes[f] = first[Gate].built[f] /\ Sound(f, hashes[f])
  BY DEF MatchedIsReproduced
<1>1. AsBuilt(f)
  BY DEF Inv, GateInv, AllHashed
<1>2. AsFirstBuilt(Gate, f) /\ recorded[Gate] = hashes
  BY MatchedIsRecorded, OfGate DEF Inv, GateInv, FirstHashed
<1> QED  BY <1>1, <1>2 DEF AsBuilt, AsFirstBuilt

\* Of every file left alone in one of two matching passes, the hash is that of a
\* sound file that pass built, whatever is replaced or killed and with whatever
\* step somebody goes on.
THEOREM MatchedIsReproducedHolds == Spec => []MatchedIsReproduced
BY GateInvariant, ReproducedWhenMatched, PTL

\* When the hashes match, each variant of the published metadata names its
\* archive, if there is a pass in which neither was replaced.
THEOREM MetadataNamesArchivesHolds == Spec => []MetadataNamesArchives
<1>1. Inv => MetadataNamesArchives
  <2> SUFFICES ASSUME Inv, pc = "matched", Gate = "publication", NEW i \in DOMAIN Variants,
                      \/ {Variants[i], Module} \cap touched = {}
                      \/ {Variants[i], Module} \cap first[Gate].touched = {}
               PROVE  hashes[Module] \in Documents /\ hashes[Module][i] = hashes[Variants[i]]
    BY DEF MetadataNamesArchives
  <2>1. Variants[i] \in ArtifactSet /\ Module \in ArtifactSet
    BY ArtifactSetIs, GateAssumption
  <2>2. MatchedIsReproduced
    BY ReproducedWhenMatched
  <2>3. CASE {Variants[i], Module} \cap touched = {}
    <3>1. Names(built, i)
      BY <2>3 DEF Inv, GateInv, Verified, AllNamed, Named, Recorder
    <3> QED  BY <2>1, <2>2, <2>3, <3>1 DEF MatchedIsReproduced, Names
  <2>4. CASE {Variants[i], Module} \cap first[Gate].touched = {}
    <3>1. Names(first[Gate].built, i)
      BY <2>4, MatchedIsRecorded DEF Inv, GateInv, FirstNamed
    <3> QED  BY <2>1, <2>2, <2>4, <3>1 DEF MatchedIsReproduced, Names
  <2> QED  BY <2>3, <2>4
<1> QED  BY <1>1, GateInvariant, PTL

-----------------------------------------------------------------------------
(* When nothing is replaced, killed or fails *)

\* A build leaves its artifacts, and no other file.
Shape(output) ==
    /\ output \in Disks
    /\ \A f \in Files : output[f] = Absent <=> f \notin ArtifactSet
    /\ Gate = "publication" => \A jar \in JarSet : output[jar] \in Contents

LEMMA OutputsShaped == ASSUME NEW output \in Outputs PROVE Shape(output)
<1>1. output \in Disks
  BY OutputsAreDisks
<1>2. Absent \notin Contents /\ Absent \notin Values /\ Metadata \subseteq Values
  BY GateAssumption DEF Values
<1>3. Pom # Module /\ Pom # Sbom /\ Module # Sbom /\ JarSet \cap {Pom, Module, Sbom} = {}
  BY GateAssumption, ThreeFiles
<1>4. CASE Gate = "publication"
  <2>1. PICK jars \in [JarSet -> Contents], pom \in Contents, module \in Metadata :
          output = [f \in Files |-> IF f \in JarSet THEN jars[f]
                                    ELSE IF f = Pom THEN pom
                                    ELSE IF f = Module THEN module ELSE Absent]
    BY <1>4 DEF Outputs
  <2>2. \A jar \in JarSet : output[jar] \in Contents
    BY <2>1 DEF Files
  <2>3. output[Pom] = pom /\ output[Module] = module
    BY <1>3, <2>1 DEF Files
  <2>4. \A f \in Files \ (JarSet \cup {Pom, Module}) : output[f] = Absent
    BY <2>1
  <2> QED  BY <1>1, <1>2, <1>4, <2>2, <2>3, <2>4, ArtifactSetIs DEF Shape, Files
<1>5. CASE Gate # "publication"
  <2>1. PICK sbom \in Contents : output = [NoFiles EXCEPT ![Sbom] = sbom]
    BY <1>5 DEF Outputs
  <2>2. output[Sbom] = sbom /\ \A f \in Files \ {Sbom} : output[f] = Absent
    BY <2>1 DEF NoFiles, Files
  <2> QED  BY <1>1, <1>2, <1>5, <2>2, ArtifactSetIs DEF Shape, Files
<1> QED  BY <1>4, <1>5

\* What the steps so far have established of the outputs; the recorded hashes
\* are the first pass's outputs; a refusal is deserved.
QuietInv ==
    quiet =>
        /\ touched = {} /\ pc # "killed"
        /\ pc # "build" => Shape(built)
        /\ ~Recording => recorded[Gate] = first[Gate].built
        /\ pc \in {"pom", "module", "variants", "sbom"} \cup Recorder
              => \A f \in Files \ ArtifactSet : hashes[f] = Absent
        /\ pc = "rejected" => Wrong \/ (~Recording /\ built # first[Gate].built)

\* What is read is what was built; what has been hashed is all of it.
LEMMA DiskAsBuilt ==
    ASSUME Inv, QuietInv, quiet
    PROVE  /\ \A f \in Files : disk[f] = built[f]
           /\ pc \in {"state", "writing", "matched"} => hashes = built
<1>1. \A f \in Files : disk[f] = built[f]
  BY DEF Inv, GateInv, Left, QuietInv
<1>2. ASSUME pc \in {"state", "writing", "matched"} PROVE hashes = built
  <2>1. hashes \in [Files -> Values \cup {Absent}] /\ built \in [Files -> Values \cup {Absent}]
    BY DEF Inv, TypeInv, TypeOK, Disks
  <2>2. \A f \in ArtifactSet : hashes[f] = built[f]
    BY <1>2 DEF Inv, GateInv, AllHashed, AsBuilt, QuietInv
  <2>3. \A f \in Files \ ArtifactSet : hashes[f] = built[f]
    BY <1>2 DEF QuietInv, Recorder, Shape
  <2>4. \A f \in Files : hashes[f] = built[f]
    BY <2>2, <2>3
  <2> QED  BY <2>1, <2>4
<1> QED  BY <1>1, <1>2

LEMMA QuietReject ==
    ASSUME QuietInv, quiet, Reject, UNCHANGED environment,
           pc # "build", Wrong \/ (~Recording /\ built # first[Gate].built)
    PROVE  QuietInv'
<1>1. /\ UNCHANGED <<recorded, stage, first, built, touched, quiet>> /\ pc' = "rejected"
  BY DEF Reject, environment
<1>2. Gate' = Gate /\ Recording' = Recording /\ (Wrong' <=> Wrong) /\ ArtifactSet' = ArtifactSet
  BY <1>1 DEF Gate, Recording, Wrong, Sound, ArtifactSet, Artifacts, ArtifactsOf
<1>3. Shape(built)' <=> Shape(built)
  BY <1>1, <1>2 DEF Shape
<1> QED  BY <1>1, <1>2, <1>3 DEF QuietInv, Recorder

\* A step that leaves the outputs and the records alone keeps what they are.
LEMMA QuietKept ==
    ASSUME UNCHANGED <<recorded, stage, first, built, touched, quiet>>
    PROVE  /\ Gate' = Gate /\ Recording' = Recording /\ ArtifactSet' = ArtifactSet
           /\ Wrong' <=> Wrong
           /\ Shape(built)' <=> Shape(built)
<1>1. Gate' = Gate /\ Recording' = Recording /\ ArtifactSet' = ArtifactSet
  BY DEF Gate, Recording, ArtifactSet, Artifacts, ArtifactsOf
<1> QED  BY <1>1 DEF Wrong, Sound, Shape

LEMMA QuietInit == Init => QuietInv
BY DEF Init, QuietInv, Recording, Recorder

LEMMA QuietBuild ==
    ASSUME Inv, QuietInv, Build, quiet'
    PROVE  QuietInv'
<1>1. /\ pc' = IF Gate = "publication" THEN "pom" ELSE "sbom"
      /\ touched' = {} /\ hashes' = NoFiles /\ quiet
      /\ UNCHANGED <<recorded, stage, first>>
  BY DEF Build
<1>2. PICK output \in Outputs : built' = output
  BY <1>1 DEF Build
<1>3. Gate' = Gate /\ Recording' = Recording /\ ArtifactSet' = ArtifactSet
  BY <1>1 DEF Gate, Recording, ArtifactSet, Artifacts, ArtifactsOf
<1>4. Shape(built)'
  BY <1>2, <1>3, OutputsShaped DEF Shape
<1>5. \A f \in Files \ ArtifactSet' : hashes'[f] = Absent
  BY <1>1 DEF NoFiles
<1> QED  BY <1>1, <1>3, <1>4, <1>5 DEF QuietInv, Recorder

LEMMA QuietValidators ==
    ASSUME Inv, QuietInv, quiet, VerifyPom \/ ReadModule \/ CheckVariant \/ VerifySbom
    PROVE  QuietInv'
<1>0. UNCHANGED environment
  BY DEF VerifyPom, ReadModule, CheckVariant, VerifySbom
<1>1. UNCHANGED <<recorded, stage, first, built, touched, quiet, hashes>>
  BY <1>0 DEF VerifyPom, ReadModule, CheckVariant, VerifySbom, Reject, environment
<1>2. {Pom, Module, Sbom} \subseteq Files /\ JarSet \subseteq Files
  BY DEF Files
<1>a. pc \in {"pom", "module", "variants", "sbom"}
  BY DEF VerifyPom, ReadModule, CheckVariant, VerifySbom
<1>b. ASSUME pc' \in {"module", "variants", "read", "hash"} PROVE QuietInv'
  BY <1>1, <1>a, <1>b, QuietKept DEF QuietInv, Recorder
<1>3. CASE VerifyPom
  <2>1. pc = "pom" /\ Gate = "publication" /\ disk[Pom] = built[Pom]
    BY <1>2, <1>3, DiskAsBuilt DEF VerifyPom, Inv, TypeInv, Control
  <2>2. CASE disk[Pom] \notin Valid
    <3>1. Wrong
      BY <2>1, <2>2, ArtifactSetIs DEF Wrong, Sound
    <3>2. Reject
      BY <1>3, <2>2 DEF VerifyPom
    <3> QED  BY <1>0, <2>1, <3>1, <3>2, QuietReject
  <2>3. CASE disk[Pom] \in Valid
    BY <1>3, <1>b, <2>3 DEF VerifyPom
  <2> QED  BY <2>2, <2>3
<1>4. CASE ReadModule
  <2>1. pc = "module" /\ Gate = "publication" /\ disk[Module] = built[Module]
    BY <1>2, <1>4, DiskAsBuilt DEF ReadModule, Inv, TypeInv, Control
  <2>2. CASE disk[Module] \notin Documents
    <3>1. Wrong
      BY <2>1, <2>2, ArtifactSetIs, ThreeFiles DEF Wrong, Sound
    <3>2. Reject
      BY <1>4, <2>2 DEF ReadModule
    <3> QED  BY <1>0, <2>1, <3>1, <3>2, QuietReject
  <2>3. CASE disk[Module] \in Documents
    BY <1>4, <1>b, <2>3 DEF ReadModule
  <2> QED  BY <2>2, <2>3
<1>5. CASE CheckVariant
  <2>1. pc = "variants" /\ Gate = "publication" /\ touched = {}
    BY <1>5 DEF CheckVariant, QuietInv, Inv, TypeInv, Control
  <2>2. Variants[position] \in JarSet /\ position \in DOMAIN Variants
    BY <2>1, GateAssumption DEF Inv, TypeInv, TypeOK
  <2>3. disk[Variants[position]] = built[Variants[position]] /\ document = built[Module]
    BY <1>2, <2>1, <2>2, DiskAsBuilt DEF Inv, GateInv, VariantsChecked
  <2>4. CASE ~DigestMatches
    <3>1. Wrong
      BY <2>1, <2>2, <2>3, <2>4 DEF DigestMatches, Wrong
    <3>2. Reject
      BY <1>5, <2>4 DEF CheckVariant
    <3> QED  BY <1>0, <2>1, <3>1, <3>2, QuietReject
  <2>5. CASE DigestMatches
    BY <1>5, <1>b, <2>1, <2>5 DEF CheckVariant, Noticed
  <2> QED  BY <2>4, <2>5
<1>6. CASE VerifySbom
  <2>1. pc = "sbom" /\ Gate # "publication" /\ disk[Sbom] = built[Sbom]
    BY <1>2, <1>6, DiskAsBuilt DEF VerifySbom, Inv, TypeInv, Control
  <2>2. CASE disk[Sbom] \notin Valid
    <3>1. Wrong
      BY <2>1, <2>2, ArtifactSetIs, ThreeFiles DEF Wrong, Sound
    <3>2. Reject
      BY <1>6, <2>2 DEF VerifySbom
    <3> QED  BY <1>0, <2>1, <3>1, <3>2, QuietReject
  <2>3. CASE disk[Sbom] \in Valid
    BY <1>6, <1>b, <2>3 DEF VerifySbom
  <2> QED  BY <2>2, <2>3
<1> QED  BY <1>3, <1>4, <1>5, <1>6

LEMMA QuietLoop ==
    ASSUME Inv, QuietInv, quiet, Read \/ Validate \/ Hash
    PROVE  QuietInv'
<1>0. UNCHANGED environment
  BY DEF Read, Validate, Hash
<1>1. /\ UNCHANGED <<recorded, stage, first, built, touched, quiet>>
      /\ pc \in {"read", "validate", "hash"} /\ touched = {}
  BY <1>0 DEF Read, Validate, Hash, Reject, environment, QuietInv
<1>2. Artifact \in ArtifactSet /\ Artifact \in Files
  BY <1>1, ArtifactSetIs DEF Inv, TypeInv, Files
<1>3. disk[Artifact] = built[Artifact] /\ disk[Artifact] # Absent
  BY <1>1, <1>2, DiskAsBuilt DEF QuietInv, Shape
<1>4. ~Noticed(Artifact)
  BY <1>1 DEF Noticed
<1>5. CASE Read
  <2>1. pc = "read" /\ pc' = "validate" /\ UNCHANGED hashes
    BY <1>3, <1>4, <1>5 DEF Read
  <2> QED  BY <1>1, <2>1, QuietKept DEF QuietInv, Recorder
<1>6. CASE Validate
  <2>1. pc = "validate" /\ Gate = "publication" /\ data = built[Artifact]
    BY <1>1, <1>6 DEF Validate, Inv, TypeInv, Control, GateInv, DataRead
  <2>2. CASE Accepted
    <3>1. pc' = "hash" /\ UNCHANGED hashes
      BY <1>6, <2>2 DEF Validate
    <3> QED  BY <1>1, <2>1, <3>1, QuietKept DEF QuietInv, Recorder
  <2>3. CASE ~Accepted
    <3>1. Artifact \in JarSet \/ Artifact \in {Pom, Module}
      BY <1>2, <2>1, ArtifactSetIs
    <3>2. ~Sound(Artifact, built[Artifact])
      BY <1>3, <2>1, <2>3, <3>1, GateAssumption, ThreeFiles DEF Accepted, Sound
    <3>3. Reject
      BY <1>6, <2>3 DEF Validate
    <3> QED  BY <1>0, <1>2, <2>1, <3>2, <3>3, QuietReject DEF Wrong
  <2> QED  BY <2>2, <2>3
<1>7. CASE Hash
  <2>1. /\ pc = "hash" /\ pc' \in {"read", "state"}
        /\ hashes' = [hashes EXCEPT ![Artifact] = disk[Artifact]]
    BY <1>3, <1>4, <1>7 DEF Hash
  <2>2. \A f \in Files \ ArtifactSet : hashes'[f] = Absent
    <3>1. hashes \in [Files -> Values \cup {Absent}]
      BY DEF Inv, TypeInv, TypeOK, Disks
    <3>2. \A f \in Files \ ArtifactSet : hashes[f] = Absent
      BY <1>1 DEF QuietInv, Recorder
    <3> QED  BY <1>2, <2>1, <3>1, <3>2
  <2> QED  BY <1>1, <2>1, <2>2, QuietKept DEF QuietInv, Recorder
<1> QED  BY <1>5, <1>6, <1>7

LEMMA QuietState ==
    ASSUME Inv, QuietInv, quiet, Truncate \/ Write \/ Compare \/ NextStep
    PROVE  QuietInv'
<1>0. UNCHANGED <<environment, hashes>>
  BY DEF Truncate, Write, Compare, NextStep, Reject
<1>1. UNCHANGED <<built, touched, quiet, hashes>>
  BY <1>0 DEF environment
<1>2. CASE Truncate
  <2>1. pc = "state" /\ pc' = "writing" /\ Recording /\ UNCHANGED <<stage, first>>
    BY <1>2 DEF Truncate
  <2>2. Gate' = Gate /\ Recording' = Recording /\ ArtifactSet' = ArtifactSet
    BY <2>1 DEF Gate, Recording, ArtifactSet, Artifacts, ArtifactsOf
  <2> QED  BY <1>1, <2>1, <2>2 DEF QuietInv, Shape, Recorder
<1>3. CASE Write
  <2>1. /\ pc = "writing" /\ pc' = "build" /\ stage' = stage + 1
        /\ recorded' = [recorded EXCEPT ![Gate] = hashes]
        /\ first' = [first EXCEPT ![Gate] = [built |-> built, touched |-> touched]]
    BY <1>3 DEF Write
  <2>2. stage \in {1, 3}
    BY <2>1 DEF Inv, TypeInv, Control, Recording
  <2>3. Gate' = Gate
    BY <2>1, <2>2 DEF Gate
  <2>4. recorded'[Gate'] = hashes /\ first'[Gate'].built = built
    BY <2>1, <2>3, OfGate DEF Inv, TypeInv, TypeOK
  <2>5. hashes = built
    BY <2>1, DiskAsBuilt
  <2> QED  BY <1>1, <2>1, <2>4, <2>5 DEF QuietInv, Recorder
<1>4. CASE Compare
  <2>1. pc = "state" /\ ~Recording /\ hashes = built /\ recorded[Gate] = first[Gate].built
        /\ UNCHANGED <<recorded, stage, first>>
    BY <1>4, DiskAsBuilt DEF Compare, Reject, QuietInv
  <2>2. CASE ~Same
    <3>1. Reject /\ built # first[Gate].built
      BY <1>4, <2>1, <2>2 DEF Compare, Same
    <3> QED  BY <1>0, <2>1, <3>1, QuietReject
  <2>3. CASE Same
    <3>1. pc' = "matched"
      BY <1>4, <2>3 DEF Compare
    <3> QED  BY <1>1, <2>1, <3>1, QuietKept DEF QuietInv, Recorder
  <2> QED  BY <2>2, <2>3
<1>5. CASE NextStep
  <2>1. pc' = "build" /\ Recording'
    BY <1>5 DEF NextStep, Recording
  <2> QED  BY <1>1, <2>1 DEF QuietInv, Recorder
<1> QED  BY <1>2, <1>3, <1>4, <1>5

LEMMA QuietNext == Inv /\ QuietInv /\ [Next]_vars => QuietInv'
<1> SUFFICES ASSUME Inv, QuietInv, [Next]_vars, quiet' PROVE QuietInv'
  BY DEF QuietInv
<1>1. CASE UNCHANGED vars
  BY <1>1, QuietKept DEF vars, QuietInv, Recorder
<1>2. CASE Build
  BY <1>2, QuietBuild
<1>3. CASE VerifyPom \/ ReadModule \/ CheckVariant \/ VerifySbom
  <2>1. quiet
    BY <1>3 DEF VerifyPom, ReadModule, CheckVariant, VerifySbom, environment
  <2> QED  BY <1>3, <2>1, QuietValidators
<1>4. CASE Read \/ Validate \/ Hash
  <2>1. quiet
    BY <1>4 DEF Read, Validate, Hash, environment
  <2> QED  BY <1>4, <2>1, QuietLoop
<1>5. CASE Truncate \/ Write \/ Compare \/ NextStep
  <2>1. quiet
    BY <1>5 DEF Truncate, Write, Compare, NextStep, environment
  <2> QED  BY <1>5, <2>1, QuietState
<1>6. CASE Kill \/ \E f \in Files, value \in Values \cup {Absent} : Replace(f, value)
  BY <1>6 DEF Kill, Replace
<1>7. CASE Repeat
  BY <1>7 DEF Repeat, environment, QuietInv
<1> QED  BY <1>1, <1>2, <1>3, <1>4, <1>5, <1>6, <1>7, NextCases

\* Matching passes built the same sound outputs.
LEMMA ExactMatch ==
    Inv /\ QuietInv /\ quiet /\ pc = "matched" => ~Wrong /\ built = first[Gate].built
<1> SUFFICES ASSUME Inv, QuietInv, quiet, pc = "matched"
             PROVE  ~Wrong /\ built = first[Gate].built
  OBVIOUS
<1>1. hashes = built /\ recorded[Gate] = hashes /\ ~Recording /\ touched = {}
  BY DiskAsBuilt DEF Inv, GateInv, MatchedRecorded, QuietInv
<1>2. built = first[Gate].built
  BY <1>1 DEF QuietInv
<1>3. \A f \in ArtifactSet : Sound(f, built[f])
  BY <1>1 DEF Inv, GateInv, AllHashed, AsBuilt
<1>4. Gate = "publication" => \A i \in DOMAIN Variants : built[Module][i] = built[Variants[i]]
  BY <1>1 DEF Inv, GateInv, Verified, AllNamed, Named, Names, Recorder
<1> QED  BY <1>2, <1>3, <1>4 DEF Wrong

\* When nothing is replaced, killed or fails, exactly the outputs with something
\* wrong and those not built twice alike are refused (ExactWhenQuiet).
THEOREM ExactWhenQuietHolds == Spec => []ExactWhenQuiet
<1>1. Inv /\ QuietInv => ExactWhenQuiet
  BY ExactMatch DEF ExactWhenQuiet, QuietInv
<1>2. Inv /\ QuietInv /\ [Next]_vars => QuietInv'
  BY QuietNext
<1> QED  BY <1>1, <1>2, QuietInit, GateInvariant, PTL DEF Spec
=============================================================================
