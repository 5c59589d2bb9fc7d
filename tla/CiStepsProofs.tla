---------------------------- MODULE CiStepsProofs ----------------------------
(***************************************************************************)
(* What the verifiers of the CI job accept, for any reviewed files and     *)
(* limits, and what therefore holds past their steps.  The job runs the    *)
(* verifier of ToolchainVerifier: whatever holds of it holds of the job.   *)
(***************************************************************************)
EXTENDS CiSteps, ToolchainVerifierProofs, WorkflowParserProofs

-----------------------------------------------------------------------------
(* Sequences of numbers in increasing order *)

\* What each has to its left neighbour, it has to all on its left.
LEMMA IncreasingEverywhere ==
    ASSUME NEW n \in Nat, NEW f \in [1..n -> Int], \A i \in 2..n : f[i - 1] < f[i]
    PROVE  \A i, j \in 1..n : i < j => f[i] < f[j]
<1> DEFINE S == {k \in 0..n : \A i \in 1..n : i < k => f[i] < f[k]}
<1>1. 0 \in S
  OBVIOUS
<1>2. ASSUME NEW k \in 0..(n - 1), k \in S PROVE k + 1 \in S
  <2>1. k + 1 \in 0..n /\ k + 1 \in 1..n /\ f[k + 1] \in Int
    OBVIOUS
  <2>2. ASSUME NEW i \in 1..n, i < k + 1 PROVE f[i] < f[k + 1]
    <3>1. k \in 1..n /\ k + 1 \in 2..n /\ (k + 1) - 1 = k
      BY <2>2
    <3>2. f[k] < f[k + 1] /\ f[k] \in Int /\ f[i] \in Int
      BY <3>1
    <3>3. i = k \/ f[i] < f[k]
      BY <1>2, <2>2, <3>1
    <3> QED  BY <2>1, <3>2, <3>3
  <2> QED  BY <2>1, <2>2
<1>3. \A k \in 0..n : k \in S
  <2> HIDE DEF S
  <2> QED  BY <1>1, <1>2, Upward
<1> QED  BY <1>3

Rising(f, n) == \A i, j \in 1..n : i < j => f[i] < f[j]
Takes(f, n, values) == \A v : v \in values <=> \E i \in 1..n : f[i] = v

\* Two that take the same values are equal, at first as far as the one goes.
LEMMA RisingBegins ==
    ASSUME NEW m \in Nat, NEW n \in Nat, NEW f \in [1..m -> Int], NEW g \in [1..n -> Int],
           Rising(f, m), Rising(g, n), NEW values, Takes(f, m, values), Takes(g, n, values)
    PROVE  m <= n /\ \A i \in 1..m : f[i] = g[i]
<1> DEFINE S == {k \in 0..m : k <= n /\ \A i \in 1..k : f[i] = g[i]}
<1>1. 0 \in S
  OBVIOUS
<1>2. ASSUME NEW k \in 0..(m - 1), k \in S PROVE k + 1 \in S
  <2>1. k + 1 \in 1..m /\ k + 1 \in 0..m
    OBVIOUS
  <2>2. k <= n /\ \A i \in 1..k : i \in 1..m /\ i \in 1..n /\ f[i] = g[i]
    BY <1>2
  <2>3. PICK j \in 1..n : g[j] = f[k + 1]
    BY <2>1 DEF Takes
  <2>4. j > k
    <3> SUFFICES ASSUME j <= k PROVE FALSE
      BY <2>1
    <3>1. j \in 1..k /\ j < k + 1
      OBVIOUS
    <3>2. f[j] = f[k + 1] /\ f[j] < f[k + 1] /\ f[j] \in Int
      BY <2>1, <2>2, <2>3, <3>1 DEF Rising
    <3> QED  BY <3>2
  <2>5. k + 1 \in 1..n
    BY <2>1, <2>4
  <2>6. PICK l \in 1..m : f[l] = g[k + 1]
    BY <2>5 DEF Takes
  <2>7. l > k
    <3> SUFFICES ASSUME l <= k PROVE FALSE
      BY <2>1
    <3>1. l \in 1..k /\ l < k + 1
      OBVIOUS
    <3>2. g[l] = g[k + 1] /\ g[l] < g[k + 1] /\ g[l] \in Int
      BY <2>2, <2>5, <2>6, <3>1 DEF Rising
    <3> QED  BY <3>2
  <2>8. f[k + 1] \in Int /\ g[k + 1] \in Int
    BY <2>1, <2>5
  <2>9. f[k + 1] <= g[k + 1]
    <3>1. l = k + 1 \/ k + 1 < l
      BY <2>1, <2>7
    <3> QED  BY <2>1, <2>6, <2>8, <3>1 DEF Rising
  <2>10. g[k + 1] <= f[k + 1]
    <3>1. j = k + 1 \/ k + 1 < j
      BY <2>1, <2>4
    <3> QED  BY <2>3, <2>5, <2>8, <3>1 DEF Rising
  <2>11. f[k + 1] = g[k + 1]
    BY <2>8, <2>9, <2>10
  <2>12. \A i \in 1..(k + 1) : f[i] = g[i]
    <3>1. \A i \in 1..(k + 1) : i \in 1..k \/ i = k + 1
      BY <2>1
    <3> QED  BY <2>2, <2>11, <3>1
  <2> QED  BY <2>1, <2>5, <2>12
<1>3. m \in S
  <2>1. \A k \in 0..m : k \in S
    <3> HIDE DEF S
    <3> QED  BY <1>1, <1>2, Upward
  <2>2. m \in 0..m
    OBVIOUS
  <2> HIDE DEF S
  <2> QED  BY <2>1, <2>2
<1> QED  BY <1>3

LEMMA RisingSame ==
    ASSUME NEW m \in Nat, NEW n \in Nat, NEW f \in [1..m -> Int], NEW g \in [1..n -> Int],
           Rising(f, m), Rising(g, n), NEW values, Takes(f, m, values), Takes(g, n, values)
    PROVE  m = n /\ \A i \in 1..m : f[i] = g[i]
<1>1. m <= n /\ \A i \in 1..m : f[i] = g[i]
  BY RisingBegins
<1>2. n <= m
  BY RisingBegins
<1> QED  BY <1>1, <1>2

-----------------------------------------------------------------------------
(* Dependency metadata *)

Artifact == [name : Int, checksums : Seq(Checksum)]

\* Each name comes once and has its own digest.
Distinct(artifacts) ==
    /\ Rising(Names(artifacts), Len(artifacts))
    /\ Takes(Names(artifacts), Len(artifacts), DOMAIN Values(artifacts))
    /\ \A i \in 1..Len(artifacts) :
          /\ Values(artifacts)[artifacts[i].name] = artifacts[i].checksums[1].value
          /\ Len(artifacts[i].checksums) = 1

LEMMA NamesType ==
    ASSUME NEW artifacts \in Seq(Artifact)
    PROVE  /\ Names(artifacts) \in [1..Len(artifacts) -> Int]
           /\ \A i \in 1..Len(artifacts) : Names(artifacts)[i] = artifacts[i].name
           /\ Len(Names(artifacts)) = Len(artifacts)
<1>1. DOMAIN artifacts = 1..Len(artifacts) /\ Len(artifacts) \in Nat
  OBVIOUS
<1>2. \A i \in 1..Len(artifacts) : artifacts[i] \in Artifact
  OBVIOUS
<1>3. \A i \in 1..Len(artifacts) : artifacts[i].name \in Int
  BY <1>2 DEF Artifact
<1>4. Names(artifacts) = [i \in 1..Len(artifacts) |-> artifacts[i].name]
  BY <1>1 DEF Names
<1>5. Names(artifacts) \in [1..Len(artifacts) -> Int]
      /\ \A i \in 1..Len(artifacts) : Names(artifacts)[i] = artifacts[i].name
  BY <1>3, <1>4
<1>6. Len(Names(artifacts)) = Len(artifacts)
  <2>1. Names(artifacts) \in Seq(Int)
    BY <1>1, <1>5
  <2> QED  BY <1>1, <1>5, <2>1
<1> QED  BY <1>5, <1>6

\* In a sound component no digest is overwritten by another of the same name.
LEMMA SoundDistinct ==
    ASSUME NEW component \in Component, ComponentSound(component)
    PROVE  component.artifacts \in Seq(Artifact) /\ Distinct(component.artifacts)
<1> DEFINE A == component.artifacts
           names == Names(A)
<1>1. A \in Seq(Artifact)
  BY DEF Component, Artifact
<1>2. /\ InOrder(names)
      /\ \A i \in DOMAIN A : Len(A[i].checksums) = 1
  BY DEF ComponentSound
<1> HIDE DEF A
<1>3. DOMAIN A = 1..Len(A) /\ Len(A) \in Nat
  BY <1>1
<1>4. /\ names \in [1..Len(A) -> Int] /\ Len(names) = Len(A)
      /\ \A i \in 1..Len(A) : names[i] = A[i].name
  BY <1>1, NamesType
<1>5. Rising(names, Len(A))
  <2> HIDE DEF names
  <2>1. \A i \in 2..Len(A) : names[i - 1] < names[i]
    BY <1>2, <1>4 DEF InOrder
  <2> QED  BY <1>3, <1>4, <2>1, IncreasingEverywhere DEF Rising
<1>6. ASSUME NEW i \in 1..Len(A), NEW j \in 1..Len(A), A[j].name = A[i].name PROVE j = i
  <2>1. names[i] \in Int /\ names[i] = names[j] /\ ~(i < j) /\ ~(j < i)
    BY <1>4, <1>5, <1>6 DEF Rising
  <2> QED  BY <2>1
<1> DEFINE Last(name) == CHOOSE i \in DOMAIN A :
                            /\ A[i].name = name
                            /\ \A j \in DOMAIN A : A[j].name = name => j <= i
<1>7. ASSUME NEW i \in 1..Len(A) PROVE Last(A[i].name) = i
  <2>1. \A k \in DOMAIN A : A[k].name = A[i].name => k = i
    BY <1>3, <1>6
  <2>2. i \in DOMAIN A /\ \A j \in DOMAIN A : A[j].name = A[i].name => j <= i
    BY <1>3, <2>1
  <2> QED  BY <2>1, <2>2
<1>8. Values(A) = [name \in {A[i].name : i \in DOMAIN A} |-> A[Last(name)].checksums[1].value]
  BY DEF Values
<1> HIDE DEF Last
<1>9. ASSUME NEW i \in 1..Len(A) PROVE Values(A)[A[i].name] = A[i].checksums[1].value
  <2>1. A[i].name \in {A[j].name : j \in DOMAIN A}
    BY <1>3
  <2> QED  BY <1>7, <1>8, <2>1
<1>10. Takes(names, Len(A), DOMAIN Values(A))
  <2>1. DOMAIN Values(A) = {A[i].name : i \in 1..Len(A)}
    BY <1>3, <1>8
  <2> HIDE DEF names
  <2> QED  BY <1>4, <2>1 DEF Takes
<1> QED  BY <1>1, <1>2, <1>3, <1>5, <1>9, <1>10 DEF Distinct, A

LEMMA OnlyElement ==
    ASSUME NEW S, NEW s \in Seq(S), Len(s) = 1
    PROVE  1 \in DOMAIN s /\ s[1] \in S
  OBVIOUS

\* A sequence with another first element.
LEMMA OtherFirst ==
    ASSUME NEW S, NEW s \in Seq(S), 1 \in DOMAIN s, NEW v \in S
    PROVE  LET t == [s EXCEPT ![1] = v]
           IN  t \in Seq(S) /\ t[1] = v /\ Len(t) = Len(s)
  OBVIOUS

\* What is listed of artifacts.
LEMMA ListedType ==
    ASSUME NEW A \in Seq(Artifact)
    PROVE  /\ DOMAIN A = 1..Len(A) /\ Len(A) \in Nat
           /\ DOMAIN ListedArtifacts(A) = 1..Len(A)
           /\ \A i \in 1..Len(A) :
                 /\ A[i] \in Artifact /\ A[i].checksums \in Seq(Checksum)
                 /\ ListedArtifacts(A)[i] =
                       [name |-> A[i].name,
                        digests |-> [k \in 1..Len(A[i].checksums) |-> A[i].checksums[k].value]]
<1>1. DOMAIN A = 1..Len(A) /\ Len(A) \in Nat
  OBVIOUS
<1>2. \A i \in 1..Len(A) : A[i] \in Artifact
  OBVIOUS
<1>3. ASSUME NEW i \in 1..Len(A)
      PROVE  A[i].checksums \in Seq(Checksum) /\ DOMAIN A[i].checksums = 1..Len(A[i].checksums)
  <2>1. A[i].checksums \in Seq(Checksum)
    BY <1>2 DEF Artifact
  <2> DEFINE c == A[i].checksums
  <2> HIDE DEF c
  <2>2. c \in Seq(Checksum)
    BY <2>1 DEF c
  <2>3. DOMAIN c = 1..Len(c)
    BY <2>2
  <2> QED  BY <2>1, <2>3 DEF c
<1> QED  BY <1>1, <1>2, <1>3 DEF ListedArtifacts

\* Lists of artifacts with the same digests by name list the same.
LEMMA SameArtifacts ==
    ASSUME NEW A \in Seq(Artifact), NEW B \in Seq(Artifact), Distinct(A), Distinct(B),
           Values(A) = Values(B)
    PROVE  ListedArtifacts(A) = ListedArtifacts(B)
<1>1. /\ Len(A) \in Nat /\ Len(B) \in Nat
      /\ DOMAIN ListedArtifacts(A) = 1..Len(A) /\ DOMAIN ListedArtifacts(B) = 1..Len(B)
  BY ListedType
<1>2. Len(A) = Len(B) /\ \A i \in 1..Len(A) : Names(A)[i] = Names(B)[i]
  <2>1. Names(A) \in [1..Len(A) -> Int] /\ Names(B) \in [1..Len(B) -> Int]
    BY NamesType
  <2>2. /\ Rising(Names(A), Len(A)) /\ Takes(Names(A), Len(A), DOMAIN Values(A))
        /\ Rising(Names(B), Len(B)) /\ Takes(Names(B), Len(B), DOMAIN Values(A))
    BY DEF Distinct
  <2> QED  BY <1>1, <2>1, <2>2, RisingSame
<1>3. ASSUME NEW i \in 1..Len(A) PROVE ListedArtifacts(A)[i] = ListedArtifacts(B)[i]
  <2>1. i \in 1..Len(B)
    BY <1>2
  <2>2. A[i].name = B[i].name
    BY <1>2, <2>1, NamesType
  <2>3. /\ A[i].checksums[1].value = B[i].checksums[1].value
        /\ Len(A[i].checksums) = 1 /\ Len(B[i].checksums) = 1
    BY <2>1, <2>2 DEF Distinct
  <2>4. \A k \in 1..1 : A[i].checksums[k].value = B[i].checksums[k].value
    BY <2>3
  <2>5. /\ ListedArtifacts(A)[i] =
              [name |-> A[i].name, digests |-> [k \in 1..1 |-> A[i].checksums[k].value]]
        /\ ListedArtifacts(B)[i] =
              [name |-> B[i].name, digests |-> [k \in 1..1 |-> B[i].checksums[k].value]]
    BY <2>1, <2>3, ListedType
  <2> QED  BY ONLY <2>2, <2>4, <2>5
<1>4. \A C : ListedArtifacts(C) = [i \in DOMAIN ListedArtifacts(C) |-> ListedArtifacts(C)[i]]
  BY DEF ListedArtifacts
<1> QED  BY ONLY <1>1, <1>2, <1>3, <1>4

Keys(document) == [i \in DOMAIN document |-> document[i].key]

\* Each component comes once and has its own artifacts.
Graphed(document) ==
    /\ Rising(Keys(document), Len(document))
    /\ Takes(Keys(document), Len(document), DOMAIN Graph)
    /\ \A i \in 1..Len(document) : Graph[document[i].key] = Values(document[i].artifacts)

LEMMA KeysType ==
    ASSUME NEW document \in Seq(Component)
    PROVE  /\ DOMAIN document = 1..Len(document) /\ Len(document) \in Nat
           /\ \A i \in 1..Len(document) : document[i] \in Component
           /\ Keys(document) \in [1..Len(document) -> Int]
           /\ \A i \in 1..Len(document) : Keys(document)[i] = document[i].key
<1>1. DOMAIN document = 1..Len(document) /\ Len(document) \in Nat
  OBVIOUS
<1>2. \A i \in 1..Len(document) : document[i] \in Component
  OBVIOUS
<1>3. \A i \in 1..Len(document) : document[i].key \in Int
  BY <1>2 DEF Component
<1>4. Keys(document) = [i \in 1..Len(document) |-> document[i].key]
  BY <1>1 DEF Keys
<1> QED  BY <1>1, <1>2, <1>3, <1>4

LEMMA ExactGraphed ==
    ASSUME NEW document \in Seq(Component), MetadataExact(document)
    PROVE  Graphed(document)
<1> DEFINE n == Len(document)
           keys == Keys(document)
           Place(key) == CHOOSE i \in DOMAIN document : document[i].key = key
<1>1. /\ DOMAIN document = 1..n /\ n \in Nat
      /\ keys \in [1..n -> Int] /\ \A i \in 1..n : keys[i] = document[i].key
  BY KeysType
<1>2. Rising(keys, n)
  <2>1. \A i \in 2..n : document[i - 1].key < document[i].key
    BY DEF MetadataExact
  <2>2. \A i \in 2..n : keys[i - 1] < keys[i]
    BY <1>1, <2>1
  <2> HIDE DEF keys, n
  <2> QED  BY <1>1, <2>2, IncreasingEverywhere DEF Rising
<1>3. ASSUME NEW i \in 1..n PROVE Place(document[i].key) = i
  <2>1. ASSUME NEW j \in 1..n, document[j].key = document[i].key PROVE j = i
    <3> HIDE DEF keys, n
    <3>1. keys[i] \in Int /\ keys[i] = keys[j] /\ ~(i < j) /\ ~(j < i)
      BY <1>1, <1>2, <2>1 DEF Rising
    <3> QED  BY <1>1, <3>1
  <2>2. i \in DOMAIN document /\ \A j \in DOMAIN document : document[j].key = document[i].key => j = i
    BY <1>1, <2>1
  <2> QED  BY <2>2
<1>4. Graph = [key \in {document[i].key : i \in DOMAIN document} |->
                  Values(document[Place(key)].artifacts)]
  BY DEF MetadataExact, GraphOf
<1> HIDE DEF Place
<1>5. ASSUME NEW i \in 1..n PROVE Graph[document[i].key] = Values(document[i].artifacts)
  <2>1. document[i].key \in {document[j].key : j \in DOMAIN document}
    BY <1>1
  <2> QED  BY <1>3, <1>4, <2>1
<1>6. Takes(keys, n, DOMAIN Graph)
  <2>1. DOMAIN Graph = {document[i].key : i \in 1..n}
    BY <1>1, <1>4
  <2> HIDE DEF keys, n
  <2> QED  BY <1>1, <2>1 DEF Takes
<1> QED  BY <1>2, <1>5, <1>6 DEF Graphed

\* What is listed of a document.
LEMMA ListingType ==
    ASSUME NEW d \in Seq(Component)
    PROVE  /\ DOMAIN d = 1..Len(d) /\ Len(d) \in Nat
           /\ DOMAIN Listing(d) = 1..Len(d)
           /\ \A i \in 1..Len(d) :
                 /\ d[i] \in Component /\ d[i].artifacts \in Seq(Artifact)
                 /\ Listing(d)[i] =
                       [key |-> d[i].key, artifacts |-> ListedArtifacts(d[i].artifacts)]
<1>1. DOMAIN d = 1..Len(d) /\ Len(d) \in Nat /\ \A i \in 1..Len(d) : d[i] \in Component
  OBVIOUS
<1>2. \A i \in 1..Len(d) : d[i].artifacts \in Seq(Artifact)
  BY <1>1 DEF Component, Artifact
<1> QED  BY <1>1, <1>2 DEF Listing

\* Of all exact documents the listing is the same: in order, each key and each name
\* once, each with the reviewed digest.
LEMMA ExactListing ==
    ASSUME NEW d \in Seq(Component), NEW e \in Seq(Component),
           MetadataExact(d), MetadataExact(e)
    PROVE  Listing(d) = Listing(e)
<1>1. /\ DOMAIN d = 1..Len(d) /\ Len(d) \in Nat
      /\ DOMAIN e = 1..Len(e) /\ Len(e) \in Nat
      /\ \A i \in 1..Len(d) : d[i] \in Component /\ Keys(d)[i] = d[i].key
      /\ \A i \in 1..Len(e) : e[i] \in Component /\ Keys(e)[i] = e[i].key
  BY KeysType
<1>2. Len(d) = Len(e) /\ \A i \in 1..Len(d) : Keys(d)[i] = Keys(e)[i]
  <2>1. Keys(d) \in [1..Len(d) -> Int] /\ Keys(e) \in [1..Len(e) -> Int]
    BY KeysType
  <2>2. /\ Rising(Keys(d), Len(d)) /\ Takes(Keys(d), Len(d), DOMAIN Graph)
        /\ Rising(Keys(e), Len(e)) /\ Takes(Keys(e), Len(e), DOMAIN Graph)
    BY ExactGraphed DEF Graphed
  <2> DEFINE m == Len(d)
             n == Len(e)
             f == Keys(d)
             g == Keys(e)
  <2>3. m \in Nat /\ n \in Nat
    BY <1>1
  <2> HIDE DEF m, n, f, g
  <2>4. m = n /\ \A i \in 1..m : f[i] = g[i]
    BY <2>1, <2>2, <2>3, RisingSame DEF m, n, f, g
  <2> QED  BY <2>4 DEF m, n, f, g
<1>3. ASSUME NEW i \in 1..Len(d) PROVE Listing(d)[i] = Listing(e)[i]
  <2>1. i \in 1..Len(e) /\ d[i] \in Component /\ e[i] \in Component
    BY <1>1, <1>2
  <2>2. d[i].key = e[i].key
    BY <1>1, <1>2, <2>1
  <2>3. Values(d[i].artifacts) = Values(e[i].artifacts)
    <3>1. Graph[d[i].key] = Values(d[i].artifacts) /\ Graph[e[i].key] = Values(e[i].artifacts)
      BY <2>1, ExactGraphed DEF Graphed
    <3> QED  BY <2>2, <3>1
  <2>4. ComponentSound(d[i]) /\ ComponentSound(e[i])
    BY <1>1, <2>1 DEF MetadataExact
  <2>5. ListedArtifacts(d[i].artifacts) = ListedArtifacts(e[i].artifacts)
    <3>1. /\ d[i].artifacts \in Seq(Artifact) /\ Distinct(d[i].artifacts)
          /\ e[i].artifacts \in Seq(Artifact) /\ Distinct(e[i].artifacts)
      BY <2>1, <2>4, SoundDistinct
    <3> QED  BY <2>3, <3>1, SameArtifacts
  <2> QED  BY <2>1, <2>2, <2>5, ListingType
<1>4. DOMAIN Listing(d) = 1..Len(d) /\ DOMAIN Listing(e) = 1..Len(e)
  BY ListingType
<1>5. \A c : Listing(c) = [i \in DOMAIN Listing(c) |-> Listing(c)[i]]
  BY DEF Listing
<1> QED  BY ONLY <1>2, <1>3, <1>4, <1>5

\* An exact document has origins that are reviewed.
LEMMA ExactOrigins ==
    ASSUME NEW d \in Seq(Component), MetadataExact(d)
    PROVE  OriginsReviewed(d)
<1> SUFFICES ASSUME NEW i \in DOMAIN d, NEW j \in DOMAIN d[i].artifacts,
                    NEW k \in DOMAIN d[i].artifacts[j].checksums
             PROVE  d[i].artifacts[j].checksums[k].origin \in ReviewedOrigins
  BY DEF OriginsReviewed
<1>1. /\ Len(d[i].artifacts[j].checksums) = 1
      /\ d[i].artifacts[j].checksums[1].origin \in ReviewedOrigins
  BY DEF MetadataExact, ComponentSound
<1>2. d[i].artifacts \in Seq(Artifact)
  BY ListingType
<1>3. d[i].artifacts[j].checksums \in Seq(Checksum)
  BY <1>2, ListedType
<1>4. k = 1
  <2> DEFINE c == d[i].artifacts[j].checksums
  <2> HIDE DEF c
  <2>1. c \in Seq(Checksum) /\ Len(c) = 1 /\ k \in DOMAIN c
    BY <1>1, <1>3 DEF c
  <2> QED  BY <2>1
<1> QED  BY <1>1, <1>4

\* What lists the same has the same names and values.
LEMMA ListedAlike ==
    ASSUME NEW A \in Seq(Artifact), NEW B \in Seq(Artifact),
           ListedArtifacts(A) = ListedArtifacts(B)
    PROVE  /\ Len(A) = Len(B) /\ Names(A) = Names(B)
           /\ \A i \in 1..Len(A) :
                 /\ A[i].name = B[i].name
                 /\ Len(A[i].checksums) = 1 =>
                       /\ Len(B[i].checksums) = 1
                       /\ A[i].checksums[1].value = B[i].checksums[1].value
<1>1. /\ DOMAIN A = 1..Len(A) /\ Len(A) \in Nat /\ DOMAIN ListedArtifacts(A) = 1..Len(A)
      /\ DOMAIN B = 1..Len(B) /\ Len(B) \in Nat /\ DOMAIN ListedArtifacts(B) = 1..Len(B)
  BY ListedType
<1>3. Len(A) = Len(B)
  <2>1. 1..Len(A) = 1..Len(B)
    BY <1>1
  <2> QED  BY <1>1, <2>1, SameLength
<1>4. ASSUME NEW i \in 1..Len(A)
      PROVE  /\ A[i].name = B[i].name
             /\ Len(A[i].checksums) = 1 =>
                   /\ Len(B[i].checksums) = 1
                   /\ A[i].checksums[1].value = B[i].checksums[1].value
  <2> DEFINE c == A[i].checksums
             d == B[i].checksums
             f == [k \in 1..Len(c) |-> c[k].value]
             g == [k \in 1..Len(d) |-> d[k].value]
  <2>1. /\ ListedArtifacts(A)[i] = [name |-> A[i].name, digests |-> f]
        /\ ListedArtifacts(B)[i] = [name |-> B[i].name, digests |-> g]
        /\ c \in Seq(Checksum) /\ d \in Seq(Checksum)
    BY <1>3, ListedType
  <2> HIDE DEF c, d
  <2>2. Len(c) \in Nat /\ Len(d) \in Nat
    BY <2>1
  <2>3. A[i].name = B[i].name /\ f = g
    <3> HIDE DEF f, g
    <3>1. [name |-> A[i].name, digests |-> f].name = [name |-> B[i].name, digests |-> g].name
          /\ [name |-> A[i].name, digests |-> f].digests = [name |-> B[i].name, digests |-> g].digests
      BY <2>1
    <3> QED  BY <3>1
  <2>4. Len(c) = Len(d)
    <3>1. DOMAIN f = 1..Len(c) /\ DOMAIN g = 1..Len(d)
      OBVIOUS
    <3>2. 1..Len(c) = 1..Len(d)
      BY <2>3, <3>1
    <3> HIDE DEF f, g
    <3> QED  BY <2>2, <3>2, SameLength
  <2>5. Len(c) = 1 => c[1].value = d[1].value
    <3> SUFFICES ASSUME Len(c) = 1 PROVE c[1].value = d[1].value
      OBVIOUS
    <3>1. f = [k \in 1..1 |-> c[k].value] /\ g = [k \in 1..1 |-> d[k].value]
      BY <2>4
    <3>2. f[1] = c[1].value /\ g[1] = d[1].value
      BY ONLY <3>1
    <3> QED  BY <2>3, <3>2
  <2> QED  BY <2>3, <2>4, <2>5 DEF c, d
<1>5. Names(A) = Names(B)
  BY <1>1, <1>3, <1>4 DEF Names
<1> QED  BY <1>3, <1>4, <1>5

\* So it is as sound and has the same digests by name, if its origins are reviewed.
LEMMA ListedSound ==
    ASSUME NEW c \in Component, NEW k \in Component, ComponentSound(c),
           ListedArtifacts(c.artifacts) = ListedArtifacts(k.artifacts),
           \A j \in DOMAIN k.artifacts : \A l \in DOMAIN k.artifacts[j].checksums :
              k.artifacts[j].checksums[l].origin \in ReviewedOrigins
    PROVE  ComponentSound(k) /\ Values(c.artifacts) = Values(k.artifacts)
<1> DEFINE A == c.artifacts
           B == k.artifacts
<1>1. A \in Seq(Artifact) /\ B \in Seq(Artifact) /\ Distinct(A)
  <2>1. A \in Seq(Artifact) /\ B \in Seq(Artifact)
    BY DEF Component, Artifact
  <2> QED  BY <2>1, SoundDistinct
<1>2. /\ InOrder(Names(A))
      /\ \A i \in DOMAIN A : Len(A[i].checksums) = 1 /\ A[i].checksums[1].value \in Digests
  BY DEF ComponentSound
<1>3. \A j \in DOMAIN B : \A l \in DOMAIN B[j].checksums :
         B[j].checksums[l].origin \in ReviewedOrigins
  OBVIOUS
<1>4. ListedArtifacts(A) = ListedArtifacts(B)
  OBVIOUS
<1> HIDE DEF A, B
<1>5. /\ DOMAIN A = 1..Len(A) /\ DOMAIN B = 1..Len(B) /\ Len(A) = Len(B)
      /\ Names(A) = Names(B)
      /\ \A i \in 1..Len(B) : B[i].checksums \in Seq(Checksum)
      /\ \A i \in 1..Len(A) :
            /\ A[i].name = B[i].name
            /\ Len(A[i].checksums) = 1 =>
                  /\ Len(B[i].checksums) = 1
                  /\ A[i].checksums[1].value = B[i].checksums[1].value
  BY <1>1, <1>4, ListedType, ListedAlike
<1>6. ASSUME NEW i \in DOMAIN B
      PROVE  /\ Len(B[i].checksums) = 1
             /\ B[i].checksums[1].value \in Digests
             /\ B[i].checksums[1].origin \in ReviewedOrigins
  <2>1. Len(B[i].checksums) = 1 /\ B[i].checksums[1].value \in Digests
    BY <1>2, <1>5
  <2>2. 1 \in DOMAIN B[i].checksums
    <3> DEFINE b == B[i].checksums
    <3> HIDE DEF b
    <3>1. b \in Seq(Checksum) /\ Len(b) = 1
      BY <1>5, <2>1 DEF b
    <3>2. 1 \in DOMAIN b
      BY <3>1
    <3> QED  BY <3>2 DEF b
  <2> QED  BY <1>3, <2>1, <2>2
<1>7. ComponentSound(k)
  BY <1>2, <1>5, <1>6 DEF ComponentSound, B
<1>8. Distinct(B)
  BY <1>7, SoundDistinct DEF B
<1>9. \A i \in 1..Len(A) : Values(A)[A[i].name] = Values(B)[A[i].name]
  <2>1. \A i \in 1..Len(A) : /\ Values(A)[A[i].name] = A[i].checksums[1].value
                             /\ Len(A[i].checksums) = 1
    BY <1>1 DEF Distinct
  <2>2. \A i \in 1..Len(B) : Values(B)[B[i].name] = B[i].checksums[1].value
    BY <1>8 DEF Distinct
  <2> QED  BY ONLY <1>5, <2>1, <2>2
<1>10. Values(A) = Values(B)
  <2> DEFINE names == {A[i].name : i \in 1..Len(A)}
  <2>1. \A C : /\ DOMAIN Values(C) = {C[i].name : i \in DOMAIN C}
               /\ Values(C) = [name \in DOMAIN Values(C) |-> Values(C)[name]]
    BY DEF Values
  <2>2. DOMAIN Values(A) = names /\ DOMAIN Values(B) = names
    <3>1. /\ DOMAIN Values(A) = {A[i].name : i \in DOMAIN A}
          /\ DOMAIN Values(B) = {B[i].name : i \in DOMAIN B}
          /\ DOMAIN A = 1..Len(A) /\ DOMAIN B = 1..Len(A)
      BY <1>5, <2>1
    <3>2. {B[i].name : i \in 1..Len(A)} = {A[i].name : i \in 1..Len(A)}
      BY <1>5
    <3> QED  BY <3>1, <3>2
  <2>3. \A name \in names : Values(A)[name] = Values(B)[name]
    BY <1>9
  <2> HIDE DEF names
  <2> QED  BY ONLY <2>1, <2>2, <2>3
<1> QED  BY <1>7, <1>10 DEF A, B

\* Documents that list the same have the same keys and list the same artifacts.
LEMMA ListingAlike ==
    ASSUME NEW d \in Seq(Component), NEW e \in Seq(Component), Listing(d) = Listing(e)
    PROVE  /\ DOMAIN d = DOMAIN e /\ Len(d) = Len(e)
           /\ \A i \in DOMAIN d :
                 /\ d[i].key = e[i].key /\ d[i] \in Component /\ e[i] \in Component
                 /\ ListedArtifacts(d[i].artifacts) = ListedArtifacts(e[i].artifacts)
<1>1. /\ DOMAIN d = 1..Len(d) /\ Len(d) \in Nat /\ DOMAIN Listing(d) = 1..Len(d)
      /\ DOMAIN e = 1..Len(e) /\ Len(e) \in Nat /\ DOMAIN Listing(e) = 1..Len(e)
  BY ListingType
<1>2. DOMAIN d = DOMAIN e
  BY <1>1
<1>3. Len(d) = Len(e)
  BY <1>1, <1>2, SameLength
<1>4. ASSUME NEW i \in DOMAIN d
      PROVE  /\ d[i].key = e[i].key /\ d[i] \in Component /\ e[i] \in Component
             /\ ListedArtifacts(d[i].artifacts) = ListedArtifacts(e[i].artifacts)
  <2> DEFINE f == ListedArtifacts(d[i].artifacts)
             g == ListedArtifacts(e[i].artifacts)
  <2>1. /\ Listing(d)[i] = [key |-> d[i].key, artifacts |-> f]
        /\ Listing(e)[i] = [key |-> e[i].key, artifacts |-> g]
        /\ d[i] \in Component /\ e[i] \in Component
    BY <1>1, <1>3, ListingType
  <2> HIDE DEF f, g
  <2>2. /\ [key |-> d[i].key, artifacts |-> f].key = [key |-> e[i].key, artifacts |-> g].key
        /\ [key |-> d[i].key, artifacts |-> f].artifacts
             = [key |-> e[i].key, artifacts |-> g].artifacts
    BY <2>1
  <2> QED  BY <2>1, <2>2 DEF f, g
<1> QED  BY <1>2, <1>3, <1>4

\* Whatever lists what an exact document lists is exact.
LEMMA ListedExact ==
    ASSUME NEW d \in Seq(Component), NEW e \in Seq(Component), MetadataExact(d),
           Listing(d) = Listing(e), OriginsReviewed(e)
    PROVE  MetadataExact(e)
<1>1. DOMAIN d = 1..Len(d) /\ Len(d) \in Nat
  BY ListingType
<1>2. DOMAIN d = DOMAIN e
  BY ListingAlike
<1>3. Len(d) = Len(e)
  BY ListingAlike
<1>4. \A i \in DOMAIN d :
         /\ d[i].key = e[i].key /\ d[i] \in Component /\ e[i] \in Component
         /\ ListedArtifacts(d[i].artifacts) = ListedArtifacts(e[i].artifacts)
  BY ListingAlike
<1>5. ASSUME NEW i \in DOMAIN d
      PROVE  ComponentSound(e[i]) /\ Values(d[i].artifacts) = Values(e[i].artifacts)
  <2>1. ComponentSound(d[i])
    BY DEF MetadataExact
  <2>2. \A j \in DOMAIN e[i].artifacts : \A l \in DOMAIN e[i].artifacts[j].checksums :
           e[i].artifacts[j].checksums[l].origin \in ReviewedOrigins
    BY <1>2 DEF OriginsReviewed
  <2> QED  BY <1>4, <2>1, <2>2, ListedSound
<1>6. \A i \in 2..Len(e) : e[i - 1].key < e[i].key
  <2> SUFFICES ASSUME NEW i \in 2..Len(e) PROVE e[i - 1].key < e[i].key
    OBVIOUS
  <2>1. i \in DOMAIN d /\ i - 1 \in DOMAIN d /\ i \in 2..Len(d)
    BY <1>1, <1>3
  <2>2. d[i - 1].key < d[i].key
    BY <2>1 DEF MetadataExact
  <2> QED  BY <1>4, <2>1, <2>2
<1>7. GraphOf(e) = Graph
  <2> DEFINE keys == {d[i].key : i \in DOMAIN d}
             Place(key) == CHOOSE i \in DOMAIN e : e[i].key = key
  <2>1. keys = {e[i].key : i \in DOMAIN e}
    BY <1>2, <1>4
  <2>2. GraphOf(e) = [key \in keys |-> Values(e[Place(key)].artifacts)]
    BY <2>1 DEF GraphOf
  <2>3. Graph = [key \in keys |-> Graph[key]]
    BY DEF MetadataExact, GraphOf
  <2>4. ASSUME NEW key \in keys PROVE Values(e[Place(key)].artifacts) = Graph[key]
    <3>1. Place(key) \in DOMAIN e /\ e[Place(key)].key = key
      BY <2>1
    <3> HIDE DEF Place
    <3>2. \A i \in DOMAIN d : Graph[d[i].key] = Values(d[i].artifacts)
      BY <1>1, ExactGraphed DEF Graphed
    <3> QED  BY <1>2, <1>4, <1>5, <3>1, <3>2
  <2> HIDE DEF keys, Place
  <2>5. [key \in keys |-> Values(e[Place(key)].artifacts)] = [key \in keys |-> Graph[key]]
    BY <2>4
  <2> QED  BY <2>2, <2>3, <2>5
<1> QED  BY <1>2, <1>5, <1>6, <1>7 DEF MetadataExact

\* Documents that list what an exact one does, with origins that are reviewed, are the
\* only ones that are exact (_verify_tree): in order, each key and each name once, each
\* with the reviewed digest.
THEOREM ExactMetadataListing ==
    ASSUME NEW d \in Seq(Component), NEW e \in Seq(Component), MetadataExact(d)
    PROVE  MetadataExact(e) <=> Listing(e) = Listing(d) /\ OriginsReviewed(e)
  BY ExactListing, ExactOrigins, ListedExact

\* Documents that are exact pass their own negative self-test.
LEMMA ExactAccepted ==
    ASSUME NEW r \in Seq(Component), MetadataExact(r)
    PROVE  MetadataAccepted(r)
<1> DEFINE A == r[1].artifacts
           B == ReviewedMetadata[1].artifacts
<1>1. /\ ReviewedMetadata \in Seq(Component) /\ MetadataExact(ReviewedMetadata)
      /\ ReviewedMetadata # <<>> /\ B # <<>>
      /\ Zeros \in Digests /\ Zeros # B[1].checksums[1].value
  BY CiAssumption
<1>2. Listing(r) = Listing(ReviewedMetadata)
  BY <1>1, ExactListing
<1>3. ASSUME NEW t \in Seq(Component), Listing(t) # Listing(r) PROVE ~MetadataExact(t)
  BY <1>3, ExactListing
<1>4. /\ 1 \in DOMAIN r /\ r[1] \in Component /\ A \in Seq(Artifact) /\ B \in Seq(Artifact)
      /\ ListedArtifacts(A) = ListedArtifacts(B)
      /\ Len(r) \in DOMAIN r /\ Len(r) \in Nat /\ DOMAIN r = 1..Len(r)
  <2>1. DOMAIN r = DOMAIN ReviewedMetadata
    BY <1>1, <1>2, ListingAlike
  <2>2. 1 \in DOMAIN ReviewedMetadata
    BY <1>1
  <2>3. 1 \in DOMAIN r /\ Len(r) \in DOMAIN r /\ Len(r) \in Nat /\ DOMAIN r = 1..Len(r)
    BY <2>1, <2>2, ListingType
  <2>4. ListedArtifacts(A) = ListedArtifacts(B)
    BY <1>1, <1>2, <2>3, ListingAlike
  <2>5. r[1] \in Component /\ A \in Seq(Artifact) /\ B \in Seq(Artifact)
    BY <1>1, <2>2, <2>3, ListingType
  <2> QED  BY <2>3, <2>4, <2>5
<1>5. r[1].key \in Int /\ r[Len(r)].key \in Int
  <2>1. r[Len(r)] \in Component
    BY <1>4
  <2> QED  BY <1>4, <2>1 DEF Component
<1>6. \A i \in DOMAIN A : Len(A[i].checksums) = 1
  BY <1>4 DEF MetadataExact, ComponentSound
<1> HIDE DEF A, B
<1>7. /\ 1 \in DOMAIN A /\ A[1] \in Artifact /\ A[1].checksums \in Seq(Checksum)
      /\ Len(A[1].checksums) = 1 /\ A[1].checksums[1].value # Zeros
  <2>1. Len(A) = Len(B) /\ DOMAIN A = 1..Len(A) /\ DOMAIN B = 1..Len(B)
    BY <1>4, ListedAlike, ListedType
  <2>2. 1 \in DOMAIN B
    BY <1>1, <1>4
  <2>3. 1 \in 1..Len(A) /\ Len(A[1].checksums) = 1
    BY <1>6, <2>1, <2>2
  <2>4. A[1].checksums[1].value = B[1].checksums[1].value
    BY <1>4, <2>3, ListedAlike
  <2> QED  BY <1>1, <1>4, <2>1, <2>3, <2>4, ListedType
<1>8. ~MetadataExact([r EXCEPT ![1].artifacts[1].checksums[1].value = Zeros])
  <2> DEFINE s == A[1].checksums
             x == [s[1] EXCEPT !.value = Zeros]
             y == [s EXCEPT ![1] = x]
             z == [A[1] EXCEPT !.checksums = y]
             C == [A EXCEPT ![1] = z]
             c == [r[1] EXCEPT !.artifacts = C]
             t == [r EXCEPT ![1] = c]
  <2>1. s \in Seq(Checksum) /\ Len(s) = 1
    BY <1>7
  <2> HIDE DEF s
  <2>2. 1 \in DOMAIN s /\ s[1] \in Checksum
    BY <2>1, OnlyElement
  <2>3. x \in Checksum /\ x.value = Zeros
    BY <1>1, <2>2 DEF Checksum
  <2> HIDE DEF x
  <2>4. y \in Seq(Checksum) /\ y[1] = x /\ Len(y) = 1
    BY ONLY <2>1, <2>2, <2>3, OtherFirst
  <2> HIDE DEF y
  <2>5. z \in Artifact /\ z.checksums = y
    BY <1>7, <2>4 DEF Artifact
  <2> HIDE DEF z
  <2>6. C \in Seq(Artifact) /\ C[1] = z /\ 1 \in 1..Len(C)
    <3>1. A \in Seq(Artifact) /\ 1 \in DOMAIN A
      BY <1>4, <1>7
    <3> QED  BY <2>5, <3>1
  <2> HIDE DEF C
  <2>7. c \in Component /\ c.artifacts = C
    <3> DEFINE S == Seq(Artifact)
    <3>1. r[1] \in [key : Int, artifacts : S] /\ C \in S
      BY <1>4, <2>6 DEF Component, Artifact
    <3>2. c \in [key : Int, artifacts : S] /\ c.artifacts = C
      <4> HIDE DEF S
      <4> QED  BY <3>1
    <3> QED  BY <3>2 DEF Component, Artifact
  <2> HIDE DEF c
  <2>8. t \in Seq(Component) /\ t[1] = c /\ 1 \in DOMAIN t
    BY <1>4, <2>7
  <2>9. Listing(t) # Listing(r)
    <3> SUFFICES ASSUME Listing(t) = Listing(r) PROVE FALSE
      OBVIOUS
    <3> HIDE DEF t
    <3>1. ListedArtifacts(C) = ListedArtifacts(A)
      <4>1. ListedArtifacts(t[1].artifacts) = ListedArtifacts(r[1].artifacts)
        BY <2>8, ListingAlike
      <4> QED  BY <2>7, <2>8, <4>1 DEF A
    <3>2. C[1].checksums[1].value = A[1].checksums[1].value
      <4>1. Len(C[1].checksums) = 1
        BY <2>4, <2>5, <2>6
      <4> QED  BY <1>4, <2>6, <3>1, <4>1, ListedAlike
    <3> QED  BY <1>7, <2>3, <2>4, <2>5, <2>6, <3>2
  <2>10. ~MetadataExact(t)
    BY <1>3, <2>8, <2>9
  <2>11. t = [r EXCEPT ![1].artifacts[1].checksums[1].value = Zeros]
    <3>1. x = [A[1].checksums[1] EXCEPT !.value = Zeros]
      BY DEF x, s
    <3>2. y = [A[1].checksums EXCEPT ![1].value = Zeros]
      BY <3>1 DEF y, s
    <3>3. z = [A[1] EXCEPT !.checksums[1].value = Zeros]
      BY <3>2 DEF z
    <3>4. C = [A EXCEPT ![1].checksums[1].value = Zeros]
      BY <3>3 DEF C
    <3>5. c = [r[1] EXCEPT !.artifacts[1].checksums[1].value = Zeros]
      BY <3>4 DEF c, A
    <3> QED  BY <3>5
  <2> QED  BY <2>10, <2>11
<1>9. ~MetadataExact([r EXCEPT ![1].key = @ + 1])
  <2> DEFINE c == [r[1] EXCEPT !.key = r[1].key + 1]
             t == [r EXCEPT ![1] = c]
  <2>1. c \in Component /\ c.key = r[1].key + 1
    <3> DEFINE k == r[1]
               S == Seq(Artifact)
    <3>1. Component = [key : Int, artifacts : S]
      BY DEF Component, Artifact
    <3> HIDE DEF k, S
    <3>2. k \in [key : Int, artifacts : S] /\ k.key \in Int
      BY <1>4, <1>5, <3>1 DEF k
    <3>3. /\ [k EXCEPT !.key = k.key + 1] \in [key : Int, artifacts : S]
          /\ [k EXCEPT !.key = k.key + 1].key = k.key + 1
      BY ONLY <3>2
    <3> QED  BY <3>1, <3>3 DEF k
  <2> HIDE DEF c
  <2>2. t \in Seq(Component) /\ t[1] = c /\ 1 \in DOMAIN t
    BY <1>4, <2>1
  <2>3. Listing(t) # Listing(r)
    <3> SUFFICES ASSUME Listing(t) = Listing(r) PROVE FALSE
      OBVIOUS
    <3> HIDE DEF t
    <3>1. t[1].key = r[1].key
      BY <2>2, ListingAlike
    <3> QED  BY <1>5, <2>1, <2>2, <3>1
  <2>4. ~MetadataExact(t)
    BY <1>3, <2>2, <2>3
  <2> QED  BY <2>4 DEF c
<1>10. ~MetadataExact(Append(r, [key |-> r[Len(r)].key + 1, artifacts |-> <<>>]))
  <2> DEFINE c == [key |-> r[Len(r)].key + 1, artifacts |-> <<>>]
  <2>1. c \in Component
    BY <1>5 DEF Component
  <2> HIDE DEF c
  <2>2. Append(r, c) \in Seq(Component) /\ Len(Append(r, c)) = Len(r) + 1
    BY <2>1
  <2>3. Listing(Append(r, c)) # Listing(r)
    <3> SUFFICES ASSUME Listing(Append(r, c)) = Listing(r) PROVE FALSE
      OBVIOUS
    <3>1. Len(Append(r, c)) = Len(r)
      BY <2>2, ListingAlike
    <3> QED  BY <1>4, <2>2, <3>1
  <2>4. ~MetadataExact(Append(r, c))
    BY <1>3, <2>2, <2>3
  <2> QED  BY <2>4 DEF c
<1> QED  BY <1>8, <1>9, <1>10 DEF MetadataAccepted, Tampered

\* The documents that are accepted are those that list what the reviewed one does.
LEMMA AcceptedDocument ==
    ASSUME NEW document \in Documents
    PROVE  document \in AcceptedDocuments
              <=> Listing(document) = Listing(ReviewedMetadata) /\ OriginsReviewed(document)
<1>1. /\ document \in Seq(Component) /\ ReviewedMetadata \in Seq(Component)
      /\ MetadataExact(ReviewedMetadata)
  BY CiAssumption
<1>2. MetadataExact(document)
         <=> Listing(document) = Listing(ReviewedMetadata) /\ OriginsReviewed(document)
  BY <1>1, ExactMetadataListing
<1>3. MetadataAccepted(document) <=> MetadataExact(document)
  BY <1>1, ExactAccepted DEF MetadataAccepted
<1> QED  BY <1>2, <1>3 DEF AcceptedDocuments

-----------------------------------------------------------------------------
(* Sums *)

Totals(sum, counts) ==
    /\ sum \in [0..Len(counts) -> Nat]
    /\ sum[0] = 0
    /\ \A i \in 1..Len(counts) : sum[i] = sum[i - 1] + counts[i]

LEMMA SumIsTotal ==
    ASSUME NEW counts \in Seq(Nat)
    PROVE  \E sum : Totals(sum, counts) /\ SumOf(counts) = sum[Len(counts)]
<1> DEFINE n == Len(counts)
           step == [i \in 1..n |-> [s \in Nat |-> s + counts[i]]]
           Sum(f) == [i \in 0..Len(counts) |-> IF i = 0 THEN 0 ELSE f[i - 1] + counts[i]]
           sum == CHOOSE f : f = Sum(f)
<1>1. n \in Nat /\ \A i \in 1..n : counts[i] \in Nat
  OBVIOUS
<1>2. step \in [1..n -> [Nat -> Nat]]
  BY <1>1
<1>3. \E f : f = Sum(f)
  <2>1. PICK f \in [0..n -> Nat] : f[0] = 0 /\ \A i \in 1..n : f[i] = step[i][f[i - 1]]
    <3> HIDE DEF n, step
    <3>1. \E f \in [0..n -> Nat] : Recursive(f, n, 0, step)
      BY <1>1, <1>2, Recursion
    <3> QED  BY <3>1 DEF Recursive
  <2>2. ASSUME NEW i \in 0..n PROVE f[i] = Sum(f)[i]
    <3>1. CASE i = 0
      BY <2>1, <3>1
    <3>2. CASE i # 0
      <4>1. i \in 1..n /\ i - 1 \in 0..n
        BY <1>1, <3>2
      <4>2. f[i - 1] \in Nat
        BY <2>1, <4>1
      <4>3. f[i] = f[i - 1] + counts[i]
        <5> HIDE DEF n
        <5> QED  BY <2>1, <4>1, <4>2
      <4> QED  BY <4>1, <4>3
    <3> QED  BY <3>1, <3>2
  <2>3. f = Sum(f)
    BY <2>2
  <2> HIDE DEF Sum
  <2> QED  BY <2>3
<1>4. sum = Sum(sum)
  <2> HIDE DEF Sum
  <2> QED  BY <1>3
<1>5. SumOf(counts) = sum[n]
  BY DEF SumOf
<1> HIDE DEF sum
<1>6. sum[0] = 0 /\ \A i \in 1..n : sum[i] = sum[i - 1] + counts[i]
  BY <1>1, <1>4
<1>7. \A i \in 0..n : sum[i] \in Nat
  <2> DEFINE S == {i \in 0..n : sum[i] \in Nat}
  <2>1. 0 \in S
    BY <1>1, <1>6
  <2>2. ASSUME NEW k \in 0..(n - 1), k \in S PROVE k + 1 \in S
    <3>1. k + 1 \in 1..n /\ k + 1 \in 0..n /\ (k + 1) - 1 = k
      BY <1>1
    <3>2. sum[k + 1] = sum[k] + counts[k + 1] /\ counts[k + 1] \in Nat
      BY <1>1, <1>6, <3>1
    <3> QED  BY <2>2, <3>1, <3>2
  <2>3. \A i \in 0..n : i \in S
    <3> HIDE DEF S, n
    <3> QED  BY <1>1, <2>1, <2>2, Upward
  <2> QED  BY <2>3
<1>8. sum \in [0..n -> Nat]
  BY <1>4, <1>7
<1> QED  BY <1>5, <1>6, <1>8 DEF Totals

\* No count is greater than the sum, which is zero if all of them are.
LEMMA SumBounds ==
    ASSUME NEW counts \in Seq(Nat)
    PROVE  /\ SumOf(counts) \in Nat
           /\ \A i \in 1..Len(counts) : counts[i] <= SumOf(counts)
           /\ (\A i \in 1..Len(counts) : counts[i] = 0) => SumOf(counts) = 0
<1> DEFINE n == Len(counts)
<1>1. n \in Nat /\ \A i \in 1..n : counts[i] \in Nat
  OBVIOUS
<1>2. PICK sum : Totals(sum, counts) /\ SumOf(counts) = sum[n]
  BY SumIsTotal
<1>3. /\ sum[0] = 0 /\ \A i \in 0..n : sum[i] \in Nat
      /\ \A i \in 1..n : sum[i] = sum[i - 1] + counts[i]
  BY <1>2 DEF Totals
<1> DEFINE S == {k \in 0..n : \A i \in 1..k : counts[i] <= sum[k]}
           Z == {k \in 0..n : (\A i \in 1..n : counts[i] = 0) => sum[k] = 0}
<1>4. 0 \in S /\ 0 \in Z
  BY <1>1, <1>3
<1>5. ASSUME NEW k \in 0..(n - 1) PROVE (k \in S => k + 1 \in S) /\ (k \in Z => k + 1 \in Z)
  <2>1. k + 1 \in 1..n /\ k + 1 \in 0..n /\ k \in 0..n /\ (k + 1) - 1 = k
    BY <1>1
  <2>2. sum[k + 1] = sum[k] + counts[k + 1]
        /\ counts[k + 1] \in Nat /\ sum[k] \in Nat
    BY <1>1, <1>3, <2>1
  <2>3. ASSUME k \in S PROVE k + 1 \in S
    <3>1. ASSUME NEW i \in 1..(k + 1) PROVE counts[i] <= sum[k + 1]
      <4>1. i = k + 1 \/ i \in 1..k
        BY <2>1
      <4>2. i \in 1..n /\ counts[i] \in Nat
        BY <1>1, <2>1
      <4>3. CASE i = k + 1
        BY <2>2, <4>3
      <4>4. CASE i \in 1..k
        <5>1. counts[i] <= sum[k]
          BY <2>3, <4>4
        <5> QED  BY <2>2, <4>2, <5>1
      <4> QED  BY <4>1, <4>3, <4>4
    <3> QED  BY <2>1, <3>1
  <2>4. ASSUME k \in Z PROVE k + 1 \in Z
    BY <2>1, <2>2, <2>4
  <2> QED  BY <2>3, <2>4
<1>6. \A k \in 0..n : k \in S
  <2> HIDE DEF S, n
  <2> QED  BY <1>1, <1>4, <1>5, Upward
<1>7. \A k \in 0..n : k \in Z
  <2> HIDE DEF Z, n
  <2> QED  BY <1>1, <1>4, <1>5, Upward
<1>8. n \in 0..n
  BY <1>1
<1> QED  BY <1>2, <1>3, <1>6, <1>7, <1>8

Apart(F, n) == \A i, j \in 1..n : i # j => F[i] \cap F[j] = {}

\* Counting all at once, or part by part.
LEMMA SumOfParts ==
    ASSUME NEW counts \in Seq(Nat), NEW F, Apart(F, Len(counts)),
           \A i \in 1..Len(counts) : IsFiniteSet(F[i]) /\ Cardinality(F[i]) = counts[i]
    PROVE  /\ IsFiniteSet(UNION {F[i] : i \in 1..Len(counts)})
           /\ Cardinality(UNION {F[i] : i \in 1..Len(counts)}) = SumOf(counts)
<1> DEFINE n == Len(counts)
           U(k) == UNION {F[i] : i \in 1..k}
<1>1. n \in Nat /\ \A i \in 1..n : counts[i] \in Nat
  OBVIOUS
<1>2. PICK sum : Totals(sum, counts) /\ SumOf(counts) = sum[n]
  BY SumIsTotal
<1>3. /\ sum[0] = 0 /\ \A i \in 0..n : sum[i] \in Nat
      /\ \A i \in 1..n : sum[i] = sum[i - 1] + counts[i]
  BY <1>2 DEF Totals
<1> DEFINE S == {k \in 0..n : IsFiniteSet(U(k)) /\ Cardinality(U(k)) = sum[k]}
<1>4. 0 \in S
  <2>1. U(0) = {} /\ 0 \in 0..n
    BY <1>1
  <2> HIDE DEF U
  <2> QED  BY <1>3, <2>1, FS_EmptySet
<1>5. ASSUME NEW k \in 0..(n - 1), k \in S PROVE k + 1 \in S
  <2>1. k + 1 \in 1..n /\ k + 1 \in 0..n /\ k \in 0..n /\ (k + 1) - 1 = k
        /\ 1..(k + 1) = 1..k \cup {k + 1}
    BY <1>1
  <2>2. sum[k + 1] = sum[k] + counts[k + 1]
        /\ counts[k + 1] \in Nat /\ sum[k] \in Nat
    BY <1>1, <1>3, <2>1
  <2>3. U(k + 1) = U(k) \cup F[k + 1]
    BY <2>1
  <2>4. U(k) \cap F[k + 1] = {}
    <3> SUFFICES ASSUME NEW x \in U(k), x \in F[k + 1] PROVE FALSE
      OBVIOUS
    <3>1. PICK i \in 1..k : x \in F[i]
      OBVIOUS
    <3>2. i \in 1..n /\ i # k + 1
      BY <2>1
    <3> QED  BY <2>1, <3>1, <3>2 DEF Apart
  <2>5. IsFiniteSet(F[k + 1]) /\ Cardinality(F[k + 1]) = counts[k + 1]
    BY <2>1
  <2>6. IsFiniteSet(U(k)) /\ Cardinality(U(k)) = sum[k]
    BY <1>5
  <2> HIDE DEF U
  <2>7. IsFiniteSet(U(k) \cup F[k + 1])
        /\ Cardinality(U(k) \cup F[k + 1])
             = Cardinality(U(k)) + Cardinality(F[k + 1]) - Cardinality(U(k) \cap F[k + 1])
    BY <2>5, <2>6, FS_Union
  <2>8. Cardinality(U(k) \cap F[k + 1]) = 0
    BY <2>4, FS_EmptySet
  <2>9. Cardinality(U(k + 1)) = sum[k + 1]
    <3>1. Cardinality(U(k + 1)) = sum[k] + counts[k + 1] - 0
      BY <2>3, <2>5, <2>6, <2>7, <2>8
    <3> QED  BY <2>2, <3>1
  <2> QED  BY <2>1, <2>3, <2>7, <2>9
<1>6. \A k \in 0..n : k \in S
  <2> HIDE DEF S, n
  <2> QED  BY <1>1, <1>4, <1>5, Upward
<1>7. n \in S
  <2>1. n \in 0..n
    BY <1>1
  <2> HIDE DEF S, n
  <2> QED  BY <1>6, <2>1
<1> QED  BY <1>2, <1>7

\* A part that is numbered from one.
LEMMA Numbered ==
    ASSUME NEW x, NEW n \in Nat
    PROVE  IsFiniteSet({x} \X (1..n)) /\ Cardinality({x} \X (1..n)) = n
<1>1. IsFiniteSet(1..n) /\ Cardinality(1..n) = n
  BY FS_Interval
<1>2. IsFiniteSet({x}) /\ Cardinality({x}) = 1
  BY FS_Singleton
<1>3. /\ IsFiniteSet({x} \X (1..n))
      /\ Cardinality({x} \X (1..n)) = Cardinality({x}) * Cardinality(1..n)
  BY <1>1, <1>2, FS_Product
<1> QED  BY <1>1, <1>2, <1>3

-----------------------------------------------------------------------------
(* Test reports *)

\* A suite declares as many tests as it has cases.
TestsAgree(file) == \A j \in DOMAIN file : file[j].tests = Len(file[j].cases)

LEMMA SuiteType ==
    ASSUME NEW file \in Seq(Suite)
    PROVE  /\ DOMAIN file = 1..Len(file) /\ Len(file) \in Nat
           /\ \A j \in 1..Len(file) :
                 /\ file[j] \in Suite /\ file[j].tests \in Nat
                 /\ file[j].declared \in [Marks -> Nat]
                 /\ file[j].cases \in Seq(SUBSET Marks)
                 /\ DOMAIN file[j].cases = 1..Len(file[j].cases) /\ Len(file[j].cases) \in Nat
                 /\ \A k \in 1..Len(file[j].cases) : file[j].cases[k] \subseteq Marks
<1>1. DOMAIN file = 1..Len(file) /\ Len(file) \in Nat
  OBVIOUS
<1>2. \A j \in 1..Len(file) : file[j] \in Suite
  OBVIOUS
<1>3. ASSUME NEW suite \in Suite
      PROVE  /\ suite.tests \in Nat /\ suite.declared \in [Marks -> Nat]
             /\ suite.cases \in Seq(SUBSET Marks)
             /\ DOMAIN suite.cases = 1..Len(suite.cases) /\ Len(suite.cases) \in Nat
             /\ \A k \in 1..Len(suite.cases) : suite.cases[k] \subseteq Marks
  <2>1. /\ suite.tests \in Nat /\ suite.declared \in [Marks -> Nat]
        /\ suite.cases \in Seq(SUBSET Marks)
    BY DEF Suite
  <2> DEFINE cases == suite.cases
  <2> HIDE DEF cases
  <2>2. cases \in Seq(SUBSET Marks)
    BY <2>1 DEF cases
  <2>3. DOMAIN cases = 1..Len(cases) /\ Len(cases) \in Nat
    BY <2>2
  <2>4. \A k \in 1..Len(cases) : cases[k] \in SUBSET Marks
    BY <2>2
  <2> QED  BY <2>1, <2>3, <2>4 DEF cases
<1> QED  BY <1>1, <1>2, <1>3

LEMMA CountsType ==
    ASSUME NEW file \in Seq(Suite), NEW mark \in Marks
    PROVE  /\ [j \in DOMAIN file |-> file[j].tests] \in Seq(Nat)
           /\ Len([j \in DOMAIN file |-> file[j].tests]) = Len(file)
           /\ [j \in DOMAIN file |-> file[j].declared[mark]] \in Seq(Nat)
           /\ Len([j \in DOMAIN file |-> file[j].declared[mark]]) = Len(file)
           /\ TestsIn(file) \in Nat /\ MarkedIn(file, mark) \in Nat
<1> DEFINE f == [j \in DOMAIN file |-> file[j].tests]
           g == [j \in DOMAIN file |-> file[j].declared[mark]]
<1>1. DOMAIN file = 1..Len(file) /\ Len(file) \in Nat
  BY SuiteType
<1>2. f \in [1..Len(file) -> Nat] /\ g \in [1..Len(file) -> Nat]
  BY <1>1, SuiteType
<1>3. TestsIn(file) = SumOf(f) /\ MarkedIn(file, mark) = SumOf(g)
  BY DEF TestsIn, MarkedIn
<1> HIDE DEF f, g
<1>4. f \in Seq(Nat) /\ Len(f) = Len(file) /\ g \in Seq(Nat) /\ Len(g) = Len(file)
  BY <1>1, <1>2
<1>5. SumOf(f) \in Nat /\ SumOf(g) \in Nat
  BY <1>4, SumBounds
<1> QED  BY <1>3, <1>4, <1>5 DEF f, g

\* The tests of one file are as many as its suites say.
LEMMA FileCounted ==
    ASSUME NEW file \in Seq(Suite), TestsAgree(file), NEW i
    PROVE  /\ IsFiniteSet(UNION {{<<i, j>>} \X DOMAIN file[j].cases : j \in DOMAIN file})
           /\ Cardinality(UNION {{<<i, j>>} \X DOMAIN file[j].cases : j \in DOMAIN file})
                = TestsIn(file)
<1> DEFINE n == Len(file)
           counts == [j \in DOMAIN file |-> file[j].tests]
           F == [j \in 1..n |-> {<<i, j>>} \X (1..Len(file[j].cases))]
<1>1. /\ DOMAIN file = 1..n /\ n \in Nat
      /\ \A j \in 1..n : DOMAIN file[j].cases = 1..Len(file[j].cases)
      /\ \A j \in 1..n : Len(file[j].cases) \in Nat
  BY SuiteType
<1>2. counts \in Seq(Nat) /\ Len(counts) = n
  <2>1. "failure" \in Marks
    BY DEF Marks
  <2> QED  BY <2>1, CountsType
<1>3. ASSUME NEW j \in 1..n
      PROVE  IsFiniteSet(F[j]) /\ Cardinality(F[j]) = counts[j]
  <2>1. counts[j] = Len(file[j].cases)
    BY <1>1 DEF TestsAgree
  <2>2. F[j] = {<<i, j>>} \X (1..Len(file[j].cases))
    OBVIOUS
  <2>3. Len(file[j].cases) \in Nat
    BY <1>1
  <2>4. /\ IsFiniteSet({<<i, j>>} \X (1..Len(file[j].cases)))
        /\ Cardinality({<<i, j>>} \X (1..Len(file[j].cases))) = Len(file[j].cases)
    BY ONLY <2>3, Numbered
  <2> HIDE DEF F, counts
  <2> QED  BY ONLY <2>1, <2>2, <2>4
<1>4. Apart(F, n)
  <2> SUFFICES ASSUME NEW j \in 1..n, NEW k \in 1..n, j # k, NEW x \in F[j], x \in F[k]
               PROVE  FALSE
    BY DEF Apart
  <2>1. x[1] = <<i, j>> /\ x[1] = <<i, k>>
    OBVIOUS
  <2>2. <<i, j>>[2] = j /\ <<i, k>>[2] = k
    OBVIOUS
  <2> QED  BY <2>1, <2>2
<1>5. UNION {{<<i, j>>} \X DOMAIN file[j].cases : j \in DOMAIN file}
        = UNION {F[j] : j \in 1..n}
  <2>1. \A j \in 1..n : F[j] = {<<i, j>>} \X DOMAIN file[j].cases
    BY <1>1
  <2> HIDE DEF F, n
  <2> QED  BY <1>1, <2>1
<1>6. TestsIn(file) = SumOf(counts)
  BY DEF TestsIn
<1> HIDE DEF F, counts
<1>7. /\ IsFiniteSet(UNION {F[j] : j \in 1..Len(counts)})
      /\ Cardinality(UNION {F[j] : j \in 1..Len(counts)}) = SumOf(counts)
  BY <1>2, <1>3, <1>4, SumOfParts
<1> QED  BY <1>2, <1>5, <1>6, <1>7

\* And those of all files.
LEMMA ReportCounted ==
    ASSUME NEW report \in Seq(Seq(Suite)), \A i \in DOMAIN report : TestsAgree(report[i])
    PROVE  Cardinality(TestsRun(report)) = SumOf([i \in DOMAIN report |-> TestsIn(report[i])])
<1> DEFINE n == Len(report)
           counts == [i \in DOMAIN report |-> TestsIn(report[i])]
           F == [i \in 1..n |-> UNION {{<<i, j>>} \X DOMAIN report[i][j].cases
                                         : j \in DOMAIN report[i]}]
<1>1. DOMAIN report = 1..n /\ n \in Nat /\ \A i \in 1..n : report[i] \in Seq(Suite)
  OBVIOUS
<1>2. counts \in Seq(Nat) /\ Len(counts) = n
  <2>1. "failure" \in Marks
    BY DEF Marks
  <2>2. counts \in [1..n -> Nat]
    BY <1>1, <2>1, CountsType
  <2> HIDE DEF counts, n
  <2>3. n \in Nat
    BY <1>1
  <2> QED  BY ONLY <2>2, <2>3
<1>3. ASSUME NEW i \in 1..n
      PROVE  IsFiniteSet(F[i]) /\ Cardinality(F[i]) = counts[i]
  <2>1. counts[i] = TestsIn(report[i])
    BY <1>1
  <2>2. F[i] = UNION {{<<i, j>>} \X DOMAIN report[i][j].cases : j \in DOMAIN report[i]}
    OBVIOUS
  <2>3. report[i] \in Seq(Suite) /\ TestsAgree(report[i])
    BY <1>1
  <2> HIDE DEF F, counts
  <2>4. /\ IsFiniteSet(UNION {{<<i, j>>} \X DOMAIN report[i][j].cases : j \in DOMAIN report[i]})
        /\ Cardinality(UNION {{<<i, j>>} \X DOMAIN report[i][j].cases : j \in DOMAIN report[i]})
             = TestsIn(report[i])
    BY ONLY <2>3, FileCounted
  <2> QED  BY ONLY <2>1, <2>2, <2>4
<1>4. Apart(F, n)
  <2> SUFFICES ASSUME NEW i \in 1..n, NEW k \in 1..n, i # k, NEW x \in F[i], x \in F[k]
               PROVE  FALSE
    BY DEF Apart
  <2>1. PICK j \in DOMAIN report[i] : x \in {<<i, j>>} \X DOMAIN report[i][j].cases
    OBVIOUS
  <2>2. PICK l \in DOMAIN report[k] : x \in {<<k, l>>} \X DOMAIN report[k][l].cases
    OBVIOUS
  <2>3. x[1] = <<i, j>> /\ x[1] = <<k, l>>
    BY <2>1, <2>2
  <2>4. <<i, j>>[1] = i /\ <<k, l>>[1] = k
    OBVIOUS
  <2> QED  BY <2>3, <2>4
<1>5. TestsRun(report) = UNION {F[i] : i \in 1..n}
  BY <1>1 DEF TestsRun
<1> HIDE DEF F, counts
<1>6. Cardinality(UNION {F[i] : i \in 1..Len(counts)}) = SumOf(counts)
  BY <1>2, <1>3, <1>4, SumOfParts
<1> QED  BY <1>2, <1>5, <1>6 DEF counts

\* Nothing adds up to something only.
LEMMA FileUnmarked ==
    ASSUME NEW file \in Seq(Suite), NEW mark \in Marks
    PROVE  MarkedIn(file, mark) = 0 <=> \A j \in DOMAIN file : file[j].declared[mark] = 0
<1> DEFINE counts == [j \in DOMAIN file |-> file[j].declared[mark]]
<1>1. counts \in Seq(Nat) /\ Len(counts) = Len(file) /\ DOMAIN file = 1..Len(file)
  BY CountsType, SuiteType
<1>2. \A j \in DOMAIN file : counts[j] = file[j].declared[mark] /\ counts[j] \in Nat
  <2>1. \A j \in 1..Len(file) : file[j].declared \in [Marks -> Nat]
    BY SuiteType
  <2> QED  BY <1>1, <2>1
<1>3. MarkedIn(file, mark) = SumOf(counts)
  BY DEF MarkedIn
<1> HIDE DEF counts
<1>4. /\ SumOf(counts) \in Nat
      /\ \A j \in DOMAIN file : counts[j] <= SumOf(counts)
      /\ (\A j \in DOMAIN file : counts[j] = 0) => SumOf(counts) = 0
  BY <1>1, SumBounds
<1> QED  BY <1>2, <1>3, <1>4

LEMMA ReportUnmarked ==
    ASSUME NEW report \in Seq(Seq(Suite)), NEW mark \in Marks
    PROVE  SumOf([i \in DOMAIN report |-> MarkedIn(report[i], mark)]) = 0
              <=> \A i \in DOMAIN report : \A j \in DOMAIN report[i] :
                     report[i][j].declared[mark] = 0
<1> DEFINE n == Len(report)
           counts == [i \in DOMAIN report |-> MarkedIn(report[i], mark)]
<1>1. DOMAIN report = 1..n /\ n \in Nat /\ \A i \in 1..n : report[i] \in Seq(Suite)
  OBVIOUS
<1>2. counts \in [1..n -> Nat] /\ \A i \in 1..n : counts[i] = MarkedIn(report[i], mark)
  BY <1>1, CountsType
<1>3. \A i \in 1..n : counts[i] = 0 <=> \A j \in DOMAIN report[i] : report[i][j].declared[mark] = 0
  <2> SUFFICES ASSUME NEW i \in 1..n
               PROVE  counts[i] = 0
                        <=> \A j \in DOMAIN report[i] : report[i][j].declared[mark] = 0
    OBVIOUS
  <2>1. MarkedIn(report[i], mark) = 0
          <=> \A j \in DOMAIN report[i] : report[i][j].declared[mark] = 0
    BY <1>1, FileUnmarked
  <2> HIDE DEF counts
  <2> QED  BY <1>2, <2>1
<1> DEFINE Unmarked(i) == \A j \in DOMAIN report[i] : report[i][j].declared[mark] = 0
<1> HIDE DEF counts, n, Unmarked
<1>4. counts \in Seq(Nat) /\ Len(counts) = n
  BY <1>1, <1>2
<1>5. /\ SumOf(counts) \in Nat
      /\ \A i \in 1..n : counts[i] <= SumOf(counts)
      /\ (\A i \in 1..n : counts[i] = 0) => SumOf(counts) = 0
  BY <1>4, SumBounds
<1>6. SumOf(counts) = 0 <=> \A i \in 1..n : counts[i] = 0
  <2>1. \A i \in 1..n : counts[i] \in Nat
    BY <1>2
  <2> QED  BY <1>5, <2>1
<1>7. SumOf(counts) = 0 <=> \A i \in DOMAIN report : Unmarked(i)
  BY <1>1, <1>3, <1>6 DEF Unmarked
<1> QED  BY <1>7 DEF counts, Unmarked

\* A suite declares no failure exactly if it has none.
LEMMA SuitePasses ==
    ASSUME NEW suite \in Suite
    PROVE  /\ (\A mark \in Marks : Cardinality(Marked(suite, mark)) = 0)
                => \A k \in DOMAIN suite.cases : suite.cases[k] = {}
           /\ (\A k \in DOMAIN suite.cases : suite.cases[k] = {})
                => \A mark \in Marks : Cardinality(Marked(suite, mark)) = 0
<1>1. /\ DOMAIN suite.cases = 1..Len(suite.cases) /\ Len(suite.cases) \in Nat
      /\ \A k \in DOMAIN suite.cases : suite.cases[k] \subseteq Marks
  <2>1. suite.cases \in Seq(SUBSET Marks)
    BY DEF Suite
  <2> DEFINE cases == suite.cases
  <2> HIDE DEF cases
  <2>2. cases \in Seq(SUBSET Marks)
    BY <2>1 DEF cases
  <2>3. DOMAIN cases = 1..Len(cases) /\ Len(cases) \in Nat
    BY <2>2
  <2>4. \A k \in DOMAIN cases : cases[k] \in SUBSET Marks
    BY <2>2
  <2> QED  BY <2>3, <2>4 DEF cases
<1>2. IsFiniteSet(DOMAIN suite.cases)
  BY <1>1, FS_Interval
<1>3. ASSUME NEW mark \in Marks
      PROVE  Cardinality(Marked(suite, mark)) = 0 <=> Marked(suite, mark) = {}
  <2>1. Marked(suite, mark) \in SUBSET DOMAIN suite.cases
    BY DEF Marked
  <2>2. IsFiniteSet(Marked(suite, mark))
    BY <1>2, <2>1, FS_Subset
  <2> QED  BY <2>2, FS_EmptySet
<1>4. ASSUME \A mark \in Marks : Marked(suite, mark) = {}, NEW k \in DOMAIN suite.cases
      PROVE  suite.cases[k] = {}
  <2>1. \A mark \in Marks : mark \notin suite.cases[k]
    BY <1>4 DEF Marked
  <2> QED  BY <1>1, <2>1
<1>5. ASSUME \A k \in DOMAIN suite.cases : suite.cases[k] = {}, NEW mark \in Marks
      PROVE  Marked(suite, mark) = {}
  BY <1>5 DEF Marked
<1> QED  BY <1>3, <1>4, <1>5

\* A report that is accepted has the expected number of tests, and all passed.
LEMMA AcceptedReport ==
    ASSUME NEW report \in Seq(Seq(Suite)), ReportAccepted(report)
    PROVE  AllPassed(report) /\ Cardinality(TestsRun(report)) = ExpectedTests
<1>1. /\ \A i \in DOMAIN report : \A j \in DOMAIN report[i] : SuiteAgrees(report[i][j])
      /\ SumOf([i \in DOMAIN report |-> TestsIn(report[i])]) = ExpectedTests
      /\ \A mark \in Marks : SumOf([i \in DOMAIN report |-> MarkedIn(report[i], mark)]) = 0
  BY DEF ReportAccepted
<1>2. \A i \in DOMAIN report : TestsAgree(report[i])
  BY <1>1 DEF SuiteAgrees, TestsAgree
<1>3. Cardinality(TestsRun(report)) = ExpectedTests
  BY <1>1, <1>2, ReportCounted
<1>4. ASSUME NEW i \in DOMAIN report, NEW j \in DOMAIN report[i]
      PROVE  \A k \in DOMAIN report[i][j].cases : report[i][j].cases[k] = {}
  <2>1. report[i][j] \in Suite
    <3>1. report[i] \in Seq(Suite)
      OBVIOUS
    <3> QED  BY <3>1, SuiteType
  <2>2. \A mark \in Marks : report[i][j].declared[mark] = 0
    BY <1>1, ReportUnmarked
  <2>3. \A mark \in Marks : Cardinality(Marked(report[i][j], mark)) = 0
    BY <1>1, <2>2 DEF SuiteAgrees
  <2> QED  BY <2>1, <2>3, SuitePasses
<1> QED  BY <1>3, <1>4 DEF AllPassed

\* No report that is as it should be is refused.
LEMMA SoundReport ==
    ASSUME NEW report \in Seq(Seq(Suite)), Len(report) \in 1..MaxReportFiles,
           AllPassed(report), Cardinality(TestsRun(report)) = ExpectedTests,
           \A i \in DOMAIN report :
              /\ report[i] # <<>>
              /\ \A j \in DOMAIN report[i] :
                    /\ report[i][j].declared = [mark \in Marks |-> 0]
                    /\ report[i][j].tests = Len(report[i][j].cases)
    PROVE  ReportAccepted(report)
<1>1. \A i \in DOMAIN report : TestsAgree(report[i])
  BY DEF TestsAgree
<1>2. SumOf([i \in DOMAIN report |-> TestsIn(report[i])]) = ExpectedTests
  BY <1>1, ReportCounted
<1>3. \A mark \in Marks : \A i \in DOMAIN report : \A j \in DOMAIN report[i] :
         report[i][j].declared[mark] = 0
  OBVIOUS
<1>4. \A mark \in Marks : SumOf([i \in DOMAIN report |-> MarkedIn(report[i], mark)]) = 0
  BY <1>3, ReportUnmarked
<1>5. ASSUME NEW i \in DOMAIN report, NEW j \in DOMAIN report[i]
      PROVE  SuiteAgrees(report[i][j])
  <2>1. report[i][j] \in Suite
    <3>1. report[i] \in Seq(Suite)
      OBVIOUS
    <3> QED  BY <3>1, SuiteType
  <2>2. \A mark \in Marks : Cardinality(Marked(report[i][j], mark)) = 0
    BY <2>1, SuitePasses DEF AllPassed
  <2> QED  BY <1>3, <2>2 DEF SuiteAgrees
<1> QED  BY <1>2, <1>4, <1>5 DEF ReportAccepted

-----------------------------------------------------------------------------
(* Class files *)

\* The limit is on the bytes of all class files together.
LEMMA AcceptedBytes ==
    ASSUME NEW classes \in Seq(ClassFile), BytecodeAccepted(classes)
    PROVE  Cardinality(Bytes(classes)) <= MaxClassBytes
<1> DEFINE n == Len(classes)
           sizes == [j \in 1..n |-> classes[j].size]
           F == [i \in 1..n |-> {i} \X (1..classes[i].size)]
<1>1. /\ DOMAIN classes = 1..n /\ n \in Nat
      /\ \A i \in 1..n : classes[i] \in ClassFile
  OBVIOUS
<1>2. \A i \in 1..n : classes[i].size \in Nat
  BY <1>1 DEF ClassFile
<1>3. SumOf(sizes) <= MaxClassBytes
  <2>1. n \in DOMAIN classes
    BY <1>1 DEF BytecodeAccepted, ClassFilesListed
  <2> QED  BY <2>1 DEF BytecodeAccepted, BytesLeft
<1>4. sizes \in Seq(Nat) /\ Len(sizes) = n
  <2>1. sizes \in [1..n -> Nat]
    BY <1>2
  <2>2. n \in Nat
    BY <1>1
  <2> HIDE DEF sizes, n
  <2> QED  BY ONLY <2>1, <2>2
<1>5. ASSUME NEW i \in 1..n PROVE IsFiniteSet(F[i]) /\ Cardinality(F[i]) = sizes[i]
  <2>1. F[i] = {i} \X (1..classes[i].size) /\ sizes[i] = classes[i].size
    OBVIOUS
  <2>2. classes[i].size \in Nat
    BY <1>2
  <2>3. /\ IsFiniteSet({i} \X (1..classes[i].size))
        /\ Cardinality({i} \X (1..classes[i].size)) = classes[i].size
    BY ONLY <2>2, Numbered
  <2> HIDE DEF F, sizes
  <2> QED  BY ONLY <2>1, <2>3
<1>6. Apart(F, n)
  <2> SUFFICES ASSUME NEW i \in 1..n, NEW k \in 1..n, i # k, NEW x \in F[i], x \in F[k]
               PROVE  FALSE
    BY DEF Apart
  <2>1. x[1] = i /\ x[1] = k
    OBVIOUS
  <2> QED  BY <2>1
<1>7. Bytes(classes) = UNION {F[i] : i \in 1..n}
  BY <1>1 DEF Bytes
<1> HIDE DEF F, sizes
<1>8. Cardinality(UNION {F[i] : i \in 1..Len(sizes)}) = SumOf(sizes)
  BY <1>4, <1>5, <1>6, SumOfParts
<1> QED  BY <1>3, <1>4, <1>7, <1>8

-----------------------------------------------------------------------------
(* The job runs the verifier of the toolchain *)

\* What a step of the job is to the verifier.
LEMMA JobStepIsVerifierStep == CiNext => [Next]_vars
<1> SUFFICES ASSUME CiNext PROVE [Next]_vars
  OBVIOUS
<1>1. CASE VerifyToolchain
  BY <1>1 DEF VerifyToolchain, Next
<1>2. CASE EditItem
  BY <1>2 DEF EditItem, Next
<1>3. CASE EndToolchain
  BY <1>3 DEF EndToolchain
<1>4. CASE VerifyWorkflow
  BY <1>4 DEF VerifyWorkflow
<1>5. CASE VerifyMetadata
  BY <1>5 DEF VerifyMetadata
<1>6. CASE OtherStep
  BY <1>6 DEF OtherStep
<1>7. CASE RunTests
  BY <1>7 DEF RunTests
<1>8. CASE VerifyReport
  BY <1>8 DEF VerifyReport
<1>9. CASE VerifyBytecode
  BY <1>9 DEF VerifyBytecode
<1>10. CASE ListClassFiles
  BY <1>10 DEF ListClassFiles
<1>11. CASE RunJdeps
  BY <1>11 DEF RunJdeps
<1>12. CASE ReplaceClass
  BY <1>12 DEF ReplaceClass
<1> QED  BY <1>1, <1>2, <1>3, <1>4, <1>5, <1>6, <1>7, <1>8, <1>9, <1>10, <1>11, <1>12
         DEF CiNext, Job

\* The toolchain step of the job behaves as verify_toolchain.py by itself.
THEOREM JobRunsVerifier == CiSpec => Spec
<1>1. CiInit => Init
  BY DEF CiInit
<1>2. [CiNext]_ciVars => [Next]_vars
  BY JobStepIsVerifierStep DEF ciVars
<1> QED  BY <1>1, <1>2, PTL DEF CiSpec, Spec

LEMMA StepNames ==
    /\ DOMAIN Steps = 1..12
    /\ Steps[1] = "toolchain" /\ Steps[11] = "jdeps" /\ Steps[12] = "publish"
    /\ \A i \in 1..12 : (Steps[i] = "toolchain") => (i = 1)
    /\ \A i \in 1..12 : (Steps[i] = "jdeps") => (i = 11)
    /\ \A i \in 1..12 : (Steps[i] = "publish") => (i = 12)
  BY DEF Steps

\* The job goes on only after a valid result, and ends only after jdeps.
JobInv ==
    /\ position \in 1..12
    /\ position > 1 => pc = "valid"
    /\ position > 11 /\ "jdeps" \notin touched => DependOnBaseOnly(outputs.classes)

LEMMA InitJobInv == CiInit => JobInv
  BY DEF CiInit, JobInv

\* The toolchain step is the first, and the others leave its result alone.
LEMMA ToolchainStep ==
    ASSUME JobInv, VerifyToolchain \/ EndToolchain
    PROVE  JobInv'
<1>1. position = 1
  BY StepNames DEF JobInv, VerifyToolchain, EndToolchain, At
<1>2. CASE VerifyToolchain
  BY <1>1, <1>2 DEF VerifyToolchain, JobInv
<1>3. CASE EndToolchain
  <2>1. UNCHANGED pc /\ (position' = 1 \/ (position' = 2 /\ pc = "valid"))
    BY <1>1, <1>3 DEF EndToolchain, Proceed, vars
  <2> QED  BY <2>1 DEF JobInv
<1> QED  BY <1>2, <1>3

\* A step before jdeps.
LEMMA EarlierStep ==
    ASSUME JobInv, position \in 2..10, UNCHANGED vars, position' \in {position, position + 1}
    PROVE  JobInv'
  BY DEF JobInv, vars

\* jdeps is reviewed unless somebody has touched it, and has seen every class.
LEMMA JdepsStep ==
    ASSUME JobInv, StableFlawRefused, RunJdeps
    PROVE  JobInv'
<1>1. position = 11 /\ pc = "valid"
  BY StepNames DEF JobInv, RunJdeps, At
<1>2. UNCHANGED <<pc, touched, outputs, item>>
  BY DEF RunJdeps, vars, files
<1>3. position' \in {11, 12}
  BY <1>1 DEF RunJdeps, Proceed
<1>4. ASSUME position' = 12, "jdeps" \notin touched PROVE DependOnBaseOnly(outputs.classes)
  <2>1. item["jdeps"] = "reviewed"
    BY <1>1, <1>4 DEF StableFlawRefused, Needed, ToolSet, Tools
  <2>2. JdepsAccepted(outputs.classes)
    BY <1>1, <1>4, <2>1 DEF RunJdeps, Proceed
  <2> QED  BY <2>2 DEF JdepsAccepted, ModulesOf, DependOnBaseOnly
<1> QED  BY <1>1, <1>2, <1>3, <1>4 DEF JobInv

LEMMA NextJobInv ==
    ASSUME JobInv, StableFlawRefused, [CiNext]_ciVars
    PROVE  JobInv'
<1> USE StepNames
<1>1. CASE VerifyToolchain \/ EndToolchain
  BY <1>1, ToolchainStep
<1>2. CASE VerifyWorkflow
  <2>1. position \in 2..10
    BY <1>2 DEF VerifyWorkflow, At, JobInv, Steps
  <2>2. UNCHANGED vars /\ position' \in {position, position + 1}
    BY <1>2 DEF VerifyWorkflow, Proceed
  <2> QED  BY <2>1, <2>2, EarlierStep
<1>3. CASE VerifyMetadata
  <2>1. position \in 2..10
    BY <1>3 DEF VerifyMetadata, At, JobInv, Steps
  <2>2. UNCHANGED vars /\ position' \in {position, position + 1}
    BY <1>3 DEF VerifyMetadata, Proceed
  <2> QED  BY <2>1, <2>2, EarlierStep
<1>4. CASE OtherStep
  <2>1. position \in 2..10
    BY <1>4 DEF OtherStep, At, JobInv, Steps
  <2>2. UNCHANGED vars /\ position' \in {position, position + 1}
    BY <1>4 DEF OtherStep, Proceed
  <2> QED  BY <2>1, <2>2, EarlierStep
<1>5. CASE RunTests
  <2>1. position \in 2..10
    BY <1>5 DEF RunTests, At, JobInv, Steps
  <2>2. UNCHANGED vars /\ position' \in {position, position + 1}
    BY <1>5 DEF RunTests, Proceed
  <2> QED  BY <2>1, <2>2, EarlierStep
<1>6. CASE VerifyReport
  <2>1. position \in 2..10
    BY <1>6 DEF VerifyReport, At, JobInv, Steps
  <2>2. UNCHANGED vars /\ position' \in {position, position + 1}
    BY <1>6 DEF VerifyReport, Proceed
  <2> QED  BY <2>1, <2>2, EarlierStep
<1>7. CASE VerifyBytecode
  <2>1. position \in 2..10
    BY <1>7 DEF VerifyBytecode, At, JobInv, Steps
  <2>2. UNCHANGED vars /\ position' \in {position, position + 1}
    BY <1>7 DEF VerifyBytecode, Proceed
  <2> QED  BY <2>1, <2>2, EarlierStep
<1>8. CASE RunJdeps
  BY <1>8, JdepsStep
<1>9. CASE EditItem
  <2>1. touched \subseteq touched' /\ UNCHANGED <<pc, position, outputs>>
    BY <1>9 DEF EditItem, Edit, files
  <2> QED  BY <2>1 DEF JobInv
<1>10. CASE ReplaceClass
  <2>1. position \in {10, 11} /\ UNCHANGED <<pc, position, touched>>
    BY <1>10 DEF ReplaceClass, At, JobInv, Steps, vars
  <2> QED  BY <2>1 DEF JobInv
<1>11. CASE ListClassFiles
  <2>1. position \in 2..10
    BY <1>11 DEF ListClassFiles, At, JobInv, Steps
  <2>2. UNCHANGED vars /\ position' \in {position, position + 1}
    BY <1>11 DEF ListClassFiles, Proceed
  <2> QED  BY <2>1, <2>2, EarlierStep
<1>12. CASE UNCHANGED ciVars
  BY <1>12 DEF ciVars, vars, files, JobInv
<1> QED  BY <1>1, <1>2, <1>3, <1>4, <1>5, <1>6, <1>7, <1>8, <1>9, <1>10, <1>11, <1>12
         DEF CiNext, Job

\* The verifier refuses what is flawed and left alone, so jdeps is reviewed.
LEMMA JobInvariant == CiSpec => []JobInv
<1>1. CiSpec => []StableFlawRefused
  BY JobRunsVerifier, StableFlawRefusedHolds, PTL
<1> QED  BY <1>1, InitJobInv, NextJobInv, PTL DEF CiSpec

-----------------------------------------------------------------------------
(* What the steps have read *)

\* What the steps have read, and what they have made of it.
BuildType == outputs \in [report : Seq(Seq(Suite)), classes : Seq(ClassFile)]

WorkflowRead ==
    /\ position > 2 => workflow \in AcceptedTexts
    /\ position = 2 /\ failed => workflow \notin AcceptedTexts \/ item["manifest"] = "other"

MetadataRead ==
    /\ metadata \in Documents
    /\ position > 3 => metadata \in AcceptedDocuments
    /\ position = 3 /\ failed => metadata \notin AcceptedDocuments

ReportRead ==
    /\ position > 7 => ReportAccepted(outputs.report)
    /\ position = 7 /\ failed => ~ReportAccepted(outputs.report)

ClassesRead == position > 9 /\ ~replaced => BytecodeAccepted(outputs.classes)

ReadInv ==
    position \in 1..12 /\ BuildType /\ WorkflowRead /\ MetadataRead /\ ReportRead /\ ClassesRead

LEMMA StepPositions ==
    \A i \in 1..12 :
        /\ Steps[i] = "toolchain" => i = 1
        /\ Steps[i] = "workflow" => i = 2
        /\ Steps[i] = "metadata" => i = 3
        /\ Steps[i] \in {"scan", "checks", "javadoc"} => i \in {4, 5, 8}
        /\ Steps[i] = "test" => i = 6
        /\ Steps[i] = "report" => i = 7
        /\ Steps[i] = "bytecode" => i = 9
        /\ Steps[i] = "class_files" => i = 10
        /\ Steps[i] = "jdeps" => i = 11
  BY DEF Steps

LEMMA StepsAt ==
    /\ Steps[2] = "workflow" /\ Steps[3] = "metadata" /\ Steps[7] = "report"
    /\ Steps[11] = "jdeps"
  BY DEF Steps

LEMMA InitReadInv == CiInit => ReadInv
<1> SUFFICES ASSUME CiInit PROVE ReadInv
  OBVIOUS
<1>1. position = 1 /\ failed = FALSE /\ outputs = [report |-> <<>>, classes |-> <<>>]
  BY DEF CiInit
<1>2. BuildType
  BY <1>1 DEF BuildType
<1>3. metadata \in Documents
  BY CiAssumption DEF CiInit
<1> QED  BY <1>1, <1>2, <1>3 DEF ReadInv, WorkflowRead, MetadataRead, ReportRead, ClassesRead

\* A step that leaves what was read alone may be at a place where nothing is said
\* of its failure.
LEMMA OtherRead ==
    ASSUME ReadInv, UNCHANGED files, NEW here \in {1, 4, 5, 6, 8, 10, 11}, position = here,
           position' = here \/ (position' = here + 1 /\ failed' = FALSE)
    PROVE  ReadInv'
<1>1. position' \in 1..12 /\ (position' \in {2, 3, 7} => failed' = FALSE)
      /\ (position' > 2 => position > 2 \/ position' = 2) /\ (position' > 3 => position > 3)
      /\ (position' > 7 => position > 7) /\ (position' > 9 => position > 9)
  OBVIOUS
<1> QED  BY <1>1 DEF ReadInv, BuildType, WorkflowRead, MetadataRead, ReportRead, ClassesRead, files

LEMMA WorkflowStepRead ==
    ASSUME ReadInv, VerifyWorkflow
    PROVE  ReadInv'
<1>1. position = 2 /\ ~failed
  BY StepPositions DEF VerifyWorkflow, At, ReadInv
<1>2. UNCHANGED <<item, metadata, outputs, replaced>>
  BY DEF VerifyWorkflow, vars
<1>3. \/ position' = 3 /\ failed' = failed /\ workflow' \in AcceptedTexts
      \/ position' = 2 /\ failed' = TRUE
           /\ (workflow' \notin AcceptedTexts \/ item["manifest"] = "other")
  BY <1>1 DEF VerifyWorkflow, Proceed
<1> QED  BY <1>1, <1>2, <1>3
         DEF ReadInv, BuildType, WorkflowRead, MetadataRead, ReportRead, ClassesRead

LEMMA MetadataStepRead ==
    ASSUME ReadInv, VerifyMetadata
    PROVE  ReadInv'
<1>1. position = 3 /\ ~failed
  BY StepPositions DEF VerifyMetadata, At, ReadInv
<1>2. UNCHANGED <<item, workflow, outputs, replaced>>
  BY DEF VerifyMetadata, vars
<1>3. \/ position' = 4 /\ metadata' \in AcceptedDocuments
      \/ position' = 3 /\ failed' = TRUE /\ metadata' \notin AcceptedDocuments
  BY <1>1 DEF VerifyMetadata, Proceed
<1>4. metadata' \in Documents
  BY DEF VerifyMetadata
<1> QED  BY <1>1, <1>2, <1>3, <1>4
         DEF ReadInv, BuildType, WorkflowRead, MetadataRead, ReportRead, ClassesRead

\* The build makes the outputs anew.
LEMMA TestStepRead ==
    ASSUME ReadInv, RunTests
    PROVE  ReadInv'
<1>1. position = 6 /\ ~failed
  BY StepPositions DEF RunTests, At, ReadInv
<1>2. UNCHANGED <<item, workflow, metadata, replaced>>
  BY DEF RunTests, vars
<1>3. \/ position' = 6 /\ UNCHANGED outputs
      \/ position' = 7 /\ failed' = failed /\ outputs' \in Outputs
  BY <1>1 DEF RunTests, Proceed
<1>4. BuildType'
  BY <1>3, CiAssumption DEF ReadInv, BuildType
<1> QED  BY <1>1, <1>2, <1>3, <1>4
         DEF ReadInv, WorkflowRead, MetadataRead, ReportRead, ClassesRead

LEMMA ReportStepRead ==
    ASSUME ReadInv, VerifyReport
    PROVE  ReadInv'
<1>1. position = 7 /\ ~failed
  BY StepPositions DEF VerifyReport, At, ReadInv
<1>2. UNCHANGED <<item, workflow, metadata, outputs, replaced>>
  BY DEF VerifyReport, vars, files
<1>3. \/ position' = 8 /\ ReportAccepted(outputs.report)
      \/ position' = 7 /\ failed' = TRUE /\ ~ReportAccepted(outputs.report)
  BY <1>1 DEF VerifyReport, Proceed
<1> QED  BY <1>1, <1>2, <1>3
         DEF ReadInv, BuildType, WorkflowRead, MetadataRead, ReportRead, ClassesRead

LEMMA BytecodeStepRead ==
    ASSUME ReadInv, VerifyBytecode
    PROVE  ReadInv'
<1>1. position = 9 /\ ~failed
  BY StepPositions DEF VerifyBytecode, At, ReadInv
<1>2. UNCHANGED <<item, workflow, metadata, outputs, replaced>>
  BY DEF VerifyBytecode, vars, files
<1>3. \/ position' = 10 /\ BytecodeAccepted(outputs.classes)
      \/ position' = 9
  BY <1>1 DEF VerifyBytecode, Proceed
<1> QED  BY <1>1, <1>2, <1>3
         DEF ReadInv, BuildType, WorkflowRead, MetadataRead, ReportRead, ClassesRead

\* Whoever replaces a class file leaves the report alone.
LEMMA ReplaceRead ==
    ASSUME ReadInv, ReplaceClass
    PROVE  ReadInv'
<1>1. position \in {10, 11} /\ UNCHANGED <<position, failed, item, workflow, metadata>>
      /\ replaced' = TRUE
  BY StepPositions DEF ReplaceClass, At, ReadInv, vars
<1>2. PICK i \in DOMAIN outputs.classes, class \in OtherClasses :
         outputs' = [outputs EXCEPT !.classes[i] = class]
  BY DEF ReplaceClass
<1>3. outputs \in [report : Seq(Seq(Suite)), classes : Seq(ClassFile)]
  BY DEF ReadInv, BuildType
<1>4. [outputs.classes EXCEPT ![i] = class] \in Seq(ClassFile)
  <2> DEFINE classes == outputs.classes
  <2>1. classes \in Seq(ClassFile) /\ i \in DOMAIN classes /\ class \in ClassFile
    BY <1>2, <1>3, CiAssumption
  <2> HIDE DEF classes
  <2>2. [classes EXCEPT ![i] = class] \in Seq(ClassFile)
    BY <2>1
  <2> QED  BY <2>2 DEF classes
<1>5. outputs' = [outputs EXCEPT !.classes = [outputs.classes EXCEPT ![i] = class]]
  BY <1>2, <1>3
<1>6. BuildType' /\ outputs'.report = outputs.report
  <2> DEFINE c == [outputs.classes EXCEPT ![i] = class]
             S == Seq(Seq(Suite))
             T == Seq(ClassFile)
  <2>1. c \in T /\ outputs' = [outputs EXCEPT !.classes = c]
        /\ outputs \in [report : S, classes : T]
    BY <1>3, <1>4, <1>5
  <2> HIDE DEF c, S, T
  <2>2. outputs' \in [report : S, classes : T] /\ outputs'.report = outputs.report
    BY ONLY <2>1
  <2> QED  BY <2>2 DEF BuildType, S, T
<1> QED  BY <1>1, <1>6 DEF ReadInv, WorkflowRead, MetadataRead, ReportRead, ClassesRead

LEMMA NextReadInv ==
    ASSUME ReadInv, [CiNext]_ciVars
    PROVE  ReadInv'
<1>1. CASE VerifyToolchain
  <2>1. position = 1
    BY <1>1, StepPositions DEF VerifyToolchain, At, ReadInv
  <2> QED  BY <1>1, <2>1, OtherRead DEF VerifyToolchain
<1>2. CASE EndToolchain
  <2>1. position = 1 /\ ~failed /\ UNCHANGED files
    BY <1>2, StepPositions DEF EndToolchain, At, ReadInv
  <2>2. position' = 1 \/ (position' = 1 + 1 /\ failed' = FALSE)
    BY <1>2, <2>1 DEF EndToolchain, Proceed
  <2> QED  BY <2>1, <2>2, OtherRead
<1>3. CASE VerifyWorkflow
  BY <1>3, WorkflowStepRead
<1>4. CASE VerifyMetadata
  BY <1>4, MetadataStepRead
<1>5. CASE OtherStep
  <2>1. position \in {4, 5, 8} /\ ~failed /\ UNCHANGED files
    BY <1>5, StepPositions DEF OtherStep, At, ReadInv
  <2>2. position' = position \/ (position' = position + 1 /\ failed' = FALSE)
    BY <1>5, <2>1 DEF OtherStep, Proceed
  <2> QED  BY <2>1, <2>2, OtherRead
<1>6. CASE RunTests
  BY <1>6, TestStepRead
<1>7. CASE VerifyReport
  BY <1>7, ReportStepRead
<1>8. CASE VerifyBytecode
  BY <1>8, BytecodeStepRead
<1>9. CASE ListClassFiles \/ RunJdeps
  <2>1. position \in {10, 11} /\ ~failed /\ UNCHANGED files
    BY <1>9, StepPositions DEF ListClassFiles, RunJdeps, At, ReadInv
  <2>2. position' = position \/ (position' = position + 1 /\ failed' = FALSE)
    BY <1>9, <2>1 DEF ListClassFiles, RunJdeps, Proceed
  <2> QED  BY <2>1, <2>2, OtherRead
<1>10. CASE EditItem
  <2>1. ~failed /\ UNCHANGED <<position, failed, workflow, metadata, outputs, replaced>>
    BY <1>10 DEF EditItem, files
  <2> QED  BY <2>1 DEF ReadInv, BuildType, WorkflowRead, MetadataRead, ReportRead, ClassesRead
<1>11. CASE ReplaceClass
  BY <1>11, ReplaceRead
<1>12. CASE UNCHANGED ciVars
  BY <1>12 DEF ciVars, vars, files, ReadInv, BuildType, WorkflowRead, MetadataRead, ReportRead,
               ClassesRead
<1> QED  BY <1>1, <1>2, <1>3, <1>4, <1>5, <1>6, <1>7, <1>8, <1>9, <1>10, <1>11, <1>12
         DEF CiNext, Job

LEMMA ReadInvariant == CiSpec => []ReadInv
  BY InitReadInv, NextReadInv, PTL DEF CiSpec

\* A step is passed when the job is at a later one.
LEMMA PastStep ==
    ASSUME ReadInv
    PROVE  /\ Past("workflow") => position > 2
           /\ Past("metadata") => position > 3
           /\ Past("report") => position > 7
           /\ Past("jdeps") => position > 11
           /\ FailedAt("workflow") => position = 2 /\ failed
           /\ FailedAt("metadata") => position = 3 /\ failed
           /\ FailedAt("report") => position = 7 /\ failed
<1>1. position \in 1..12
  BY DEF ReadInv
<1>2. \A name : Past(name) => \E i \in 1..12 : i < position /\ Steps[i] = name
  BY <1>1 DEF Past
<1> QED  BY <1>1, <1>2, StepPositions DEF FailedAt

\* "Parse and fail closed on any change", for any reviewed workflow whose list items
\* start with a scalar, any other text and any mutations: a text that passes says
\* line by line what the reviewed one says (verify_ci_workflow.py).
THEOREM WorkflowFailsClosedHolds == CiSpec => []WorkflowFailsClosed
<1>1. ReadInv => WorkflowFailsClosed
  <2> SUFFICES ASSUME ReadInv PROVE WorkflowFailsClosed
    OBVIOUS
  <2>1. /\ Texts \subseteq Seq(WorkflowLine) /\ ReviewedText \in Texts
        /\ WorkflowAccepted(ReviewedText) /\ ScalarItems(ReviewedText)
    BY CiAssumption DEF ScalarItems
  <2>2. ASSUME NEW t \in AcceptedTexts PROVE t \in SameTexts
    <3>1. t \in Texts /\ Exact(t) /\ Exact(ReviewedText)
      BY <2>1, <2>2 DEF AcceptedTexts, WorkflowAccepted
    <3>2. t \in Seq(WorkflowLine) /\ ReviewedText \in Seq(WorkflowLine)
      BY <2>1, <3>1
    <3>3. SameWorkflow(t, ReviewedText)
      BY <2>1, <3>1, <3>2, ExactTextsAgree
    <3> QED  BY <3>1, <3>3 DEF SameTexts
  <2>3. ReviewedText \in AcceptedTexts
    BY <2>1 DEF AcceptedTexts
  <2>4. Past("workflow") => workflow \in SameTexts
    BY <2>2, PastStep DEF ReadInv, WorkflowRead
  <2>5. FailedAt("workflow") => workflow # ReviewedText \/ item["manifest"] = "other"
    BY <2>3, PastStep DEF ReadInv, WorkflowRead
  <2> QED  BY <2>4, <2>5 DEF WorkflowFailsClosed
<1> QED  BY <1>1, ReadInvariant, PTL

\* Metadata pass if and only if they list what the reviewed ones list, by digests of
\* a reviewed origin, though the verifier compares what is left of them in two mappings
\* and then tampers with them (verify_dependency_metadata.py).
THEOREM MetadataListsGraphHolds == CiSpec => []MetadataListsGraph
<1>1. ReadInv => MetadataListsGraph
  <2> SUFFICES ASSUME ReadInv PROVE MetadataListsGraph
    OBVIOUS
  <2>1. metadata \in AcceptedDocuments
          <=> Listing(metadata) = Listing(ReviewedMetadata) /\ OriginsReviewed(metadata)
    BY AcceptedDocument DEF ReadInv, MetadataRead
  <2>2. Past("metadata") => metadata \in AcceptedDocuments
    BY PastStep DEF ReadInv, MetadataRead
  <2>3. FailedAt("metadata") => metadata \notin AcceptedDocuments
    BY PastStep DEF ReadInv, MetadataRead
  <2> QED  BY <2>1, <2>2, <2>3 DEF MetadataListsGraph
<1> QED  BY <1>1, ReadInvariant, PTL

\* The totals of a report that passes are those of its test cases, however they are
\* spread over files and suites (verify_test_report.py).
THEOREM ReportCountsPassesHolds == CiSpec => []ReportCountsPasses
<1>1. ReadInv => ReportCountsPasses
  <2> SUFFICES ASSUME ReadInv PROVE ReportCountsPasses
    OBVIOUS
  <2> DEFINE report == outputs.report
             allWell == AllPassed(report) /\ Cardinality(TestsRun(report)) = ExpectedTests
             asDeclared == \A i \in DOMAIN report :
                              /\ report[i] # <<>>
                              /\ \A j \in DOMAIN report[i] :
                                    /\ report[i][j].declared = [mark \in Marks |-> 0]
                                    /\ report[i][j].tests = Len(report[i][j].cases)
  <2>1. report \in Seq(Seq(Suite))
    BY DEF ReadInv, BuildType
  <2>2. Past("report") => allWell
    <3> HIDE DEF report
    <3>1. ReportAccepted(report) => allWell
      BY <2>1, AcceptedReport
    <3> QED  BY <3>1, PastStep DEF ReadInv, ReportRead, report
  <2>3. FailedAt("report") => Len(report) \notin 1..MaxReportFiles \/ ~allWell \/ ~asDeclared
    <3> HIDE DEF report
    <3>1. Len(report) \in 1..MaxReportFiles /\ allWell /\ asDeclared => ReportAccepted(report)
      BY <2>1, SoundReport
    <3> HIDE DEF allWell, asDeclared
    <3> QED  BY <3>1, PastStep DEF ReadInv, ReportRead, report
  <2> QED  BY <2>2, <2>3 DEF ReportCountsPasses
<1> QED  BY <1>1, ReadInvariant, PTL

\* The classes that jdeps has seen depend on java.base only, if jdeps itself was left
\* alone once the toolchain was verified; the limit on all bytes and the version of each
\* hold of them if nobody replaced one after the bytecode step: in whatever order the
\* tools, the files and the classes were changed around the steps (verify_jdeps.py,
\* verify_bytecode.py).
THEOREM ClassesAreSoundHolds == CiSpec => []ClassesAreSound
<1>1. JobInv /\ ReadInv => ClassesAreSound
  <2> SUFFICES ASSUME JobInv, ReadInv, Past("jdeps")
               PROVE  /\ "jdeps" \notin touched => DependOnBaseOnly(outputs.classes)
                      /\ ~replaced =>
                            /\ Cardinality(Bytes(outputs.classes)) <= MaxClassBytes
                            /\ \A i \in DOMAIN outputs.classes :
                                  outputs.classes[i].regular /\ outputs.classes[i].major = 61
    BY DEF ClassesAreSound
  <2>1. position > 11
    BY PastStep
  <2>2. "jdeps" \notin touched => DependOnBaseOnly(outputs.classes)
    BY <2>1 DEF JobInv
  <2>3. ASSUME ~replaced
        PROVE  /\ Cardinality(Bytes(outputs.classes)) <= MaxClassBytes
               /\ \A i \in DOMAIN outputs.classes :
                     outputs.classes[i].regular /\ outputs.classes[i].major = 61
    <3>1. outputs.classes \in Seq(ClassFile)
      BY DEF ReadInv, BuildType
    <3>2. position > 9
      BY <2>1 DEF ReadInv
    <3>3. BytecodeAccepted(outputs.classes)
      BY <2>3, <3>2 DEF ReadInv, ClassesRead
    <3>4. Cardinality(Bytes(outputs.classes)) <= MaxClassBytes
      BY <3>1, <3>3, AcceptedBytes
    <3> QED  BY <3>3, <3>4 DEF BytecodeAccepted
  <2> QED  BY <2>2, <2>3
<1> QED  BY <1>1, JobInvariant, ReadInvariant, PTL

=============================================================================
