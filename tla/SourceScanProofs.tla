-------------------------- MODULE SourceScanProofs --------------------------
(***************************************************************************)
(* Proofs about SourceScan, for any paths, trees, limits and edits.        *)
(***************************************************************************)
EXTENDS SourceScan, WellFoundedInduction, FiniteSetTheorems, TLAPS

\* A nonempty set of numbers has a least one.
LEMMA HasLeast ==
    ASSUME NEW S, S \subseteq Nat, S # {}
    PROVE  \E n \in S : \A m \in S : n <= m
  <1> DEFINE R == OpToRel(<, Nat)
  <1>1. \E n \in S : \A m \in S : ~ (<<m, n>> \in R)
    <2>1. IsWellFoundedOn(R, Nat)
      BY NatLessThanWellFounded
    <2> HIDE DEF R
    <2> QED
      BY <2>1, WFMin
  <1>2. ASSUME NEW m \in Nat, NEW n \in Nat, <<m, n>> \notin R PROVE n <= m
    <2>1. ~(m < n)
      BY <1>2 DEF OpToRel
    <2> QED
      BY <2>1
  <1> HIDE DEF R
  <1> QED
    BY <1>1, <1>2

\* A nonempty set of paths has a first one, and Current is it.
LEMMA CurrentIsFirst ==
    ASSUME left \subseteq Nodes, left # {}
    PROVE  Current \in left /\ \A m \in left : Current <= m
  <1>1. left \subseteq Nat
    BY DEF Nodes
  <1> QED
    BY <1>1, HasLeast DEF Current

LEMMA InvalidType ==
    ASSUME TypeOK, Invalid
    PROVE  /\ pc' = "invalid"
           /\ pending' \subseteq 0..PathCount /\ directories' \in 0..MaxDirectories
           /\ listed' \subseteq Nodes /\ left' \subseteq listed'
           /\ seen' \in [Nodes -> 0..PathCount] /\ findings' \subseteq Nodes \X Reasons
  BY DEF TypeOK, Invalid

LEMMA ListedType ==
    ASSUME TypeOK, NEW paths \in SUBSET Nodes, Listed(paths),
           UNCHANGED <<pending, directories>>
    PROVE  /\ pc' \in {"scan", "invalid"}
           /\ pending' \subseteq 0..PathCount /\ directories' \in 0..MaxDirectories
           /\ listed' \subseteq Nodes /\ left' \subseteq listed'
           /\ seen' \in [Nodes -> 0..PathCount] /\ findings' \subseteq Nodes \X Reasons
  BY DEF TypeOK, Listed, Invalid

LEMMA ReportType ==
    ASSUME TypeOK, NEW n \in Nodes, NEW found \in SUBSET (Nodes \X Reasons), Report(n, found)
    PROVE  /\ pc' = "scan" /\ left' \subseteq listed
           /\ findings' \subseteq Nodes \X Reasons
  BY DEF TypeOK, Report

\* While a file is looked at there is one, so Current means something.
Busy == pc \in {"size", "read"} => left # {}

LEMMA NextBusy == TypeOK /\ Busy /\ [Next]_vars => Busy'
  <1> SUFFICES ASSUME TypeOK, Busy, [Next]_vars PROVE Busy'
    OBVIOUS
  <1> USE DEF Busy
  <1>1. CASE ListTracked
    BY <1>1 DEF ListTracked, Listed, Invalid
  <1>2. CASE Enumerate
    BY <1>2 DEF Enumerate, Invalid
  <1>3. CASE EndWalk
    BY <1>3 DEF EndWalk, Listed, Invalid
  <1>4. CASE Look
    BY <1>4 DEF Look, Report
  <1>5. CASE Size
    BY <1>5 DEF Size, Report
  <1>6. CASE Read
    BY <1>6 DEF Read, Report
  <1>7. CASE Finish
    BY <1>7 DEF Finish
  <1>8. ASSUME NEW n \in Nodes, NEW item \in Items, Edit(n, item) PROVE Busy'
    BY <1>8 DEF Edit, Results
  <1>9. CASE UNCHANGED vars
    BY <1>9 DEF vars
  <1> QED
    BY <1>1, <1>2, <1>3, <1>4, <1>5, <1>6, <1>7, <1>8, <1>9 DEF Next, Scan

LEMMA InitType == Init => TypeOK
  <1> SUFFICES ASSUME Init PROVE TypeOK
    OBVIOUS
  <1>1. tree \in [Nodes -> Items]
    BY TreeAssumption DEF Init
  <1>2. index \subseteq Nodes /\ atTop \in BOOLEAN
    BY DEF Init
  <1>3. pending \subseteq 0..PathCount /\ seen \in [Nodes -> 0..PathCount]
    BY ScanAssumption DEF Init
  <1>4. directories \in 0..MaxDirectories /\ edits \in 0..MaxEdits
    BY ScanAssumption DEF Init
  <1> QED
    BY <1>1, <1>2, <1>3, <1>4 DEF Init, TypeOK

LEMMA NextType == TypeOK /\ Busy /\ [Next]_vars => TypeOK'
  <1> SUFFICES ASSUME TypeOK, Busy, [Next]_vars PROVE TypeOK'
    OBVIOUS
  <1> USE DEF environment
  <1>1. CASE ListTracked
    <2>1. CASE Invalid
      BY <1>1, <2>1, InvalidType DEF ListTracked, TypeOK, Results
    <2>2. CASE Listed(index) /\ UNCHANGED <<pending, directories, quiet>>
      BY <1>1, <2>2, ListedType DEF ListTracked, TypeOK, Results
    <2> QED
      BY <1>1, <2>1, <2>2 DEF ListTracked
  <1>2. CASE Enumerate
    <2>1. CASE Invalid
      BY <1>2, <2>1, InvalidType DEF Enumerate, TypeOK, Results
    <2>2. CASE ~Invalid
      <3> DEFINE entries == Entries(Top)
      <3>1. /\ directories + 1 <= MaxDirectories /\ directories' = directories + 1
            /\ pending' = (pending \ {Top}) \cup ToDescend(entries)
            /\ listed' = listed \cup ToList(entries)
            /\ UNCHANGED <<pc, left, seen, findings, quiet, tree, tracked, atTop, index, touched, edits>>
        BY <1>2, <2>2 DEF Enumerate, DirectoryLeft
      <3>2. ToDescend(entries) \subseteq Nodes /\ ToList(entries) \subseteq Nodes
        BY DEF Entries, ToDescend, ToList
      <3>3. Nodes \subseteq 0..PathCount
        BY ScanAssumption DEF Nodes
      <3>4. directories' \in 0..MaxDirectories
        BY <3>1, ScanAssumption DEF TypeOK
      <3> QED
        BY <3>1, <3>2, <3>3, <3>4 DEF TypeOK
    <2> QED
      BY <2>1, <2>2
  <1>3. CASE EndWalk
    BY <1>3, ListedType DEF EndWalk, TypeOK, Results
  <1>4. CASE Look
    <2> DEFINE n == Current
    <2>1. n \in Nodes
      BY <1>4, CurrentIsFirst DEF Look, TypeOK
    <2>2. FoldedForm(n) \in Nodes /\ n \in 0..PathCount
      BY <2>1, ScanAssumption DEF FoldedForm, Nodes
    <2>3. Collision(n) \subseteq Nodes \X Reasons
      BY <2>1 DEF Collision, Reasons
    <2>4. seen' \in [Nodes -> 0..PathCount]
      BY <1>4, <2>2 DEF Look, TypeOK
    <2>5. /\ pc' \in {"scan", "size"} /\ left' \subseteq listed
          /\ findings' \subseteq Nodes \X Reasons
      <3>1. Collision(n) \cup {<<n, "symlink">>} \in SUBSET (Nodes \X Reasons)
        BY <2>1, <2>3 DEF Reasons
      <3>2. Collision(n) \cup {<<n, "notRegular">>} \in SUBSET (Nodes \X Reasons)
        BY <2>1, <2>3 DEF Reasons
      <3>3. CASE Report(n, Collision(n) \cup {<<n, "symlink">>})
        BY <3>1, <3>3, <2>1, ReportType
      <3>4. CASE Report(n, Collision(n) \cup {<<n, "notRegular">>})
        BY <3>2, <3>4, <2>1, ReportType
      <3>5. CASE findings' = findings \cup Collision(n) /\ pc' = "size" /\ UNCHANGED left
        BY <3>5, <2>3 DEF TypeOK
      <3> QED
        BY <1>4, <3>3, <3>4, <3>5 DEF Look
    <2> QED
      BY <1>4, <2>4, <2>5 DEF Look, TypeOK
  <1>5. CASE Size
    <2> DEFINE n == Current
    <2>1. n \in Nodes
      BY <1>5, CurrentIsFirst DEF Size, TypeOK, Busy
    <2>2. {<<n, "unreadable">>} \in SUBSET (Nodes \X Reasons)
      BY <2>1 DEF Reasons
    <2>3. {<<n, "oversized">>} \in SUBSET (Nodes \X Reasons)
      BY <2>1 DEF Reasons
    <2>4. /\ pc' \in {"scan", "read"} /\ left' \subseteq listed
          /\ findings' \subseteq Nodes \X Reasons
      <3>1. CASE Report(n, {<<n, "unreadable">>})
        BY <3>1, <2>1, <2>2, ReportType
      <3>2. CASE Report(n, {<<n, "oversized">>})
        BY <3>2, <2>1, <2>3, ReportType
      <3>3. CASE pc' = "read" /\ UNCHANGED <<findings, left>>
        BY <3>3 DEF TypeOK
      <3> QED
        BY <1>5, <3>1, <3>2, <3>3 DEF Size
    <2> QED
      BY <1>5, <2>4 DEF Size, TypeOK
  <1>6. CASE Read
    <2> DEFINE n == Current
    <2>1. n \in Nodes
      BY <1>6, CurrentIsFirst DEF Read, TypeOK, Busy
    <2>2. PICK found \in SUBSET (Nodes \X Reasons) : Report(n, found)
      <3>1. {<<n, "unreadable">>} \in SUBSET (Nodes \X Reasons)
        BY <2>1 DEF Reasons
      <3>2. (IF Judged(tree[n].content) THEN {<<n, "content">>} ELSE {})
              \in SUBSET (Nodes \X Reasons)
        BY <2>1 DEF Reasons
      <3> QED
        BY <1>6, <3>1, <3>2 DEF Read
    <2>3. quiet' \in BOOLEAN
      BY <1>6 DEF Read, TypeOK
    <2> QED
      BY <1>6, <2>1, <2>2, <2>3, ReportType DEF Read, TypeOK
  <1>7. CASE Finish
    BY <1>7 DEF Finish, TypeOK, Results
  <1>8. ASSUME NEW n \in Nodes, NEW item \in Items, Edit(n, item) PROVE TypeOK'
    <2>1. tree' \in [Nodes -> Items]
      BY <1>8 DEF Edit, TypeOK
    <2>2. edits' \in 0..MaxEdits
      BY <1>8, ScanAssumption DEF Edit, TypeOK
    <2>3. touched' \subseteq Nodes /\ quiet' \in BOOLEAN
      BY <1>8 DEF Edit, TypeOK
    <2> QED
      BY <1>8, <2>1, <2>2, <2>3 DEF Edit, TypeOK
  <1>9. CASE UNCHANGED vars
    BY <1>9 DEF vars, TypeOK
  <1> QED
    BY <1>1, <1>2, <1>3, <1>4, <1>5, <1>6, <1>7, <1>8, <1>9 DEF Next, Scan

\* Every variable of the scan keeps its type, and the walk its limits (TypeOK).
THEOREM TypeCorrect == Spec => []TypeOK
  <1>1. Init => TypeOK /\ Busy
    BY InitType DEF Init, Busy
  <1>2. TypeOK /\ Busy /\ [Next]_vars => (TypeOK /\ Busy)'
    BY NextType, NextBusy
  <1> QED
    BY <1>1, <1>2, PTL DEF Spec

-----------------------------------------------------------------------------
\* The files whose name has been entered in seen_casefolded: those that are
\* done, and the one that is being read.
Met == (listed \ left) \cup (IF pc \in {"size", "read"} THEN {Current} ELSE {})

\* The first path of a folded form is the one seen; it is met, and the others
\* met are reported.
SeenOK ==
    /\ \A f \in Nodes : seen[f] # 0 => seen[f] \in Met /\ Fold[seen[f]] = f
    /\ \A n \in Met :
        /\ seen[Fold[n]] # 0 /\ seen[Fold[n]] <= n
        /\ seen[Fold[n]] = n \/ <<n, "collision">> \in findings

\* Files are met in the order of their paths.
OrderOK == \A m \in listed \ left, n \in left : m < n

ScanInv ==
    /\ TypeOK /\ Busy
    /\ pc = "list" => left = {} /\ \A f \in Nodes : seen[f] = 0
    /\ pc \notin {"list", "invalid"} => SeenOK /\ OrderOK
    /\ pc \in {"ok", "rejected"} => left = {}

\* A list that has just been made: nothing is met, nothing seen.
LEMMA ListedStarts ==
    ASSUME ScanInv, pc = "list", NEW paths \in SUBSET Nodes, Listed(paths)
    PROVE  /\ pc' \in {"scan", "invalid"}
           /\ pc' = "scan" => SeenOK' /\ OrderOK'
  <1>1. CASE Invalid
    BY <1>1 DEF Invalid
  <1>2. CASE pc' = "scan" /\ listed' = paths /\ left' = paths /\ UNCHANGED <<seen, findings>>
    <2>1. Met' = {} /\ listed' \ left' = {}
      BY <1>2 DEF Met
    <2> QED
      BY <1>2, <2>1 DEF SeenOK, OrderOK, ScanInv
  <1> QED
    BY <1>1, <1>2 DEF Listed

\* Reporting the file that is being read keeps the order and what is met.
LEMMA ReportKeeps ==
    ASSUME ScanInv, pc \in {"size", "read"},
           NEW found, Report(Current, found), UNCHANGED <<listed, seen>>
    PROVE  SeenOK' /\ OrderOK'
  <1>1. Current \in left /\ \A m \in left : Current <= m
    BY CurrentIsFirst DEF ScanInv, Busy, TypeOK
  <1>2. listed \subseteq Nodes /\ left \subseteq listed
    BY DEF ScanInv, TypeOK
  <1>3. Met' = Met
    BY <1>1, <1>2 DEF Met, Report
  <1>4. SeenOK'
    BY <1>3 DEF SeenOK, ScanInv, Report
  <1>5. OrderOK'
    <2> SUFFICES ASSUME NEW m \in listed \ (left \ {Current}), NEW n \in left \ {Current}
                 PROVE  m < n
      BY DEF OrderOK, Report
    <2>1. m \in Nat /\ n \in Nat /\ Current \in Nat
      BY <1>1, <1>2 DEF Nodes
    <2>2. CASE m = Current
      BY <1>1, <2>1, <2>2
    <2>3. CASE m # Current
      BY <2>3 DEF OrderOK, ScanInv
    <2> QED
      BY <2>2, <2>3
  <1> QED
    BY <1>4, <1>5

\* The collision check of the next file: it is met now, and if its form has been
\* seen it is reported.
LEMMA LookMeets ==
    ASSUME ScanInv, Look
    PROVE  SeenOK' /\ OrderOK'
  <1> DEFINE n == Current
             f == Fold[n]
  <1>1. n \in left /\ \A m \in left : n <= m
    BY CurrentIsFirst DEF ScanInv, TypeOK, Look
  <1>2. /\ listed \subseteq Nodes /\ left \subseteq listed /\ n \in Nodes
        /\ seen \in [Nodes -> 0..PathCount] /\ Fold \in [Nodes -> Nodes]
    BY <1>1, ScanAssumption DEF ScanInv, TypeOK
  <1>3. Met = listed \ left /\ SeenOK /\ OrderOK
    BY DEF ScanInv, Met, Look
  <1>4. /\ UNCHANGED listed
        /\ \/ left' = left \ {n} /\ pc' = "scan"
           \/ left' = left /\ pc' = "size"
        /\ findings \cup Collision(n) \subseteq findings'
        /\ seen' = IF seen[f] = 0 THEN [seen EXCEPT ![f] = n] ELSE seen
    BY DEF Look, Report, Collision, FoldedForm
  <1>5. Met' = Met \cup {n}
    <2>1. Met' = (listed \ left') \cup (IF pc' \in {"size", "read"} THEN {Current'} ELSE {})
      BY <1>4 DEF Met
    <2>2. left' = left => Current' = Current
      BY DEF Current
    <2> QED
      BY <1>1, <1>2, <1>3, <1>4, <2>1, <2>2
  <1>6. n \in Nat /\ n # 0 /\ f \in Nodes
    BY <1>2 DEF Nodes
  <1>7. seen[f] # 0 => seen[f] <= n /\ <<n, "collision">> \in findings'
    <2> SUFFICES ASSUME seen[f] # 0 PROVE seen[f] <= n /\ <<n, "collision">> \in findings'
      OBVIOUS
    <2>1. seen[f] \in listed \ left
      BY <1>3, <1>6 DEF SeenOK
    <2>2. seen[f] < n
      BY <1>1, <1>3, <2>1 DEF OrderOK
    <2>3. seen[f] \in Nat
      BY <1>2, <2>1 DEF Nodes
    <2>4. <<n, "collision">> \in findings'
      BY <1>4 DEF Collision, FoldedForm
    <2> QED
      BY <1>6, <2>2, <2>3, <2>4
  <1>8. SeenOK'
    <2>1. ASSUME NEW g \in Nodes, seen'[g] # 0
          PROVE  seen'[g] \in Met' /\ Fold[seen'[g]] = g
      <3>1. CASE seen[f] = 0 /\ g = f
        BY <3>1, <1>2, <1>4, <1>5, <1>6
      <3>2. CASE seen'[g] = seen[g]
        BY <3>2, <2>1, <1>3, <1>5 DEF SeenOK
      <3> QED
        BY <3>1, <3>2, <1>2, <1>4, <1>6
    <2>2. ASSUME NEW m \in Met'
          PROVE  /\ seen'[Fold[m]] # 0 /\ seen'[Fold[m]] <= m
                 /\ seen'[Fold[m]] = m \/ <<m, "collision">> \in findings'
      <3>1. CASE m = n /\ seen[f] = 0
        BY <3>1, <1>2, <1>4, <1>6
      <3>2. CASE m = n /\ seen[f] # 0
        BY <3>2, <1>4, <1>7
      <3>3. CASE m \in Met
        <4>1. /\ seen[Fold[m]] # 0 /\ seen[Fold[m]] <= m
              /\ seen[Fold[m]] = m \/ <<m, "collision">> \in findings
          BY <3>3, <1>3 DEF SeenOK
        <4>2. seen'[Fold[m]] = seen[Fold[m]]
          BY <4>1, <1>2, <1>4
        <4> QED
          BY <4>1, <4>2, <1>4
      <3> QED
        BY <2>2, <1>5, <3>1, <3>2, <3>3
    <2> QED
      BY <2>1, <2>2 DEF SeenOK
  <1>9. OrderOK'
    <2> SUFFICES ASSUME NEW m \in listed \ left', NEW k \in left' PROVE m < k
      BY <1>4 DEF OrderOK
    <2>1. CASE m = n /\ left' = left \ {n}
      <3>1. k \in Nat /\ k # n /\ n <= k
        BY <2>1, <1>1, <1>2 DEF Nodes
      <3> QED
        BY <2>1, <3>1, <1>6
    <2>2. CASE m \in listed \ left
      BY <2>2, <1>3, <1>4 DEF OrderOK
    <2> QED
      BY <2>1, <2>2, <1>4
  <1> QED
    BY <1>8, <1>9

LEMMA InitScanInv == Init => ScanInv
  BY InitType DEF Init, ScanInv, Busy

LEMMA NextScanInv == ScanInv /\ [Next]_vars => ScanInv'
  <1> SUFFICES ASSUME ScanInv, [Next]_vars PROVE ScanInv'
    OBVIOUS
  <1>0. TypeOK' /\ Busy'
    BY NextType, NextBusy DEF ScanInv
  <1>1. CASE ListTracked
    <2>1. CASE Invalid
      BY <1>0, <2>1 DEF Invalid, ScanInv
    <2>2. CASE Listed(index)
      <3>1. index \in SUBSET Nodes /\ pc = "list"
        BY <1>1 DEF ScanInv, TypeOK, ListTracked
      <3> QED
        BY <1>0, <2>2, <3>1, ListedStarts DEF ScanInv
    <2> QED
      BY <1>1, <2>1, <2>2 DEF ListTracked
  <1>2. CASE Enumerate
    BY <1>0, <1>2 DEF Enumerate, Invalid, ScanInv
  <1>3. CASE EndWalk
    <2>1. listed \in SUBSET Nodes /\ pc = "list" /\ Listed(listed)
      BY <1>3 DEF ScanInv, TypeOK, EndWalk
    <2> QED
      BY <1>0, <2>1, ListedStarts DEF ScanInv
  <1>4. CASE Look
    <2>1. pc' \in {"scan", "size"}
      BY <1>4 DEF Look, Report
    <2> QED
      BY <1>0, <1>4, <2>1, LookMeets DEF ScanInv
  <1>5. CASE Size
    <2>1. CASE \E reason \in Reasons : Report(Current, {<<Current, reason>>})
      <3>1. pc \in {"size", "read"} /\ UNCHANGED <<listed, seen>>
        BY <1>5 DEF Size
      <3>2. SeenOK' /\ OrderOK'
        BY <2>1, <3>1, ReportKeeps
      <3>3. pc' = "scan"
        BY <2>1 DEF Report
      <3> QED
        BY <1>0, <3>2, <3>3 DEF ScanInv
    <2>2. CASE pc' = "read" /\ UNCHANGED <<findings, left>>
      <3>1. UNCHANGED <<listed, seen>> /\ pc = "size"
        BY <1>5 DEF Size
      <3>2. Met' = Met
        BY <2>2, <3>1 DEF Met, Current
      <3> QED
        BY <1>0, <2>2, <3>1, <3>2 DEF ScanInv, SeenOK, OrderOK
    <2> QED
      BY <1>5, <2>1, <2>2 DEF Size, Reasons
  <1>6. CASE Read
    <2>1. PICK found : Report(Current, found)
      BY <1>6 DEF Read
    <2>2. pc \in {"size", "read"} /\ UNCHANGED <<listed, seen>>
      BY <1>6 DEF Read
    <2>3. SeenOK' /\ OrderOK'
      BY <2>1, <2>2, ReportKeeps
    <2>4. pc' = "scan"
      BY <2>1 DEF Report
    <2> QED
      BY <1>0, <2>3, <2>4 DEF ScanInv
  <1>7. CASE Finish
    <2>1. /\ pc = "scan" /\ left = {} /\ pc' \in {"ok", "rejected"}
          /\ UNCHANGED <<listed, left, seen, findings>>
      BY <1>7 DEF Finish
    <2>2. Met' = Met
      BY <2>1 DEF Met
    <2> QED
      BY <1>0, <2>1, <2>2 DEF ScanInv, SeenOK, OrderOK
  <1>8. CASE UNCHANGED <<pc, listed, left, seen, findings>>
    <2>1. Met' = Met
      BY <1>8 DEF Met, Current
    <2> QED
      BY <1>0, <1>8, <2>1 DEF ScanInv, SeenOK, OrderOK
  <1>9. ASSUME NEW n \in Nodes, NEW item \in Items, Edit(n, item)
        PROVE  UNCHANGED <<pc, listed, left, seen, findings>>
    BY <1>9 DEF Edit
  <1> QED
    BY <1>1, <1>2, <1>3, <1>4, <1>5, <1>6, <1>7, <1>8, <1>9 DEF Next, Scan, vars

\* Of the paths that differ in case only, every one but the first is reported,
\* however many there are and whatever is edited meanwhile (CollisionsReported).
THEOREM CollisionsReportedHolds == Spec => []CollisionsReported
  <1>1. ScanInv => CollisionsReported
    <2> SUFFICES ASSUME ScanInv, pc \in {"ok", "rejected"},
                        NEW m \in listed, NEW n \in listed, m < n, Fold[m] = Fold[n]
                 PROVE  <<n, "collision">> \in findings
      BY DEF CollisionsReported
    <2>1. m \in Met /\ n \in Met
      BY DEF ScanInv, Met
    <2>2. /\ seen[Fold[m]] # 0 /\ seen[Fold[m]] <= m
          /\ seen[Fold[n]] = n \/ <<n, "collision">> \in findings
      BY <2>1 DEF ScanInv, SeenOK
    <2>3. m \in Nat /\ n \in Nat
      BY DEF ScanInv, TypeOK, Nodes
    <2> QED
      BY <2>2, <2>3
  <1> QED
    BY <1>1, InitScanInv, NextScanInv, PTL DEF Spec

-----------------------------------------------------------------------------
(* The way from the root to a path *)

\* A path's ancestors have its directory, are closed, reach the root, and each
\* of them is the directory of the path or of another ancestor.
LEMMA AncestorsWay ==
    ASSUME NEW n \in Nodes
    PROVE  /\ Ancestors[n] \subseteq 0..PathCount
           /\ Parent[n] \in Ancestors[n]
           /\ \A d \in Ancestors[n] \cap Nodes : Parent[d] \in Ancestors[n]
           /\ 0 \in Ancestors[n]
           /\ \A d \in Ancestors[n] : d = Parent[n] \/ \E e \in Ancestors[n] \cap Nodes : Parent[e] = d
  <1> DEFINE Upward == {S \in SUBSET (0..PathCount) : \A d \in S \cap Nodes : Parent[d] \in S}
             A == Ancestors[n]
  <1>1. n \in 0..PathCount /\ n # 0 /\ Parent[n] \in 0..PathCount
    BY ScanAssumption DEF Nodes
  <1>2. A = {d \in 0..PathCount : \A S \in Upward : Parent[n] \in S => d \in S}
    BY <1>1 DEF Ancestors
  <1>3. A \subseteq 0..PathCount /\ Parent[n] \in A
    BY <1>1, <1>2
  <1>4. ASSUME NEW d \in A \cap Nodes PROVE Parent[d] \in A
    <2>1. Parent[d] \in 0..PathCount
      BY ScanAssumption
    <2>2. ASSUME NEW S \in Upward, Parent[n] \in S PROVE Parent[d] \in S
      BY <1>2, <1>4, <2>2
    <2> HIDE DEF A, Upward
    <2> QED
      BY <1>2, <2>1, <2>2
  <1>5. 0 \in A
    <2>1. A \subseteq Nat /\ A # {}
      BY <1>3
    <2>2. PICK d \in A : \A m \in A : d <= m
      <3> HIDE DEF A
      <3> QED  BY <2>1, HasLeast
    <2>3. ASSUME d # 0 PROVE FALSE
      <3>1. d \in Nodes
        <4>1. d \in 0..PathCount
          <5> HIDE DEF A
          <5> QED  BY <1>3, <2>2
        <4> QED
          BY <2>3, <4>1, ScanAssumption DEF Nodes
      <3>2. Parent[d] \in A /\ Parent[d] < d /\ Parent[d] \in Nat /\ d \in Nat
        <4>1. Parent[d] \in A
          <5> HIDE DEF A
          <5> QED  BY <1>4, <2>2, <3>1
        <4> QED
          BY <3>1, <4>1, ScanAssumption DEF Nodes
      <3> HIDE DEF A
      <3> QED
        BY <2>2, <3>2
    <2> QED
      BY <2>2, <2>3
  <1>6. ASSUME NEW d \in A, d # Parent[n], \A e \in A \cap Nodes : Parent[e] # d
        PROVE  FALSE
    <2>1. A \ {d} \in Upward /\ Parent[n] \in A \ {d}
      <3> HIDE DEF A
      <3> QED  BY <1>3, <1>4, <1>6
    <2> HIDE DEF Upward
    <2> QED
      BY <1>2, <1>6, <2>1
  <1> HIDE DEF A
  <1> QED
    BY <1>3, <1>4, <1>5, <1>6 DEF A

-----------------------------------------------------------------------------
(* Files that are left alone *)

Reported(n) == \E reason \in Reasons : <<n, reason>> \in findings

\* Nobody has changed the path or a directory on its way.
LeftAlone(n) == (Ancestors[n] \cup {n}) \cap touched = {}

\* While it is not listed the walk is still to come by; once listed it is
\* reported if it should be, and nothing that a look has let pass was wrong.
Followed(n) ==
    /\ pc = "list" /\ ~tracked => n \in listed \/ Ancestors[n] \cap pending # {}
    /\ pc \notin {"list", "invalid"} =>
        /\ n \in listed
        /\ n \notin left /\ Wrong(n) => Reported(n)
        /\ pc = "read" /\ n = Current => ~tree[n].content.large

StableInv == \A n \in Nodes : LeftAlone(n) /\ Source(n) => Followed(n)

LEMMA InitStableInv == Init => StableInv
  <1> SUFFICES ASSUME Init, NEW n \in Nodes PROVE Followed(n)
    BY DEF StableInv
  <1>1. 0 \in Ancestors[n] \cap pending
    BY AncestorsWay DEF Init
  <1> QED
    BY <1>1 DEF Followed, Init

\* What is at a path that is left alone, and on its way, stays.
LEMMA EditElsewhere ==
    ASSUME ScanInv, StableInv, NEW m \in Nodes, NEW item \in Items, Edit(m, item)
    PROVE  StableInv'
  <1> SUFFICES ASSUME NEW n \in Nodes, LeftAlone(n)', Source(n)' PROVE Followed(n)'
    BY DEF StableInv
  <1>1. /\ tree' = [tree EXCEPT ![m] = item] /\ touched' = touched \cup {m}
        /\ UNCHANGED <<tracked, atTop, index, pc, pending, directories, listed, left, seen, findings>>
    BY DEF Edit
  <1>2. LeftAlone(n) /\ m # n /\ m \notin Ancestors[n]
    BY <1>1 DEF LeftAlone
  <1>3. tree'[n] = tree[n] /\ \A d \in Ancestors[n] \cap Nodes : tree'[d] = tree[d]
    BY <1>1, <1>2 DEF ScanInv, TypeOK
  <1>4. Reached(n)' <=> Reached(n)
    <2>1. Ancestors[n] \subseteq 0..PathCount
      BY AncestorsWay
    <2>2. \A d \in Ancestors[n] : d \in Directories' <=> d \in Directories
      BY <1>3, <2>1 DEF Directories
    <2> QED
      BY <2>2 DEF Reached
  <1>5. (Source(n)' <=> Source(n)) /\ (Wrong(n)' <=> Wrong(n))
    BY <1>1, <1>3, <1>4 DEF Source, Present, Wrong, IsRegular
  <1>6. Followed(n)
    BY <1>2, <1>5 DEF StableInv
  <1> QED
    BY <1>1, <1>3, <1>5, <1>6 DEF Followed, Reported, Current

\* A turn of the walk lists a file of the directory, or goes on to the next
\* directory on the way to it.
LEMMA EnumerateFollows ==
    ASSUME ScanInv, StableInv, Enumerate
    PROVE  StableInv'
  <1> SUFFICES ASSUME NEW n \in Nodes, LeftAlone(n), Source(n), pc' = "list" PROVE Followed(n)'
    BY DEF StableInv, Enumerate, environment, LeftAlone, Source, Present, Reached, Directories,
           Invalid, Followed
  <1> DEFINE entries == Entries(Top)
  <1>1. /\ pending' = (pending \ {Top}) \cup ToDescend(entries)
        /\ listed' = listed \cup ToList(entries)
    BY DEF Enumerate, Invalid
  <1>2. ~tracked /\ pc = "list" /\ Followed(n)
    BY DEF Enumerate, StableInv
  <1>3. Ancestors[n] \subseteq Directories /\ Ancestors[n] \cap Excluded = {}
    BY <1>2 DEF Source, Present, Reached
  <1>4. n \in listed' \/ Ancestors[n] \cap pending' # {}
    <2>1. CASE n \in listed
      BY <1>1, <2>1
    <2>2. CASE Top \in Ancestors[n] /\ Top = Parent[n]
      <3>1. n \in ToList(entries)
        BY <1>2, <2>2 DEF Source, Entries, ToList
      <3> QED
        BY <1>1, <3>1
    <2>3. CASE Top \in Ancestors[n] /\ Top # Parent[n]
      <3>1. PICK e \in Ancestors[n] \cap Nodes : Parent[e] = Top
        BY <2>3, AncestorsWay
      <3>2. e \in Nodes /\ e # 0 /\ tree[e].kind = "dir"
        BY <1>3, <3>1 DEF Directories, Nodes
      <3>3. e \in ToDescend(entries)
        BY <1>3, <3>1, <3>2 DEF Entries, ToDescend
      <3> QED
        BY <1>1, <3>1, <3>3
    <2>4. CASE \E d \in Ancestors[n] \cap pending : d # Top
      BY <1>1, <2>4
    <2> HIDE DEF entries
    <2> QED
      BY <1>2, <2>1, <2>2, <2>3, <2>4 DEF Followed
  <1> QED
    BY <1>2, <1>4 DEF Followed, Enumerate, Invalid

\* A list is made of the files git tracks, or when the walk has nothing left.
LEMMA ListFollows ==
    ASSUME ScanInv, StableInv, ListTracked \/ EndWalk
    PROVE  StableInv'
  <1> SUFFICES ASSUME NEW n \in Nodes, LeftAlone(n), Source(n), pc' # "invalid"
               PROVE  Followed(n)'
    BY DEF StableInv, ListTracked, EndWalk, environment, LeftAlone, Source, Present, Reached,
           Directories, Invalid, Listed, Followed
  <1>1. CASE ListTracked
    <2>1. pc' = "scan" /\ listed' = index /\ left' = index /\ n \in index
      BY <1>1 DEF ListTracked, Listed, Invalid, Source
    <2> QED
      BY <2>1 DEF Followed
  <1>2. CASE EndWalk
    <2>1. pc' = "scan" /\ listed' = listed /\ left' = listed
      BY <1>2 DEF EndWalk, Listed, Invalid
    <2>2. n \in listed
      BY <1>2 DEF EndWalk, StableInv, Followed
    <2> QED
      BY <2>1, <2>2 DEF Followed
  <1> QED
    BY <1>1, <1>2

\* A step that looks at the present file: the others are as they were.
LEMMA LookFollows ==
    ASSUME ScanInv, StableInv, Look \/ Size \/ Read
    PROVE  StableInv'
  <1>1. UNCHANGED <<tree, tracked, atTop, index, touched, listed>> /\ findings \subseteq findings'
    BY DEF Look, Size, Read, environment, Report
  <1> SUFFICES ASSUME NEW n \in Nodes, LeftAlone(n), Source(n) PROVE Followed(n)'
    BY <1>1 DEF StableInv, LeftAlone, Source, Present, Reached, Directories
  <1>2. Followed(n) /\ n \in listed /\ pc \in {"scan", "size", "read"}
    BY DEF StableInv, Followed, Look, Size, Read
  <1>3. left # {} /\ Current \in left
    BY CurrentIsFirst DEF ScanInv, Busy, TypeOK, Look, Size, Read
  <1>4. /\ pc' \in {"scan", "size", "read"}
        /\ left' \in {left, left \ {Current}}
        /\ pc' # "scan" => left' = left
    BY DEF Look, Size, Read, Report
  <1>5. Reported(n) => Reported(n)'
    BY <1>1 DEF Reported
  <1>6. Wrong(n)' <=> Wrong(n)
    BY <1>1 DEF Wrong, IsRegular, Present, Reached, Directories
  <1>7. pc' = "read" /\ n = Current' => ~tree'[n].content.large
    <2> SUFFICES ASSUME pc' = "read", n = Current' PROVE ~tree[n].content.large
      BY <1>1
    <2>1. left' = left /\ Size
      BY <1>4 DEF Look, Size, Read, Report
    <2>2. Current' = Current
      BY <2>1 DEF Current
    <2> QED
      BY <2>1, <2>2 DEF Size, Report
  <1>8. CASE n # Current \/ left' = left
    <2>1. n \in left' \/ n \notin left
      BY <1>4, <1>8
    <2> QED
      BY <1>1, <1>2, <1>4, <1>5, <1>6, <1>7, <2>1 DEF Followed
  <1>9. CASE n = Current /\ left' # left
    <2>1. Wrong(n) => Reported(n)'
      <3>1. ASSUME NEW reason \in Reasons, NEW found, Report(Current, found),
                   <<Current, reason>> \in found
            PROVE  Reported(n)'
        BY <1>9, <3>1 DEF Report, Reported
      <3>2. CASE Look
        BY <1>9, <3>1, <3>2 DEF Look, Reasons
      <3>3. CASE Size
        BY <1>9, <3>1, <3>3 DEF Size, Reasons
      <3>4. CASE Read
        <4>1. CASE IsRegular(n) /\ Wrong(n)
          <5>1. Judged(tree[n].content)
            BY <1>2, <1>9, <3>4, <4>1 DEF Wrong, Followed, Read
          <5> QED
            BY <1>9, <3>1, <3>4, <4>1, <5>1 DEF Read, Reasons
        <4>2. CASE ~IsRegular(n)
          BY <1>9, <3>1, <3>4, <4>2 DEF Read, Reasons
        <4> QED
          BY <4>1, <4>2
      <3> QED
        BY <3>2, <3>3, <3>4
    <2> QED
      BY <1>1, <1>2, <1>4, <1>6, <1>7, <2>1 DEF Followed
  <1> QED
    BY <1>8, <1>9

LEMMA NextStableInv == ScanInv /\ StableInv /\ [Next]_vars => StableInv'
  <1> SUFFICES ASSUME ScanInv, StableInv, [Next]_vars PROVE StableInv'
    OBVIOUS
  <1>1. CASE UNCHANGED <<tree, tracked, atTop, index, touched, pending, listed, left, findings>>
             /\ pc' \notin {"list", "read"} /\ pc \notin {"list", "invalid"}
    BY <1>1 DEF StableInv, LeftAlone, Source, Present, Reached, Directories, Followed, Reported,
                Wrong, IsRegular
  <1>2. CASE Finish
    BY <1>1, <1>2 DEF Finish, environment
  <1>3. CASE UNCHANGED vars
    BY <1>3 DEF vars, StableInv, LeftAlone, Source, Present, Reached, Directories, Followed,
                Reported, Wrong, IsRegular, Current
  <1> QED
    BY <1>2, <1>3, EnumerateFollows, ListFollows, LookFollows, EditElsewhere DEF Next, Scan

\* A source file that is left alone does not escape, whatever else is edited:
\* the walk comes by, the list keeps it, and each look sees it as it is.
THEOREM StableFlawReportedHolds == Spec => []StableFlawReported
  <1>1. ScanInv /\ StableInv => StableFlawReported
    BY DEF StableFlawReported, StableInv, LeftAlone, Followed, ScanInv, Reported
  <1> QED
    BY <1>1, InitScanInv, NextScanInv, InitStableInv, NextStableInv, PTL DEF Spec

-----------------------------------------------------------------------------
(* The walk, when nothing changes *)

LEMMA HasGreatest ==
    ASSUME NEW N \in Nat, NEW S \in SUBSET (0..N), S # {}
    PROVE  \E n \in S : \A m \in S : m <= n
  <1> DEFINE D == {N - x : x \in S}
  <1>1. D \subseteq Nat /\ D # {}
    <2>1. ASSUME NEW x \in S PROVE N - x \in Nat
      OBVIOUS
    <2>2. PICK x \in S : TRUE
      OBVIOUS
    <2>3. N - x \in D
      BY <2>2
    <2> QED  BY <2>1, <2>3
  <1>2. PICK d \in D : \A e \in D : d <= e
    <2> HIDE DEF D
    <2> QED  BY <1>1, HasLeast
  <1>3. PICK n \in S : d = N - n
    BY <1>2
  <1>4. ASSUME NEW m \in S PROVE m <= n
    <2>1. d <= N - m
      BY <1>2
    <2> QED  BY <1>3, <2>1
  <1> QED  BY <1>4

LEMMA TopPending ==
    ASSUME TypeOK, pending # {}
    PROVE  Top \in pending
  BY HasGreatest, ScanAssumption DEF TypeOK, Top

\* The ancestors of a path are its directory and the ancestors of that, and come
\* before it; the root has none.
LEMMA AncestorsStep ==
    /\ Ancestors[0] = {}
    /\ \A n \in Nodes : /\ Ancestors[n] = {Parent[n]} \cup Ancestors[Parent[n]]
                        /\ \A d \in Ancestors[n] : d < n
  <1> DEFINE Upward == {S \in SUBSET (0..PathCount) : \A d \in S \cap Nodes : Parent[d] \in S}
             A == Ancestors
  <1>1. A[0] = {}
    BY ScanAssumption DEF Ancestors
  <1>2. ASSUME NEW n \in Nodes
        PROVE  A[n] = {d \in 0..PathCount : \A S \in Upward : Parent[n] \in S => d \in S}
    <2>1. n \in 0..PathCount /\ n # 0
      BY ScanAssumption DEF Nodes
    <2> HIDE DEF Upward
    <2>2. A = [x \in 0..PathCount |->
                  {d \in 0..PathCount : x # 0 /\ \A S \in Upward : Parent[x] \in S => d \in S}]
      BY DEF Ancestors, Upward
    <2> HIDE DEF A
    <2> QED  BY <2>1, <2>2
  <1>3. ASSUME NEW n \in Nodes PROVE A[n] \in Upward /\ Parent[n] \in A[n] /\ A[n] \subseteq 0..PathCount
    BY AncestorsWay
  <1> HIDE DEF A
  <1>4. ASSUME NEW n \in Nodes PROVE A[n] = {Parent[n]} \cup A[Parent[n]]
    <2> DEFINE p == Parent[n]
    <2>0. p \in 0..PathCount /\ (p = 0 \/ p \in Nodes)
      BY ScanAssumption DEF Nodes
    <2>1. A[p] \subseteq A[n]
      <3>1. CASE p = 0
        BY <1>1, <3>1
      <3>2. CASE p \in Nodes
        <4>1. A[n] \in Upward /\ Parent[p] \in A[n]
          BY <1>3, <3>2
        <4> HIDE DEF Upward
        <4> QED
          BY <1>2, <3>2, <4>1
      <3> QED  BY <2>0, <3>1, <3>2
    <2>2. {p} \cup A[p] \in Upward
      <3>1. CASE p = 0
        <4>1. \A d \in {p} \cup A[p] : d = 0
          BY <1>1, <3>1
        <4>2. 0 \in 0..PathCount /\ 0 \notin Nodes
          BY ScanAssumption DEF Nodes
        <4>3. \A d \in ({p} \cup A[p]) \cap Nodes : Parent[d] \in {p} \cup A[p]
          BY <4>1, <4>2
        <4>4. {p} \cup A[p] \subseteq 0..PathCount
          BY <4>1, <4>2
        <4> QED  BY <4>3, <4>4
      <3>2. CASE p \in Nodes
        BY <1>3, <2>0, <3>2
      <3> QED  BY <2>0, <3>1, <3>2
    <2>3. A[n] \subseteq {p} \cup A[p]
      <3> HIDE DEF Upward
      <3> QED  BY <1>2, <2>2
    <2> QED
      BY <1>3, <2>1, <2>3
  <1>5. ASSUME NEW n \in Nodes PROVE \A d \in A[n] : d < n
    <2> DEFINE S == {d \in 0..PathCount : d < n}
    <2>1. Parent[n] \in S
      BY ScanAssumption
    <2>2. ASSUME NEW d \in S \cap Nodes PROVE Parent[d] \in S
      BY ScanAssumption DEF Nodes
    <2>3. S \in Upward
      BY <2>2
    <2> HIDE DEF Upward, S
    <2>4. A[n] \subseteq S
      BY <1>2, <2>1, <2>3
    <2> QED
      BY <2>4 DEF S
  <1> QED
    BY <1>1, <1>4, <1>5 DEF A

\* The directories a walk has done: no directory on the way is still pending.
Visited == {d \in Walked : (Ancestors[d] \cup {d}) \cap pending = {}}

WalkInv ==
    quiet /\ ~tracked /\ pc = "list" =>
        /\ pending \subseteq Walked
        /\ \A d \in pending : Ancestors[d] \cap pending = {}
        /\ directories = Cardinality(Visited)
        /\ listed = {n \in Nodes : Parent[n] \in Visited /\ tree[n].kind \in {"file", "symlink"}}
        /\ \A d \in Visited : Cardinality(Entries(d)) <= MaxFiles /\ Entries(d) \cap Unsafe = {}

LEMMA WalkedFinite ==
    /\ Walked \subseteq 0..PathCount /\ IsFiniteSet(Walked)
    /\ Visited \subseteq Walked /\ IsFiniteSet(Visited)
  <1>1. Walked \subseteq 0..PathCount
    BY ScanAssumption DEF Walked, Directories, Nodes
  <1>2. IsFiniteSet(0..PathCount)
    BY FS_Interval, ScanAssumption
  <1>3. Visited \subseteq Walked
    BY DEF Visited
  <1> QED
    BY <1>1, <1>2, <1>3, FS_Subset

\* The root is walked; so is a directory below a walked one, unless excluded.
LEMMA WalkedWay ==
    /\ 0 \in Walked
    /\ \A n \in Nodes : n \in Walked <=>
          Parent[n] \in Walked /\ tree[n].kind = "dir" /\ n \notin Excluded
  <1>1. 0 \in Walked
    BY AncestorsStep, ScanAssumption DEF Walked, Directories, Reached, Nodes
  <1>2. ASSUME NEW n \in Nodes
        PROVE  n \in Walked <=> Parent[n] \in Walked /\ tree[n].kind = "dir" /\ n \notin Excluded
    <2>1. Ancestors[n] = {Parent[n]} \cup Ancestors[Parent[n]]
      BY AncestorsStep
    <2>2. n # 0
      BY DEF Nodes
    <2> QED
      BY <2>1, <2>2 DEF Walked, Directories, Reached
  <1> QED
    BY <1>1, <1>2

\* A file is a source when its directory is walked.
LEMMA SourceWay ==
    ASSUME ~tracked, NEW n \in Nodes
    PROVE  Source(n) <=> Parent[n] \in Walked /\ tree[n].kind \in {"file", "symlink"}
  <1>1. Ancestors[n] = {Parent[n]} \cup Ancestors[Parent[n]]
    BY AncestorsStep
  <1> QED
    BY <1>1 DEF Source, Present, Reached, Walked

LEMMA InitWalkInv == Init => WalkInv
  <1> SUFFICES ASSUME Init PROVE WalkInv
    OBVIOUS
  <1>1. pending = {0} /\ listed = {} /\ directories = 0
    BY DEF Init
  <1>2. Visited = {}
    <2>1. ASSUME NEW d \in Walked PROVE 0 \in Ancestors[d] \cup {d}
      <3>1. d = 0 \/ d \in Nodes
        BY WalkedFinite, ScanAssumption DEF Nodes
      <3> QED
        BY <3>1, AncestorsWay
    <2>2. ASSUME NEW d \in Visited PROVE FALSE
      <3>1. d \in Walked /\ (Ancestors[d] \cup {d}) \cap {0} = {}
        BY <1>1, <2>2 DEF Visited
      <3> QED  BY <2>1, <3>1
    <2> QED
      BY <2>2
  <1>3. Cardinality(Visited) = 0
    BY <1>2, FS_EmptySet
  <1>4. Ancestors[0] = {} /\ 0 \in Walked
    BY AncestorsStep, WalkedWay
  <1> QED
    BY <1>1, <1>2, <1>3, <1>4 DEF WalkInv

\* A turn of the walk that is not refused.
LEMMA TurnWalks ==
    ASSUME TypeOK, WalkInv, quiet, Enumerate, pc' = "list"
    PROVE  WalkInv'
  <1> DEFINE T == Top
             C == ToDescend(Entries(T))
             Way(d) == Ancestors[d] \cup {d}
  <1>1. /\ pending' = (pending \ {T}) \cup C /\ directories' = directories + 1
        /\ listed' = listed \cup ToList(Entries(T))
        /\ Cardinality(Entries(T)) <= MaxFiles /\ Entries(T) \cap Unsafe = {}
        /\ UNCHANGED <<tree, tracked, atTop, index, quiet>> /\ ~tracked /\ pending # {}
    <2>1. Cardinality(Entries(T)) \in Nat
      <3>1. Entries(T) \subseteq Nodes /\ IsFiniteSet(Nodes)
        BY FS_Interval, ScanAssumption DEF Entries, Nodes
      <3> QED  BY <3>1, FS_Subset, FS_CardinalityType
    <2> QED
      BY <2>1, ScanAssumption DEF Enumerate, Invalid, environment
  <1>2. /\ pending \subseteq Walked
        /\ \A d \in pending : Ancestors[d] \cap pending = {}
        /\ directories = Cardinality(Visited)
        /\ listed = {n \in Nodes : Parent[n] \in Visited /\ tree[n].kind \in {"file", "symlink"}}
        /\ \A d \in Visited : Cardinality(Entries(d)) <= MaxFiles /\ Entries(d) \cap Unsafe = {}
    BY <1>1 DEF WalkInv, Enumerate
  <1>3. T \in pending /\ T \in Walked /\ T \in 0..PathCount
    BY <1>1, <1>2, TopPending, WalkedFinite
  <1>4. ASSUME NEW e \in C
        PROVE  /\ e \in Nodes /\ e \notin Excluded /\ tree[e].kind = "dir"
               /\ Parent[e] = T /\ T < e /\ e \in Walked
               /\ Ancestors[e] = {T} \cup Ancestors[T]
    BY <1>3, WalkedWay, AncestorsStep, ScanAssumption DEF ToDescend, Entries
  <1>5. ASSUME NEW d \in Ancestors[T] PROVE d < T
    <2>1. T # 0
      BY <1>5, AncestorsStep
    <2>2. T \in Nodes
      BY <1>3, <2>1, ScanAssumption DEF Nodes
    <2> QED  BY <1>5, <2>2, AncestorsStep
  <1>6. ASSUME NEW d \in 0..PathCount, NEW e \in C, e \in Way(d) PROVE T \in Ancestors[d]
    <2>1. CASE e = d
      BY <1>4, <2>1
    <2>2. CASE e \in Ancestors[d]
      <3>1. d \in Nodes
        BY <2>2, AncestorsStep, ScanAssumption DEF Nodes
      <3> QED
        BY <1>4, <2>2, <3>1, AncestorsWay
    <2> QED  BY <1>6, <2>1, <2>2
  <1>7. ASSUME NEW d \in Walked, T \in Ancestors[d] PROVE \E e \in C : e \in Way(d)
    <2>1. d \in Nodes
      BY <1>7, AncestorsStep, WalkedFinite, ScanAssumption DEF Nodes
    <2>2. PICK e \in Way(d) \cap Nodes : Parent[e] = T
      BY <1>7, <2>1, AncestorsWay
    <2>3. tree[e].kind = "dir" /\ e \notin Excluded
      BY <2>2, <1>7 DEF Walked, Directories, Reached, Nodes
    <2> QED
      BY <2>2, <2>3 DEF ToDescend, Entries
  <1> HIDE DEF T, C
  <1>8. Walked' = Walked
    BY <1>1 DEF Walked, Directories, Reached
  <1>9. Visited' = Visited \cup {T} /\ T \notin Visited
    <2>1. T \in Visited'
      <3>1. ASSUME NEW e \in C, e \in Way(T) PROVE FALSE
        <4>1. T < e
          BY <1>4
        <4>2. e # T
          BY <1>3, <4>1
        <4>3. e < T
          BY <1>5, <3>1, <4>2
        <4>4. e \in Nat /\ T \in Nat
          BY <1>3, <1>4 DEF Nodes
        <4> QED
          BY <4>1, <4>3, <4>4
      <3>2. Way(T) \cap pending' = {}
        BY <1>1, <1>2, <1>3, <3>1
      <3>3. T \in Walked' /\ Way(T) \cap pending' = {}
        BY <1>3, <1>8, <3>2
      <3> QED
        BY <3>3 DEF Visited
    <2>2. ASSUME NEW d \in Visited PROVE d \in Visited'
      <3>1. d \in 0..PathCount /\ d \in Walked
        BY WalkedFinite
      <3>2. T \notin Ancestors[d]
        BY <1>3, <2>2 DEF Visited
      <3> QED
        BY <1>1, <1>6, <1>8, <2>2, <3>1, <3>2 DEF Visited
    <2>3. ASSUME NEW d \in Visited', d # T PROVE d \in Visited
      <3>1. d \in Walked /\ Way(d) \cap pending' = {}
        BY <1>8, <2>3 DEF Visited
      <3>2. T \notin Way(d)
        BY <1>1, <1>7, <2>3, <3>1
      <3> QED
        BY <1>1, <3>1, <3>2 DEF Visited
    <2>4. T \notin Visited
      BY <1>3 DEF Visited
    <2> QED
      BY <2>1, <2>2, <2>3, <2>4
  <1>10. directories' = Cardinality(Visited')
    BY <1>1, <1>2, <1>9, WalkedFinite, FS_AddElement
  <1>11. pending' \subseteq Walked'
    BY <1>1, <1>2, <1>4, <1>8
  <1>12. ASSUME NEW x \in pending', NEW y \in Ancestors[x], y \in pending' PROVE FALSE
    <2>0. x \in 0..PathCount
      BY <1>8, <1>11, WalkedFinite
    <2>1. CASE x \in pending \ {T}
      <3>1. y \notin pending
        BY <1>2, <1>12, <2>1
      <3>2. y \in C
        BY <1>1, <1>12, <3>1
      <3> QED
        BY <1>2, <1>3, <1>6, <1>12, <2>0, <2>1, <3>2
    <2>2. CASE x \in C
      <3>1. y \in {T} \cup Ancestors[T]
        BY <1>4, <1>12, <2>2
      <3>2. y \notin C
        BY <1>3, <1>4, <1>5, <3>1
      <3> QED
        BY <1>1, <1>2, <1>3, <1>12, <3>1, <3>2
    <2> QED  BY <1>1, <2>1, <2>2
  <1>13. listed' = {n \in Nodes : Parent[n] \in Visited' /\ tree'[n].kind \in {"file", "symlink"}}
    BY <1>1, <1>2, <1>9 DEF ToList, Entries
  <1>14. \A d \in Visited' : Cardinality(Entries(d)') <= MaxFiles /\ Entries(d)' \cap Unsafe = {}
    BY <1>1, <1>2, <1>9 DEF Entries
  <1> QED
    BY <1>10, <1>11, <1>12, <1>13, <1>14 DEF WalkInv

\* A walk that finds too much in a directory, or a name it may not, is right to
\* stop.
LEMMA EntriesOverLimit ==
    ASSUME ~tracked, NEW d \in Walked,
           Cardinality(Entries(d)) > MaxFiles \/ Entries(d) \cap Unsafe # {}
    PROVE  OverLimit
  <1> DEFINE met == {n \in Nodes : Parent[n] \in Walked /\ tree[n].kind # "none"}
  <1>1. {n \in met : Parent[n] = d} = Entries(d)
    BY DEF Entries
  <1>2. CASE Cardinality(Entries(d)) > MaxFiles
    <2>1. \E e \in Walked : Cardinality({n \in met : Parent[n] = e}) > MaxFiles
      BY <1>1, <1>2
    <2> QED
      BY <2>1 DEF OverLimit
  <1>3. CASE Entries(d) \cap Unsafe # {}
    <2>1. met \cap Unsafe # {}
      BY <1>1, <1>3
    <2> QED
      BY <2>1 DEF OverLimit
  <1> QED
    BY <1>2, <1>3

\* A turn of the walk is refused for a limit only.
LEMMA TurnRefused ==
    ASSUME TypeOK, WalkInv, quiet, Enumerate, pc' = "invalid"
    PROVE  OverLimit
  <1>1. /\ pc = "list" /\ ~tracked /\ pending # {}
        /\ pending \subseteq Walked /\ directories = Cardinality(Visited)
        /\ \A d \in Visited : Cardinality(Entries(d)) <= MaxFiles /\ Entries(d) \cap Unsafe = {}
    BY DEF Enumerate, WalkInv
  <1>2. Top \in pending /\ Top \in Walked
    BY <1>1, TopPending
  <1>3. \/ ~DirectoryLeft
        \/ Cardinality(Entries(Top)) > MaxFiles
        \/ Entries(Top) \cap Unsafe # {}
    BY <1>1, <1>2 DEF Enumerate, Walked
  <1>4. CASE ~DirectoryLeft
    <2>1. Visited \cup {Top} \subseteq Walked /\ Top \notin Visited
      BY <1>2, WalkedFinite DEF Visited
    <2>2. Cardinality(Visited \cup {Top}) = directories + 1
      BY <1>1, <2>1, WalkedFinite, FS_AddElement
    <2>3. Cardinality(Visited \cup {Top}) <= Cardinality(Walked)
      BY <2>1, WalkedFinite, FS_Subset
    <2>4. Cardinality(Walked) \in Nat
      BY WalkedFinite, FS_CardinalityType
    <2>5. Cardinality(Walked) > MaxDirectories
      BY <1>4, <2>2, <2>3, <2>4, ScanAssumption DEF DirectoryLeft, TypeOK
    <2> QED
      BY <1>1, <2>5 DEF OverLimit
  <1> QED
    BY <1>1, <1>2, <1>3, <1>4, EntriesOverLimit

\* A walk that has come to its end has listed the sources, and it is refused
\* exactly when they are too many.
LEMMA WalkExact ==
    ASSUME TypeOK, WalkInv, quiet, EndWalk
    PROVE  /\ listed = {n \in Nodes : Source(n)}
           /\ OverLimit <=> Cardinality(listed) > MaxFiles
  <1>1. /\ ~tracked /\ pending = {}
        /\ directories = Cardinality(Visited)
        /\ listed = {n \in Nodes : Parent[n] \in Visited /\ tree[n].kind \in {"file", "symlink"}}
        /\ \A d \in Visited : Cardinality(Entries(d)) <= MaxFiles /\ Entries(d) \cap Unsafe = {}
    BY DEF WalkInv, EndWalk
  <1>2. Visited = Walked
    BY <1>1 DEF Visited
  <1>3. listed = {n \in Nodes : Source(n)}
    BY <1>1, <1>2, SourceWay
  <1> DEFINE met == {n \in Nodes : Parent[n] \in Walked /\ tree[n].kind # "none"}
  <1>4. ~(Cardinality(Walked) > MaxDirectories)
    BY <1>1, <1>2, ScanAssumption DEF TypeOK
  <1>5. met \cap Unsafe = {}
    <2>1. ASSUME NEW n \in met PROVE n \notin Unsafe
      <3>1. Parent[n] \in Walked /\ n \in Entries(Parent[n])
        BY DEF Entries
      <3> QED
        BY <1>1, <1>2, <3>1
    <2> QED
      BY <2>1
  <1>6. ASSUME NEW d \in Walked PROVE ~(Cardinality({n \in met : Parent[n] = d}) > MaxFiles)
    <2>1. {n \in met : Parent[n] = d} = Entries(d)
      BY DEF Entries
    <2>2. Cardinality(Entries(d)) <= MaxFiles /\ Cardinality(Entries(d)) \in Nat
      <3>1. Entries(d) \subseteq Nodes /\ IsFiniteSet(Nodes)
        BY FS_Interval, ScanAssumption DEF Entries, Nodes
      <3> QED
        BY <1>1, <1>2, <3>1, FS_Subset, FS_CardinalityType
    <2>3. Cardinality({n \in met : Parent[n] = d}) = Cardinality(Entries(d))
      BY <2>1
    <2> HIDE DEF met
    <2> QED
      BY <2>2, <2>3, ScanAssumption
  <1>7. Cardinality({n \in Nodes : Source(n)}) = Cardinality(listed)
    BY <1>3
  <1>8. OverLimit <=> Cardinality({n \in Nodes : Source(n)}) > MaxFiles
    BY <1>1, <1>4, <1>5, <1>6 DEF OverLimit
  <1> QED
    BY <1>3, <1>7, <1>8

\* What git tracks is the list, unless it is refused.
LEMMA TrackedExact ==
    ASSUME TypeOK, tracked
    PROVE  /\ index = {n \in Nodes : Source(n)}
           /\ OverLimit <=> \/ Cardinality(index) > MaxFiles
                            \/ index = {} \/ index \cap Unsafe # {}
  <1>1. index = {n \in Nodes : Source(n)}
    BY DEF TypeOK, Source
  <1> QED
    BY <1>1 DEF OverLimit

LEMMA NextWalkInv == ScanInv /\ WalkInv /\ [Next]_vars => WalkInv'
  <1> SUFFICES ASSUME ScanInv, WalkInv, [Next]_vars, quiet', ~tracked', pc' = "list"
               PROVE  WalkInv'
    BY DEF WalkInv
  <1>1. CASE Enumerate
    <2>1. quiet
      BY <1>1 DEF Enumerate
    <2> QED
      BY <1>1, <2>1, TurnWalks DEF ScanInv
  <1>2. CASE UNCHANGED vars
    BY <1>2 DEF vars, WalkInv, Visited, Walked, Directories, Reached, Entries
  <1>3. ASSUME NEW n \in Nodes, NEW item \in Items, Edit(n, item) PROVE FALSE
    BY <1>3 DEF Edit
  <1>4. CASE ListTracked
    BY <1>4 DEF ListTracked, environment
  <1>5. CASE EndWalk \/ Look \/ Size \/ Read \/ Finish
    BY <1>5 DEF EndWalk, Listed, Invalid, Look, Size, Read, Report, Finish
  <1> QED
    BY <1>1, <1>2, <1>3, <1>4, <1>5 DEF Next, Scan

-----------------------------------------------------------------------------
(* The result, when nothing changes *)

\* So far reported: what is wrong among the files that are done, and what
\* collides among those met.
FoundOK ==
    \A n \in Nodes :
        Reported(n) <=> n \in listed /\ ((n \notin left /\ Wrong(n)) \/ (n \in Met /\ Collides(n)))

ResultInv ==
    quiet =>
        /\ pc = "list" => findings = {}
        /\ pc = "invalid" => OverLimit \/ (tracked /\ atTop)
        /\ pc \notin {"list", "invalid"} =>
            /\ ~OverLimit /\ ~(tracked /\ atTop)
            /\ listed = {n \in Nodes : Source(n)}
            /\ FoundOK
            /\ pc \in {"size", "read"} => IsRegular(Current)
            /\ pc = "read" => ~tree[Current].content.large

\* What the files deserve does not change unless they do.
LEMMA SameFiles ==
    ASSUME UNCHANGED <<tree, tracked, atTop, index>>
    PROVE  /\ OverLimit' <=> OverLimit
           /\ \A n \in Nodes : /\ Source(n)' <=> Source(n)
                               /\ Wrong(n)' <=> Wrong(n)
                               /\ Collides(n)' <=> Collides(n)
                               /\ IsRegular(n)' <=> IsRegular(n)
  BY DEF OverLimit, Source, Present, Reached, Directories, Walked, Wrong, IsRegular, Collides

\* A list that is complete starts a scan that has found nothing.
LEMMA ListedExact ==
    ASSUME ScanInv, ResultInv, quiet, pc = "list", UNCHANGED <<tree, tracked, atTop, index>>,
           NEW paths \in SUBSET Nodes, Listed(paths), paths = {n \in Nodes : Source(n)},
           OverLimit <=> Cardinality(paths) > MaxFiles, ~(tracked /\ atTop)
    PROVE  ResultInv'
  <1>1. CASE Cardinality(paths) > MaxFiles
    BY <1>1, SameFiles DEF Listed, Invalid, ResultInv
  <1>2. CASE ~(Cardinality(paths) > MaxFiles)
    <2>1. pc' = "scan" /\ listed' = paths /\ left' = paths /\ UNCHANGED findings
      BY <1>2 DEF Listed
    <2>2. Met' = {} /\ findings' = {}
      BY <2>1 DEF Met, ResultInv
    <2>3. FoundOK'
      BY <2>1, <2>2 DEF FoundOK, Reported
    <2>4. listed' = {n \in Nodes : Source(n)'} /\ ~OverLimit'
      BY <1>2, <2>1, SameFiles
    <2> QED
      BY <2>1, <2>3, <2>4 DEF ResultInv
  <1> QED
    BY <1>1, <1>2

\* The next file has the form of an earlier one exactly if its form is seen.
LEMMA CollisionExact ==
    ASSUME ScanInv, pc = "scan", left # {}, listed = {n \in Nodes : Source(n)}
    PROVE  (Collision(Current) # {}) <=> Collides(Current)
  <1> DEFINE n == Current
             f == Fold[n]
  <1>1. n \in left /\ \A m \in left : n <= m
    BY CurrentIsFirst DEF ScanInv, TypeOK
  <1>2. /\ listed \subseteq Nodes /\ left \subseteq listed /\ n \in Nodes /\ f \in Nodes
        /\ Met = listed \ left /\ SeenOK /\ OrderOK
    BY <1>1, ScanAssumption DEF ScanInv, TypeOK, Met
  <1>3. (Collision(n) # {}) <=> seen[f] # 0
    BY DEF Collision, FoldedForm
  <1>4. ASSUME seen[f] # 0 PROVE Collides(n)
    <2>1. seen[f] \in listed \ left /\ Fold[seen[f]] = f
      BY <1>2, <1>4 DEF SeenOK
    <2>2. seen[f] < n
      BY <1>1, <1>2, <2>1 DEF OrderOK
    <2> QED
      BY <1>2, <2>1, <2>2 DEF Collides
  <1>5. ASSUME NEW m \in Nodes, Source(m), m < n, Fold[m] = f PROVE seen[f] # 0
    <2>1. m \notin left
      <3>1. m \in Nat /\ n \in Nat
        BY <1>2 DEF Nodes
      <3> QED
        BY <1>1, <1>5, <3>1
    <2>2. m \in Met
      BY <1>2, <1>5, <2>1
    <2> QED
      BY <1>2, <1>5, <2>2 DEF SeenOK
  <1> QED
    BY <1>3, <1>4, <1>5 DEF Collides

\* Met when a file is reported: the same files while it is being read, and one
\* more when it was only looked at.
LEMMA LookExact ==
    ASSUME ScanInv, ResultInv, quiet, Look
    PROVE  ResultInv'
  <1> DEFINE n == Current
  <1>1. n \in left /\ \A m \in left : n <= m
    BY CurrentIsFirst DEF ScanInv, TypeOK, Look
  <1>2. /\ pc = "scan" /\ left # {} /\ UNCHANGED <<tree, tracked, atTop, index, listed, quiet>>
        /\ listed \subseteq Nodes /\ left \subseteq listed /\ n \in Nodes
        /\ ~OverLimit /\ listed = {m \in Nodes : Source(m)} /\ FoundOK
        /\ Met = listed \ left
    BY <1>1 DEF ScanInv, ResultInv, TypeOK, Look, environment, Met
  <1>3. (Collision(n) # {}) <=> Collides(n)
    BY <1>2, CollisionExact
  <1>4. Collision(n) = {} \/ Collision(n) = {<<n, "collision">>}
    BY DEF Collision
  <1>5. ~Reported(n)
    BY <1>1, <1>2 DEF FoundOK
  <1>6. ASSUME NEW reason \in Reasons, ~IsRegular(n),
               Report(n, Collision(n) \cup {<<n, reason>>})
        PROVE  ResultInv'
    <2>1. /\ findings' = findings \cup Collision(n) \cup {<<n, reason>>}
          /\ left' = left \ {n} /\ pc' = "scan"
      BY <1>6 DEF Report
    <2>2. Met' = Met \cup {n}
      BY <1>1, <1>2, <2>1 DEF Met
    <2>3. Wrong(n)
      BY <1>6 DEF Wrong
    <2>4. ASSUME NEW k \in Nodes
          PROVE  Reported(k)' <=> \/ Reported(k)
                                  \/ k = n
      BY <1>4, <1>6, <2>1 DEF Reported
    <2>5. FoundOK'
      BY <1>1, <1>2, <2>1, <2>2, <2>3, <2>4, SameFiles DEF FoundOK
    <2> QED
      BY <1>2, <2>1, <2>5, SameFiles DEF ResultInv
  <1>7. CASE IsRegular(n) /\ findings' = findings \cup Collision(n) /\ pc' = "size" /\ left' = left
    <2>1. Current' = n
      BY <1>7 DEF Current
    <2>2. Met' = Met \cup {n}
      BY <1>1, <1>2, <1>7, <2>1 DEF Met
    <2>3. ASSUME NEW k \in Nodes
          PROVE  Reported(k)' <=> \/ Reported(k)
                                  \/ k = n /\ Collides(n)
      BY <1>3, <1>4, <1>7 DEF Reported, Reasons
    <2>4. FoundOK'
      BY <1>1, <1>2, <1>5, <1>7, <2>2, <2>3, SameFiles DEF FoundOK
    <2> QED
      BY <1>2, <1>7, <2>1, <2>4, SameFiles DEF ResultInv
  <1>8. "symlink" \in Reasons /\ "notRegular" \in Reasons
    BY DEF Reasons
  <1>9. tree[n].kind = "symlink" => ~IsRegular(n)
    BY DEF IsRegular
  <1> QED
    BY <1>6, <1>7, <1>8, <1>9 DEF Look

\* A file that is done with a finding if and only if it is wrong.
LEMMA ReportExact ==
    ASSUME ScanInv, ResultInv, quiet, pc \in {"size", "read"},
           UNCHANGED <<tree, tracked, atTop, index, listed, quiet>>,
           NEW found, Report(Current, found),
           \/ Wrong(Current) /\ \E reason \in Reasons : found = {<<Current, reason>>}
           \/ ~Wrong(Current) /\ found = {}
    PROVE  ResultInv'
  <1> DEFINE n == Current
  <1>1. n \in left /\ \A m \in left : n <= m
    BY CurrentIsFirst DEF ScanInv, TypeOK, Busy
  <1>2. /\ listed \subseteq Nodes /\ left \subseteq listed /\ n \in Nodes
        /\ ~OverLimit /\ listed = {m \in Nodes : Source(m)} /\ FoundOK
        /\ Met = (listed \ left) \cup {n}
    BY <1>1 DEF ScanInv, ResultInv, TypeOK, Met
  <1>3. findings' = findings \cup found /\ left' = left \ {n} /\ pc' = "scan"
    BY DEF Report
  <1>4. Met' = Met
    BY <1>1, <1>2, <1>3 DEF Met
  <1>5. ASSUME NEW k \in Nodes
        PROVE  Reported(k)' <=> \/ Reported(k)
                                \/ k = n /\ Wrong(n)
    <2>1. CASE Wrong(n)
      <3>1. PICK reason \in Reasons : found = {<<n, reason>>}
        BY <2>1
      <3> QED
        BY <1>3, <2>1, <3>1 DEF Reported
    <2>2. CASE ~Wrong(n)
      BY <1>3, <2>2 DEF Reported
    <2> QED
      BY <2>1, <2>2
  <1>6. FoundOK'
    BY <1>1, <1>2, <1>3, <1>4, <1>5, SameFiles DEF FoundOK
  <1> QED
    BY <1>2, <1>3, <1>6, SameFiles DEF ResultInv

LEMMA InitResultInv == Init => ResultInv
  BY DEF Init, ResultInv

LEMMA NextResultInv == ScanInv /\ WalkInv /\ ResultInv /\ [Next]_vars => ResultInv'
  <1> SUFFICES ASSUME ScanInv, WalkInv, ResultInv, [Next]_vars, quiet' PROVE ResultInv'
    BY DEF ResultInv
  <1>1. CASE ListTracked
    <2>1. /\ pc = "list" /\ tracked /\ quiet /\ UNCHANGED <<tree, tracked, atTop, index>>
          /\ index \subseteq Nodes
          /\ \/ (index = {} \/ \E n \in index : Refused(n)) /\ Invalid
             \/ index # {} /\ (\A n \in index : ~Refused(n)) /\ Listed(index)
      BY <1>1 DEF ListTracked, environment, ScanInv, TypeOK
    <2>2. CASE index = {} \/ \E n \in index : Refused(n)
      <3>1. Invalid
        BY <2>1, <2>2
      <3>2. atTop \/ index = {} \/ index \cap Unsafe # {}
        BY <2>2 DEF Refused, OutsideRoot
      <3>3. OverLimit \/ (tracked /\ atTop)
        BY <2>1, <3>2, TrackedExact DEF ScanInv
      <3> QED
        BY <2>1, <3>1, <3>3, SameFiles DEF Invalid, ResultInv
    <2>3. CASE index # {} /\ \A n \in index : ~Refused(n)
      <3>0. ~atTop /\ index \cap Unsafe = {}
        BY <2>3 DEF Refused, OutsideRoot
      <3>1. index = {n \in Nodes : Source(n)} /\ (OverLimit <=> Cardinality(index) > MaxFiles)
        BY <2>1, <2>3, <3>0, TrackedExact DEF ScanInv
      <3> QED
        BY <2>1, <2>3, <3>0, <3>1, ListedExact
    <2> QED
      BY <2>2, <2>3
  <1>2. CASE Enumerate
    <2>1. quiet /\ pc = "list" /\ UNCHANGED <<tree, tracked, atTop, index, findings>>
      BY <1>2 DEF Enumerate, Invalid, environment
    <2>2. CASE pc' = "invalid"
      BY <1>2, <2>1, <2>2, TurnRefused, SameFiles DEF ScanInv, ResultInv
    <2>3. CASE pc' = "list"
      BY <2>1, <2>3 DEF ResultInv
    <2> QED
      BY <1>2, <2>2, <2>3 DEF Enumerate, Invalid
  <1>3. CASE EndWalk
    <2>1. /\ quiet /\ pc = "list" /\ UNCHANGED <<tree, tracked, atTop, index>> /\ Listed(listed)
          /\ listed \in SUBSET Nodes /\ ~tracked
      BY <1>3 DEF EndWalk, environment, ScanInv, TypeOK
    <2>2. /\ listed = {n \in Nodes : Source(n)}
          /\ OverLimit <=> Cardinality(listed) > MaxFiles
      BY <1>3, <2>1, WalkExact DEF ScanInv
    <2> QED
      BY <2>1, <2>2, ListedExact
  <1>4. CASE Look
    <2>1. quiet
      BY <1>4 DEF Look
    <2> QED
      BY <1>4, <2>1, LookExact
  <1>5. CASE Size
    <2>1. /\ pc = "size" /\ quiet /\ IsRegular(Current)
          /\ UNCHANGED <<tree, tracked, atTop, index, listed, quiet>>
      BY <1>5 DEF Size, environment, ResultInv
    <2>2. CASE tree[Current].content.large
      <3>1. Report(Current, {<<Current, "oversized">>}) /\ Wrong(Current) /\ "oversized" \in Reasons
        BY <1>5, <2>1, <2>2 DEF Size, Wrong, Reasons
      <3> QED
        BY <2>1, <3>1, ReportExact
    <2>3. CASE ~tree[Current].content.large
      <3>1. pc' = "read" /\ UNCHANGED <<findings, left>>
        BY <1>5, <2>1, <2>3 DEF Size
      <3>2. Current' = Current /\ Met' = Met
        BY <2>1, <3>1 DEF Current, Met
      <3>3. FoundOK'
        BY <2>1, <3>1, <3>2, SameFiles DEF ResultInv, FoundOK, Reported
      <3>4. Current \in Nodes
        BY CurrentIsFirst, <2>1 DEF ScanInv, TypeOK, Busy
      <3> QED
        BY <2>1, <2>3, <3>1, <3>2, <3>3, <3>4, SameFiles DEF ResultInv
    <2> QED
      BY <2>2, <2>3
  <1>6. CASE Read
    <2>1. /\ pc = "read" /\ quiet /\ IsRegular(Current) /\ ~tree[Current].content.large
          /\ UNCHANGED <<tree, tracked, atTop, index, listed, quiet>>
      BY <1>6 DEF Read, environment, ResultInv
    <2>2. Report(Current, IF Judged(tree[Current].content) THEN {<<Current, "content">>} ELSE {})
      BY <1>6, <2>1 DEF Read
    <2>3. Wrong(Current) <=> Judged(tree[Current].content)
      BY <2>1 DEF Wrong
    <2>4. "content" \in Reasons
      BY DEF Reasons
    <2> QED
      BY <2>1, <2>2, <2>3, <2>4, ReportExact
  <1>7. CASE Finish
    <2>1. /\ pc = "scan" /\ pc' \in {"ok", "rejected"} /\ quiet
          /\ UNCHANGED <<tree, tracked, atTop, index, listed, left, findings>>
      BY <1>7 DEF Finish, environment
    <2>2. Met' = Met
      BY <2>1 DEF Met
    <2>3. FoundOK'
      BY <2>1, <2>2, SameFiles DEF ResultInv, FoundOK, Reported
    <2> QED
      BY <2>1, <2>3, SameFiles DEF ResultInv
  <1>8. CASE UNCHANGED vars
    <2>1. UNCHANGED <<tree, tracked, atTop, index, pc, listed, left, findings, quiet>>
      BY <1>8 DEF vars
    <2>2. Current' = Current /\ Met' = Met
      BY <2>1 DEF Current, Met
    <2>3. FoundOK' <=> FoundOK
      BY <2>1, <2>2, SameFiles DEF FoundOK, Reported
    <2>4. IsRegular(Current)' <=> IsRegular(Current)
      BY <2>1, <2>2 DEF IsRegular, Present, Reached, Directories
    <2> QED
      BY <2>1, <2>2, <2>3, <2>4, SameFiles DEF ResultInv
  <1>9. ASSUME NEW n \in Nodes, NEW item \in Items, Edit(n, item) PROVE FALSE
    BY <1>9 DEF Edit
  <1> QED
    BY <1>1, <1>2, <1>3, <1>4, <1>5, <1>6, <1>7, <1>8, <1>9 DEF Next, Scan

\* When nothing changes and nothing fails, the scan's result is the one the
\* files deserve: the walk lists the sources that are said without a walk, its
\* limits are neither missed nor invented, the findings are exact, and of tracked
\* scans those at the top of the worktree, and no others, are refused for where
\* they are made (ExactWhenQuiet).
THEOREM ExactWhenQuietHolds == Spec => []ExactWhenQuiet
  <1>1. ScanInv /\ ResultInv => ExactWhenQuiet
    <2> SUFFICES ASSUME ScanInv, ResultInv, quiet, pc \in {"ok", "rejected"}, NEW n \in Nodes
                 PROVE  Reported(n) <=> Source(n) /\ (Wrong(n) \/ Collides(n))
      BY DEF ResultInv, ExactWhenQuiet, Reported
    <2>1. left = {} /\ Met = listed
      BY DEF ScanInv, Met
    <2> QED
      BY <2>1 DEF ResultInv, FoundOK
  <1> QED
    BY <1>1, InitScanInv, NextScanInv, InitWalkInv, NextWalkInv, InitResultInv, NextResultInv,
       PTL DEF Spec
=============================================================================
