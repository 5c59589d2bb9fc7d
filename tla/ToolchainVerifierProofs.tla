----------------------- MODULE ToolchainVerifierProofs -----------------------
(***************************************************************************)
(* Proofs about ToolchainVerifier, for any archive, limit, number of       *)
(* attempts and changes.                                                   *)
(***************************************************************************)
EXTENDS ToolchainVerifier, TLAPS

\* What has been digested of a response is what the server has sent of it.
BodyExact ==
    pc = "body" => total <= MaxArchive /\ digest = served /\ total = Len(served)

TypeInv == TypeOK /\ BodyExact

\* The tools, one by one.
LEMMA ToolsInOrder ==
    /\ Len(Tools) = 4 /\ DOMAIN Tools = 1..4
    /\ \A i \in 1..4 : Tools[i] \in ToolSet
    /\ \A t \in ToolSet : \E i \in 1..4 : t = Tools[i]
  BY DEF Tools, ToolSet

\* A further chunk.
LEMMA Appended ==
    ASSUME NEW s \in Seq(Chunks), NEW chunk \in Chunks
    PROVE  Append(s, chunk) \in Seq(Chunks) /\ Len(Append(s, chunk)) = Len(s) + 1
  OBVIOUS

-----------------------------------------------------------------------------
(* The types *)

LEMMA InitTypeInv == Init => TypeInv
<1> SUFFICES ASSUME Init PROVE TypeInv
  OBVIOUS
<1> USE ToolchainAssumption DEF Init
<1>1. item \in [Items -> Conditions]
  OBVIOUS
<1>2. <<>> \in Seq(Chunks) /\ Len(<<>>) = 0
  OBVIOUS
<1>3. 1 \in DOMAIN Tools /\ 1 \in 1..Attempts /\ 0 \in 0..(MaxArchive + 1)
      /\ 0 \in 0..MaxEdits
  BY ToolsInOrder
<1>4. /\ digest \in Seq(Chunks) /\ Len(digest) <= MaxArchive
      /\ served \in Seq(Chunks) /\ Len(served) <= MaxArchive + 1
  BY <1>2
<1>5. /\ tool \in DOMAIN Tools /\ attempt \in 1..Attempts /\ total \in 0..(MaxArchive + 1)
      /\ edits \in 0..MaxEdits
  BY <1>3
<1>6. TypeOK
  BY <1>1, <1>4, <1>5 DEF TypeOK
<1>7. BodyExact
  BY DEF BodyExact
<1> QED  BY <1>6, <1>7 DEF TypeInv

\* A look changes where the verifier is, and nothing else.
LEMMA LookTypeInv == TypeInv /\ Look /\ Verify => TypeInv'
<1> SUFFICES ASSUME TypeInv, Look, Verify PROVE TypeInv'
  OBVIOUS
<1> USE DEF TypeInv, TypeOK, transfer
<1>1. UNCHANGED <<transfer, item, download, expectHead, touched, edits>>
  BY DEF Look, Verify
<1>2. /\ pc' \in {"home", "paths", "run", "archive", "request", "head", "valid", "invalid"}
      /\ tool' \in DOMAIN Tools
  <2>1. CASE ReadManifest
    BY <2>1 DEF ReadManifest, Decide
  <2>2. CASE ResolveHome
    BY <2>2 DEF ResolveHome, Decide
  <2>3. CASE CheckPath
    BY <2>3, ToolsInOrder DEF CheckPath, EachTool, LastTool, Decide
  <2>4. CASE RunTool
    BY <2>4, ToolsInOrder DEF RunTool, EachTool, LastTool, Decide
  <2>5. CASE ChooseArchive
    BY <2>5 DEF ChooseArchive, Decide
  <2>6. CASE VerifyHead
    BY <2>6 DEF VerifyHead, Decide
  <2> QED  BY <2>1, <2>2, <2>3, <2>4, <2>5, <2>6 DEF Look
<1>3. TypeOK'
  BY <1>1, <1>2 DEF Results
<1>4. BodyExact'
  BY <1>2 DEF BodyExact
<1> QED  BY <1>3, <1>4

\* Where an attempt that fails leaves the verifier.
LEMMA FailedAttempt ==
    ASSUME TypeOK, AttemptFails
    PROVE  attempt' \in 1..Attempts /\ pc' \in {"request", "invalid"}
  BY ToolchainAssumption DEF TypeOK, AttemptFails

\* The transfer keeps its bounds.
LEMMA TransferTypeInv == TypeInv /\ Transfer /\ Verify => TypeInv'
<1> SUFFICES ASSUME TypeInv, Transfer, Verify PROVE TypeInv'
  OBVIOUS
<1> USE DEF TypeInv, TypeOK, BodyExact, transfer
<1>1. UNCHANGED <<tool, item, download, expectHead, touched, edits>>
  BY DEF Transfer, Verify
<1>2. CASE Request
  <2>1. CASE pc' = "body" /\ StartBody /\ served' = <<>> /\ UNCHANGED attempt
    <3>1. <<>> \in Seq(Chunks) /\ Len(<<>>) = 0
      OBVIOUS
    <3> QED  BY <1>1, <1>2, <2>1, <3>1, ToolchainAssumption DEF Request, StartBody
  <2>2. CASE AttemptFails /\ UNCHANGED <<digest, total, served>>
    BY <1>1, <1>2, <2>2, FailedAttempt DEF Request, Results
  <2> QED  BY <1>2, <2>1, <2>2 DEF Request
<1>3. CASE \E chunk \in Chunks : ReadChunk(chunk)
  <2>1. PICK chunk \in Chunks : ReadChunk(chunk)
    BY <1>3
  <2>2. /\ served' \in Seq(Chunks) /\ Len(served') = total + 1
        /\ total' = total + 1 /\ total' \in 0..(MaxArchive + 1)
        /\ offered' = offered
    BY <2>1, Appended, ToolchainAssumption DEF ReadChunk
  <2>3. CASE OverLimit(total')
    <3>1. AttemptFails /\ UNCHANGED digest
      BY <2>1, <2>3 DEF ReadChunk
    <3> QED  BY <1>1, <2>2, <3>1, FailedAttempt, ToolchainAssumption DEF Results
  <2>4. CASE ~OverLimit(total')
    <3>1. digest' = Append(digest, chunk) /\ UNCHANGED <<pc, attempt>> /\ pc = "body"
      BY <2>1, <2>4 DEF ReadChunk
    <3>2. served' = Append(served, chunk) /\ total' <= MaxArchive
      BY <2>1, <2>2, <2>4, ToolchainAssumption DEF ReadChunk, OverLimit
    <3>3. digest' = served'
      BY <3>1, <3>2
    <3> QED  BY <1>1, <2>2, <3>1, <3>2, <3>3, ToolchainAssumption
  <2> QED  BY <2>3, <2>4
<1>4. CASE EndOfBody
  <2>1. offered' \in BOOLEAN /\ UNCHANGED <<digest, total, served>>
    BY <1>4 DEF EndOfBody
  <2>2. attempt' \in 1..Attempts /\ pc' \in {"request", "invalid", "head"}
    BY <1>4, FailedAttempt DEF EndOfBody
  <2> QED  BY <1>1, <2>1, <2>2 DEF Results
<1>5. CASE ConnectionLost
  BY <1>1, <1>5, FailedAttempt DEF ConnectionLost, Results
<1>6. CASE MalformedAnswer
  BY <1>1, <1>6 DEF MalformedAnswer, Results
<1> QED  BY <1>2, <1>3, <1>4, <1>5, <1>6 DEF Transfer

LEMMA EditTypeInv ==
    ASSUME TypeInv, NEW i \in Items \ {"home"}, NEW condition \in Conditions, Edit(i, condition)
    PROVE  TypeInv'
  BY ToolchainAssumption DEF TypeInv, TypeOK, BodyExact, Edit, transfer

LEMMA NextTypeInv == TypeInv /\ [Next]_vars => TypeInv'
<1> SUFFICES ASSUME TypeInv, [Next]_vars PROVE TypeInv'
  OBVIOUS
<1>1. CASE Verify
  BY <1>1, LookTypeInv, TransferTypeInv DEF Verify
<1>2. CASE \E i \in Items \ {"home"}, condition \in Conditions : Edit(i, condition)
  BY <1>2, EditTypeInv
<1>3. CASE UNCHANGED vars
  BY <1>3 DEF vars, TypeInv, TypeOK, BodyExact
<1> QED  BY <1>1, <1>2, <1>3 DEF Next

\* The variables keep their types, and a download reads and keeps no more than
\* MAX_ARCHIVE_BYTES and the chunk that goes over it.
THEOREM TypeCorrect == Spec => []TypeOK
<1>1. TypeInv => TypeOK
  BY DEF TypeInv
<1> QED  BY <1>1, InitTypeInv, NextTypeInv, PTL DEF Spec

LEMMA TypesHold == Spec => []TypeInv
  BY InitTypeInv, NextTypeInv, PTL DEF Spec

-----------------------------------------------------------------------------
(* Downloads *)

\* An archive that is served whole is accepted, and only then is the verifier
\* done with the download.
Served ==
    /\ pc \in {"manifest", "home", "paths", "run", "archive", "request", "body"} => ~offered
    /\ pc \in {"request", "body"} => download
    /\ DownloadedExact

LEMMA LookServed ==
    ASSUME TypeInv, Served, Look, Verify
    PROVE  Served'
<1> USE DEF Served, DownloadedExact, transfer
<1>1. UNCHANGED <<transfer, download>>
  BY DEF Look, Verify
<1>2. CASE ReadManifest
  BY <1>1, <1>2 DEF ReadManifest, Decide
<1>3. CASE ResolveHome
  BY <1>1, <1>3 DEF ResolveHome, Decide
<1>4. CASE CheckPath
  BY <1>1, <1>4 DEF CheckPath, EachTool, Decide
<1>5. CASE RunTool
  BY <1>1, <1>5 DEF RunTool, EachTool, Decide
<1>6. CASE ChooseArchive
  BY <1>1, <1>6 DEF ChooseArchive, Decide
<1>7. CASE VerifyHead
  BY <1>1, <1>7 DEF VerifyHead, Decide
<1> QED  BY <1>2, <1>3, <1>4, <1>5, <1>6, <1>7 DEF Look

LEMMA TransferServed ==
    ASSUME TypeInv, Served, Transfer, Verify
    PROVE  Served'
<1> USE DEF Served, DownloadedExact
<1>1. pc \in {"request", "body"} /\ download' = download /\ ~offered /\ download
  BY DEF Transfer, Verify, Request, ReadChunk, EndOfBody, ConnectionLost, MalformedAnswer
<1>2. AttemptFails => pc' \in {"request", "invalid"}
  BY DEF AttemptFails
<1>3. CASE Request
  BY <1>1, <1>2, <1>3 DEF Request
<1>4. CASE \E chunk \in Chunks : ReadChunk(chunk)
  BY <1>1, <1>2, <1>4 DEF ReadChunk
<1>5. CASE EndOfBody
  <2>1. digest = served /\ total = Len(served)
    BY <1>5 DEF EndOfBody, TypeInv, BodyExact
  <2>2. CASE served = Archive
    <3>1. total # 0 /\ digest = Archive
      BY <2>1, <2>2, ToolchainAssumption
    <3>2. pc' = "head" /\ served' = Archive
      BY <1>5, <2>2, <3>1 DEF EndOfBody
    <3> QED  BY <3>2
  <2>3. CASE served # Archive
    <3>1. AttemptFails /\ ~offered'
      BY <1>1, <1>5, <2>1, <2>3 DEF EndOfBody
    <3> QED  BY <1>1, <1>2, <3>1
  <2> QED  BY <2>2, <2>3
<1>6. CASE ConnectionLost
  BY <1>1, <1>2, <1>6 DEF ConnectionLost
<1>7. CASE MalformedAnswer
  BY <1>1, <1>7 DEF MalformedAnswer, transfer
<1> QED  BY <1>3, <1>4, <1>5, <1>6, <1>7 DEF Transfer

LEMMA ServedInvariant == Spec => []Served
<1>1. Init => Served
  BY DEF Init, Served, DownloadedExact
<1>2. TypeInv /\ Served /\ [Next]_vars => Served'
  <2> SUFFICES ASSUME TypeInv, Served, [Next]_vars PROVE Served'
    OBVIOUS
  <2>1. CASE Verify
    BY <2>1, LookServed, TransferServed DEF Verify
  <2>2. CASE \E i \in Items \ {"home"}, condition \in Conditions : Edit(i, condition)
    BY <2>2 DEF Edit, transfer, Served, DownloadedExact
  <2>3. CASE UNCHANGED vars
    BY <2>3 DEF vars, Served, DownloadedExact
  <2> QED  BY <2>1, <2>2, <2>3 DEF Next
<1> QED  BY <1>1, <1>2, TypesHold, PTL DEF Spec

\* A download is accepted only when one response was the archive, whole: nothing
\* of an earlier attempt counts (_download_and_verify starts each anew).
THEOREM DownloadedExactHolds == Spec => []DownloadedExact
<1>1. Served => DownloadedExact
  BY DEF Served
<1> QED  BY <1>1, ServedInvariant, PTL

-----------------------------------------------------------------------------
(* Looks *)

\* As it was looked at, or changed since.
Stable(i) == i \in touched \/ item[i] = "reviewed"

\* Past each look, what was looked at is stable.
PastLooks ==
    /\ pc \in {"home", "paths", "run", "archive", "request", "body", "head", "valid"} =>
          Stable("manifest")
    /\ pc \in {"paths", "run", "archive", "request", "body", "head", "valid"} => Stable("home")
    /\ pc = "run" => \A j \in 1..4 : j < tool => Stable(Tools[j])
    /\ pc \in {"archive", "request", "body", "head", "valid"} =>
          \A t \in ToolSet : Stable(t)
    /\ pc \in {"head", "valid"} /\ ~download => Stable("archive")
    /\ pc = "valid" /\ expectHead => Stable("head")

\* Refused for an item that is still as it was.
Caused ==
    pc = "invalid" /\ touched = {} =>
        \/ \E i \in Needed : item[i] # "reviewed"
        \/ item["head"] = "missing"
        \/ download /\ ~offered

LEMMA LookPastLooks ==
    ASSUME TypeInv, PastLooks, Look, Verify
    PROVE  PastLooks'
<1> USE DEF PastLooks, Stable
<1>1. UNCHANGED <<item, touched, download, expectHead>>
  BY DEF Verify
<1>2. CASE ReadManifest
  BY <1>1, <1>2 DEF ReadManifest, Decide
<1>3. CASE ResolveHome
  BY <1>1, <1>3 DEF ResolveHome, Decide
<1>4. CASE CheckPath
  <2>1. pc = "paths" /\ pc' \in {"paths", "run", "invalid"} /\ (pc' = "run" => tool' = 1)
    BY <1>4 DEF CheckPath, EachTool, Decide
  <2>2. pc' = "run" => \A j \in 1..4 : ~(j < tool')
    BY <2>1
  <2> QED  BY <1>1, <2>1, <2>2
<1>5. CASE RunTool
  <2>1. tool \in 1..4
    BY ToolsInOrder DEF TypeInv, TypeOK
  <2>2. CASE item[Tools[tool]] # "reviewed"
    BY <1>1, <1>5, <2>2 DEF RunTool, EachTool, Decide
  <2>3. CASE item[Tools[tool]] = "reviewed" /\ ~LastTool
    <3>1. tool' = tool + 1 /\ pc' = "run" /\ pc = "run"
      BY <1>5, <2>3 DEF RunTool, EachTool
    <3>2. \A j \in 1..4 : j < tool' => Stable(Tools[j])
      BY <2>1, <2>3, <3>1
    <3> QED  BY <1>1, <3>1, <3>2
  <2>4. CASE item[Tools[tool]] = "reviewed" /\ LastTool
    <3>1. tool = 4 /\ pc' = "archive" /\ pc = "run"
      BY <1>5, <2>4, ToolsInOrder DEF RunTool, EachTool, LastTool, Decide
    <3>2. \A j \in 1..4 : Stable(Tools[j])
      BY <2>1, <2>4, <3>1
    <3>3. \A t \in ToolSet : Stable(t)
      BY <3>2, ToolsInOrder
    <3> QED  BY <1>1, <3>1, <3>3
  <2> QED  BY <2>2, <2>3, <2>4
<1>6. CASE ChooseArchive
  BY <1>1, <1>6 DEF ChooseArchive, Decide
<1>7. CASE VerifyHead
  BY <1>1, <1>7 DEF VerifyHead, Decide
<1> QED  BY <1>2, <1>3, <1>4, <1>5, <1>6, <1>7 DEF Look

LEMMA LookCaused ==
    ASSUME TypeInv, Look, Verify, pc' = "invalid"
    PROVE  (\E i \in Needed : item[i] # "reviewed") \/ item["head"] = "missing"
<1>1. CASE ReadManifest
  BY <1>1 DEF ReadManifest, Decide, Needed
<1>2. CASE ResolveHome
  BY <1>2 DEF ResolveHome, Decide, Needed
<1>3. CASE CheckPath \/ RunTool
  <2>1. tool \in 1..4 /\ Tools[tool] \in ToolSet
    BY ToolsInOrder DEF TypeInv, TypeOK
  <2>2. item[Tools[tool]] # "reviewed"
    BY <1>3 DEF CheckPath, RunTool, EachTool, Decide
  <2> QED  BY <2>1, <2>2 DEF Needed
<1>4. CASE ChooseArchive
  BY <1>4 DEF ChooseArchive, Decide, Needed
<1>5. CASE VerifyHead
  <2>1. "head" \in Items
    BY DEF Items
  <2>2. item["head"] \in Conditions
    BY <2>1 DEF TypeInv, TypeOK
  <2> QED  BY <1>5, <2>2 DEF VerifyHead, Decide, Needed, Conditions
<1> QED  BY <1>1, <1>2, <1>3, <1>4, <1>5 DEF Look

LEMMA LooksInvariant == Spec => [](PastLooks /\ Caused)
<1>1. Init => PastLooks /\ Caused
  BY DEF Init, PastLooks, Caused
<1>2. TypeInv /\ Served /\ PastLooks /\ Caused /\ [Next]_vars => PastLooks' /\ Caused'
  <2> SUFFICES ASSUME TypeInv, Served, PastLooks, Caused, [Next]_vars
               PROVE  PastLooks' /\ Caused'
    OBVIOUS
  <2>1. CASE Look /\ Verify
    <3>1. PastLooks'
      BY <2>1, LookPastLooks
    <3>2. UNCHANGED <<item, touched, download, expectHead, offered>> /\ Needed' = Needed
      BY <2>1 DEF Look, Verify, transfer, Needed
    <3>3. Caused'
      BY <2>1, <3>2, LookCaused DEF Caused
    <3> QED  BY <3>1, <3>3
  <2>2. CASE Transfer /\ Verify
    <3>1. /\ pc \in {"request", "body"}
          /\ pc' \in {"request", "body", "head", "invalid", "traceback"}
      BY <2>2 DEF Transfer, Request, ReadChunk, EndOfBody, ConnectionLost, MalformedAnswer,
                  AttemptFails
    <3>2. UNCHANGED <<item, touched, download, expectHead, tool>> /\ download
      BY <2>2, <3>1 DEF Transfer, Verify, Served
    <3>3. PastLooks'
      BY <3>1, <3>2 DEF PastLooks, Stable
    <3>4. Caused'
      <4>1. SUFFICES ASSUME pc' = "invalid" PROVE ~offered'
        BY <3>2 DEF Caused
      <4>2. CASE EndOfBody
        <5>1. digest = served /\ total = Len(served) /\ ~offered
          BY <4>2 DEF EndOfBody, TypeInv, BodyExact, Served
        <5>2. total = 0 \/ digest # Archive
          BY <4>1, <4>2 DEF EndOfBody
        <5>3. served # Archive
          BY <5>1, <5>2, ToolchainAssumption
        <5> QED  BY <4>2, <5>1, <5>3 DEF EndOfBody
      <4>3. CASE ~EndOfBody
        BY <2>2, <3>1, <4>3 DEF Transfer, Request, ReadChunk, ConnectionLost, MalformedAnswer,
                                transfer, Served
      <4> QED  BY <4>2, <4>3
    <3> QED  BY <3>3, <3>4
  <2>3. CASE \E i \in Items \ {"home"}, condition \in Conditions : Edit(i, condition)
    <3>1. PICK i \in Items \ {"home"}, condition \in Conditions : Edit(i, condition)
      BY <2>3
    <3>2. touched' = touched \cup {i} /\ touched' # {}
          /\ UNCHANGED <<download, expectHead, pc, tool>>
      BY <3>1 DEF Edit
    <3>3. \A j : Stable(j) => Stable(j)'
      BY <3>1, <3>2 DEF Edit, Stable, TypeInv, TypeOK
    <3>4. PastLooks'
      BY <3>2, <3>3 DEF PastLooks
    <3> QED  BY <3>2, <3>4 DEF Caused
  <2>4. CASE UNCHANGED vars
    BY <2>4 DEF vars, PastLooks, Caused, Stable, Needed
  <2> QED  BY <2>1, <2>2, <2>3, <2>4 DEF Next, Verify
<1> QED  BY <1>1, <1>2, TypesHold, ServedInvariant, PTL DEF Spec

\* Past main every item it depends on was looked at: one that nobody touched and
\* that is not as reviewed has been refused.
THEOREM StableFlawRefusedHolds == Spec => []StableFlawRefused
<1>1. PastLooks => StableFlawRefused
  BY DEF PastLooks, StableFlawRefused, Stable, Needed
<1> QED  BY <1>1, LooksInvariant, PTL

\* toolchain_invalid has a cause: an item that is not as reviewed, or a server
\* that never sent the archive.
THEOREM RefusedForCauseHolds == Spec => []RefusedForCause
<1>1. Caused => RefusedForCause
  BY DEF Caused, RefusedForCause
<1> QED  BY <1>1, LooksInvariant, PTL

-----------------------------------------------------------------------------
(* How long the verifier takes *)

\* At most so many steps has one attempt, and so many the attempts that are left.
AttemptSteps == MaxArchive + 3
AttemptsLeft == (Attempts - attempt) * AttemptSteps

\* At most so many steps the verifier takes from here on: the looks at the items,
\* two turns for each tool, the attempts with all chunks up to one over the limit.
StepsLeft ==
    CASE pc = "manifest" -> AttemptsLeft + AttemptSteps + 12
      [] pc = "home" -> AttemptsLeft + AttemptSteps + 11
      [] pc = "paths" -> AttemptsLeft + AttemptSteps + 11 - tool
      [] pc = "run" -> AttemptsLeft + AttemptSteps + 7 - tool
      [] pc = "archive" -> AttemptsLeft + AttemptSteps + 2
      [] pc = "request" -> AttemptsLeft + AttemptSteps + 1
      [] pc = "body" -> AttemptsLeft + AttemptSteps - total
      [] pc = "head" -> 1
      [] OTHER -> 0

LEMMA AttemptsLeftType ==
    ASSUME TypeOK
    PROVE  /\ AttemptsLeft \in Nat /\ AttemptSteps \in Nat /\ AttemptSteps = MaxArchive + 3
           /\ AttemptsLeft <= (Attempts - 1) * AttemptSteps
           /\ (Attempts - (attempt + 1)) * AttemptSteps = AttemptsLeft - AttemptSteps
<1>1. MaxArchive \in Nat /\ Attempts \in Nat /\ attempt \in 1..Attempts
  BY ToolchainAssumption DEF TypeOK
<1>2. AttemptSteps \in Nat /\ AttemptSteps = MaxArchive + 3
  BY <1>1 DEF AttemptSteps
<1>3. Attempts - attempt \in Nat /\ Attempts - attempt <= Attempts - 1
  BY <1>1
<1>4. ASSUME NEW x \in Nat, NEW y \in Nat, NEW n \in Nat, x <= y
      PROVE  x * n \in Nat /\ (x - 1) * n = x * n - n /\ x * n <= y * n
  <2>1. x * n \in Nat /\ (x - 1) * n = x * n - n
    OBVIOUS
  <2>2. y * n = x * n + (y - x) * n /\ y - x \in Nat
    BY <1>4
  <2>3. (y - x) * n \in Nat
    BY <2>2
  <2> QED  BY <2>1, <2>2, <2>3
<1>5. Attempts - (attempt + 1) = (Attempts - attempt) - 1
  BY <1>1
<1> DEFINE x == Attempts - attempt
           y == Attempts - 1
<1>6. x \in Nat /\ y \in Nat /\ x <= y /\ AttemptsLeft = x * AttemptSteps
  BY <1>1, <1>3 DEF AttemptsLeft
<1> HIDE DEF x, y
<1>7. /\ x * AttemptSteps \in Nat /\ (x - 1) * AttemptSteps = x * AttemptSteps - AttemptSteps
      /\ x * AttemptSteps <= y * AttemptSteps
  BY <1>2, <1>4, <1>6
<1> QED  BY <1>2, <1>5, <1>6, <1>7 DEF x, y

\* A failed attempt uses up one, or ends the download.
LEMMA FailedAttemptLess ==
    ASSUME TypeOK, AttemptFails
    PROVE  \/ pc' = "request" /\ AttemptsLeft' = AttemptsLeft - AttemptSteps
                /\ AttemptsLeft - AttemptSteps \in Nat
           \/ pc' = "invalid"
<1> SUFFICES ASSUME attempt < Attempts
             PROVE  pc' = "request" /\ AttemptsLeft' = AttemptsLeft - AttemptSteps
                      /\ AttemptsLeft - AttemptSteps \in Nat
  BY DEF AttemptFails
<1>1. pc' = "request" /\ attempt' = attempt + 1
  BY DEF AttemptFails
<1>2. AttemptsLeft' = (Attempts - (attempt + 1)) * AttemptSteps
  BY <1>1 DEF AttemptsLeft, AttemptSteps
<1>3. AttemptsLeft' = AttemptsLeft - AttemptSteps
  BY <1>2, AttemptsLeftType
<1>4. (Attempts - (attempt + 1)) * AttemptSteps \in Nat
  <2>1. Attempts - (attempt + 1) \in Nat
    BY ToolchainAssumption DEF TypeOK
  <2>2. AttemptSteps \in Nat
    BY AttemptsLeftType
  <2> DEFINE z == Attempts - (attempt + 1)
  <2> HIDE DEF z
  <2>3. z * AttemptSteps \in Nat
    BY <2>1, <2>2 DEF z
  <2> QED  BY <2>3 DEF z
<1> QED  BY <1>1, <1>2, <1>3, <1>4

LEMMA LookLess ==
    ASSUME TypeInv, Look
    PROVE  StepsLeft' \in Nat /\ StepsLeft' < StepsLeft
<1>1. AttemptsLeft' = AttemptsLeft /\ UNCHANGED total
  BY DEF Look, transfer, AttemptsLeft, AttemptSteps
<1>2. AttemptsLeft \in Nat /\ AttemptSteps \in Nat /\ AttemptSteps' = AttemptSteps
      /\ tool \in 1..4 /\ Len(Tools) = 4
  BY AttemptsLeftType, ToolsInOrder DEF TypeInv, TypeOK, AttemptSteps
<1>3. CASE ReadManifest
  BY <1>1, <1>2, <1>3 DEF ReadManifest, Decide, StepsLeft
<1>4. CASE ResolveHome
  <2>1. tool \in 1..4 /\ tool' = tool /\ pc = "home" /\ pc' \in {"paths", "invalid"}
    BY <1>2, <1>4 DEF ResolveHome, Decide
  <2> QED  BY <1>1, <1>2, <2>1 DEF StepsLeft
<1>5. CASE CheckPath
  <2>1. /\ pc = "paths"
        /\ \/ pc' = "paths" /\ tool' = tool + 1 /\ tool' \in 1..4
           \/ pc' \in {"run", "invalid"} /\ tool' = 1
    BY <1>2, <1>5 DEF CheckPath, EachTool, LastTool, Decide
  <2> QED  BY <1>1, <1>2, <2>1 DEF StepsLeft
<1>6. CASE RunTool
  <2>1. /\ pc = "run"
        /\ \/ pc' = "run" /\ tool' = tool + 1 /\ tool' \in 1..4
           \/ pc' \in {"archive", "invalid"} /\ tool' = 1
    BY <1>2, <1>6 DEF RunTool, EachTool, LastTool, Decide
  <2> QED  BY <1>1, <1>2, <2>1 DEF StepsLeft
<1>7. CASE ChooseArchive
  BY <1>1, <1>2, <1>7 DEF ChooseArchive, Decide, StepsLeft
<1>8. CASE VerifyHead
  BY <1>1, <1>2, <1>8 DEF VerifyHead, Decide, StepsLeft
<1> QED  BY <1>3, <1>4, <1>5, <1>6, <1>7, <1>8 DEF Look

LEMMA TransferLess ==
    ASSUME TypeInv, Transfer
    PROVE  StepsLeft' \in Nat /\ StepsLeft' < StepsLeft
<1>1. /\ AttemptsLeft \in Nat /\ AttemptSteps \in Nat /\ AttemptSteps = MaxArchive + 3
      /\ AttemptSteps' = AttemptSteps /\ MaxArchive \in Nat
      /\ total \in Nat /\ (pc = "body" => total <= MaxArchive)
  BY AttemptsLeftType, ToolchainAssumption DEF TypeInv, TypeOK, BodyExact, AttemptSteps
\* What is left in an attempt is more than nothing.
<1>2. ASSUME AttemptFails, pc \in {"request", "body"}
      PROVE  StepsLeft' \in Nat /\ StepsLeft' < StepsLeft
  <2>1. \/ pc' = "request" /\ AttemptsLeft' = AttemptsLeft - AttemptSteps
             /\ AttemptsLeft - AttemptSteps \in Nat
        \/ pc' = "invalid"
    BY <1>2, FailedAttemptLess DEF TypeInv
  <2> QED  BY <1>1, <1>2, <2>1 DEF StepsLeft
<1>3. CASE Request
  <2>1. CASE pc' = "body" /\ StartBody /\ UNCHANGED attempt
    <3>1. pc = "request" /\ pc' = "body" /\ total' = 0 /\ AttemptsLeft' = AttemptsLeft
      BY <1>3, <2>1 DEF Request, StartBody, AttemptsLeft, AttemptSteps
    <3> QED  BY <1>1, <3>1 DEF StepsLeft
  <2>2. CASE AttemptFails
    BY <1>2, <1>3, <2>2 DEF Request
  <2> QED  BY <1>3, <2>1, <2>2 DEF Request
<1>4. CASE \E chunk \in Chunks : ReadChunk(chunk)
  <2>1. PICK chunk \in Chunks : ReadChunk(chunk)
    BY <1>4
  <2>2. CASE OverLimit(total')
    BY <1>2, <2>1, <2>2 DEF ReadChunk
  <2>3. CASE ~OverLimit(total')
    <3>1. pc = "body" /\ pc' = "body" /\ total' = total + 1 /\ total' <= MaxArchive
          /\ AttemptsLeft' = AttemptsLeft
      BY <1>1, <2>1, <2>3 DEF ReadChunk, OverLimit, AttemptsLeft, AttemptSteps
    <3> QED  BY <1>1, <3>1 DEF StepsLeft
  <2> QED  BY <2>2, <2>3
<1>5. CASE EndOfBody
  <2>1. CASE AttemptFails
    BY <1>2, <1>5, <2>1 DEF EndOfBody
  <2>2. CASE pc' = "head"
    BY <1>1, <1>5, <2>2 DEF EndOfBody, StepsLeft
  <2> QED  BY <1>5, <2>1, <2>2 DEF EndOfBody
<1>6. CASE ConnectionLost
  BY <1>2, <1>6 DEF ConnectionLost
<1>7. CASE MalformedAnswer
  BY <1>1, <1>7 DEF MalformedAnswer, StepsLeft
<1> QED  BY <1>3, <1>4, <1>5, <1>6, <1>7 DEF Transfer

\* Every step of the verifier makes the number of steps that are left smaller, and
\* nobody who changes an item makes it greater: it takes no more than a fixed number
\* of steps, whatever the server sends, and so comes to a result if it goes on.
THEOREM VerifierAdvances ==
    Spec => [][/\ Verify => StepsLeft' \in Nat /\ StepsLeft' < StepsLeft
               /\ ~Verify => StepsLeft' = StepsLeft]_vars
<1>1. ASSUME TypeInv, [Next]_vars
      PROVE  [/\ Verify => StepsLeft' \in Nat /\ StepsLeft' < StepsLeft
              /\ ~Verify => StepsLeft' = StepsLeft]_vars
  <2>1. CASE Verify
    <3>1. StepsLeft' \in Nat /\ StepsLeft' < StepsLeft
      BY <1>1, <2>1, LookLess, TransferLess DEF Verify
    <3> QED  BY <2>1, <3>1
  <2>2. CASE ~Verify /\ \E i \in Items \ {"home"}, condition \in Conditions : Edit(i, condition)
    <3>1. StepsLeft' = StepsLeft
      BY <2>2 DEF Edit, transfer, StepsLeft, AttemptsLeft, AttemptSteps
    <3> QED  BY <2>2, <3>1
  <2>3. CASE UNCHANGED vars
    BY <2>3
  <2> QED  BY <1>1, <2>1, <2>2, <2>3 DEF Next
<1> QED  BY <1>1, TypesHold, PTL DEF Spec

\* That number.
THEOREM VerifierBounded == Init => StepsLeft = Attempts * (MaxArchive + 3) + 12
<1> SUFFICES ASSUME Init PROVE StepsLeft = Attempts * (MaxArchive + 3) + 12
  OBVIOUS
<1>1. pc = "manifest" /\ attempt = 1
  BY DEF Init
<1>2. Attempts \in Nat /\ AttemptSteps \in Nat /\ AttemptSteps = MaxArchive + 3
  BY ToolchainAssumption DEF AttemptSteps
<1>3. StepsLeft = (Attempts - 1) * AttemptSteps + AttemptSteps + 12
  BY <1>1 DEF StepsLeft, AttemptsLeft
<1>4. (Attempts - 1) * AttemptSteps + AttemptSteps = Attempts * AttemptSteps
  BY <1>2
<1> QED  BY <1>2, <1>3, <1>4
=============================================================================
