-------------------------- MODULE ToolchainVerifier --------------------------
(***************************************************************************)
(* verify_toolchain.py: look at the manifest, at JAVA_HOME, at each tool   *)
(* and what it says of itself, at the JDK archive (a file, or a download   *)
(* that may take several attempts) and at git's HEAD, one after the other, *)
(* while somebody may change them.                                         *)
(*                                                                         *)
(* An archive is the sequence of chunks it is read in; a chunk has size 1, *)
(* and the digest of a body stands for the sequence of chunks digested.    *)
(***************************************************************************)
EXTENDS Integers, Sequences

CONSTANTS
    Archive,        \* the reviewed archive
    Chunks,         \* what a read of a response may return
    MaxArchive,     \* MAX_ARCHIVE_BYTES
    Attempts,       \* DOWNLOAD_ATTEMPTS
    InitialItems,   \* what the items may be when the verifier starts
    MaxEdits        \* bound on the changes around the verifier

\* The tools, in the order in which they are looked at, and run.
Tools == <<"java", "javac", "javadoc", "jdeps">>
ToolSet == {Tools[i] : i \in DOMAIN Tools}

\* home: JAVA_HOME and --java-home are given, exist and agree.
Items == ToolSet \cup {"manifest", "home", "archive", "head"}

\* As reviewed; something else in its place (a tool of another version, another
\* commit); nothing there, or nothing that passes for a tool in JAVA_HOME/bin.
Conditions == {"reviewed", "other", "missing"}

ASSUME ToolchainAssumption ==
    /\ Archive \in Seq(Chunks) /\ Len(Archive) \in 1..MaxArchive
    /\ MaxArchive \in Nat
    /\ Attempts \in Nat \ {0}
    /\ InitialItems \subseteq [Items -> Conditions]
    /\ MaxEdits \in Nat

VARIABLES
    item,       \* the condition of each item
    download,   \* --download-archive, and not --archive
    expectHead, \* --expected-head
    pc,         \* where the verifier is, or its result
    tool,       \* the position in Tools
    attempt,    \* _attempt
    digest,     \* the chunks digested
    total,      \* the size read
    served,     \* the chunks the server has sent in this response
    offered,    \* a response was the archive, whole and as it should be
    touched,    \* the items changed since the verifier started
    edits       \* how many changes

transfer == <<attempt, digest, total, served, offered>>
vars == <<item, download, expectHead, pc, tool, attempt, digest, total, served, offered,
          touched, edits>>

\* toolchain_invalid, and an exception nobody catches: both end the step.
Results == {"valid", "invalid", "traceback"}

\* The variables keep their types, and a download its bounds.
TypeOK ==
    /\ item \in [Items -> Conditions]
    /\ download \in BOOLEAN /\ expectHead \in BOOLEAN
    /\ pc \in {"manifest", "home", "paths", "run", "archive", "request", "body", "head"}
              \cup Results
    /\ tool \in DOMAIN Tools
    /\ attempt \in 1..Attempts
    /\ digest \in Seq(Chunks) /\ Len(digest) <= MaxArchive
    /\ served \in Seq(Chunks) /\ Len(served) <= MaxArchive + 1
    /\ total \in 0..(MaxArchive + 1)
    /\ offered \in BOOLEAN
    /\ touched \subseteq Items
    /\ edits \in 0..MaxEdits

Init ==
    /\ item \in InitialItems
    /\ download \in BOOLEAN /\ expectHead \in BOOLEAN
    /\ pc = "manifest"
    /\ tool = 1
    /\ attempt = 1
    /\ digest = <<>> /\ total = 0 /\ served = <<>> /\ offered = FALSE
    /\ touched = {} /\ edits = 0

-----------------------------------------------------------------------------
(* Looking at the items *)

\* A look lets the verifier go on, or ends it.
Decide(good, next) == pc' = IF good THEN next ELSE "invalid"

ReadManifest ==
    /\ pc = "manifest"
    /\ Decide(item["manifest"] = "reviewed", "home")
    /\ UNCHANGED tool

ResolveHome ==
    /\ pc = "home"
    /\ Decide(item["home"] = "reviewed", "paths")
    /\ UNCHANGED tool

\* A loop that forgets the last tool.
AllButLastTool == tool + 1 = Len(Tools)

LastTool == tool = Len(Tools)

\* One turn of a loop over the tools.
EachTool(good, loop, next) ==
    /\ pc = loop
    /\ IF good /\ ~LastTool
         THEN tool' = tool + 1 /\ UNCHANGED pc
         ELSE tool' = 1 /\ Decide(good, next)

\* _tool_path: an executable of that name in JAVA_HOME/bin.
CheckPath == EachTool(item[Tools[tool]] # "missing", "paths", "run")

\* _run: the tool that is there now, and what it says.
RunTool == EachTool(item[Tools[tool]] = "reviewed", "run", "archive")

\* _verify_archive, or the first of the attempts.
ChooseArchive ==
    /\ pc = "archive"
    /\ IF download THEN pc' = "request" ELSE Decide(item["archive"] = "reviewed", "head")
    /\ UNCHANGED tool

\* _verify_head: HEAD is a commit, and the expected one if one is expected.
VerifyHead ==
    /\ pc = "head"
    /\ Decide(item["head"] \in {"reviewed"} \cup (IF expectHead THEN {} ELSE {"other"}), "valid")
    /\ UNCHANGED tool

Look ==
    /\ ReadManifest \/ ResolveHome \/ CheckPath \/ RunTool \/ ChooseArchive \/ VerifyHead
    /\ UNCHANGED transfer

-----------------------------------------------------------------------------
(* _download_and_verify *)

\* An attempt that does not count.
AttemptFailsUncounted ==
    /\ pc' = IF attempt < Attempts THEN "request" ELSE "invalid"
    /\ UNCHANGED attempt

\* OSError, URLError or VerificationError: the next attempt, if there is one.
AttemptFails ==
    IF attempt < Attempts
      THEN pc' = "request" /\ attempt' = attempt + 1
      ELSE pc' = "invalid" /\ UNCHANGED attempt

\* What is read of a new response is added to what was read of the last one.
StartBodyAnyhow == UNCHANGED <<digest, total>>

StartBody == digest' = <<>> /\ total' = 0

\* urlopen, the status and Content-Length.
Request ==
    /\ pc = "request"
    /\ \/ pc' = "body" /\ StartBody /\ served' = <<>> /\ UNCHANGED attempt
       \/ AttemptFails /\ UNCHANGED <<digest, total, served>>
    /\ UNCHANGED offered

\* A chunk more than the limit is let pass.
OverLimitByMore(size) == size > MaxArchive + 1

OverLimit(size) == size > MaxArchive

ReadChunk(chunk) ==
    /\ pc = "body"
    /\ total' = total + 1
    /\ served' = Append(served, chunk)
    /\ IF OverLimit(total')
         THEN AttemptFails /\ UNCHANGED digest
         ELSE digest' = Append(digest, chunk) /\ UNCHANGED <<pc, attempt>>
    /\ UNCHANGED offered

\* The read that returns nothing: the server is done, or has given up early.
EndOfBody ==
    /\ pc = "body"
    /\ offered' = (offered \/ served = Archive)
    /\ IF total = 0 \/ digest # Archive
         THEN AttemptFails
         ELSE pc' = "head" /\ UNCHANGED attempt
    /\ UNCHANGED <<digest, total, served>>

ConnectionLost ==
    /\ pc = "body"
    /\ AttemptFails
    /\ UNCHANGED <<digest, total, served, offered>>

\* http.client.HTTPException (a malformed answer, a chunked body cut short) is
\* none of the exceptions an attempt catches.
MalformedAnswer ==
    /\ pc \in {"request", "body"}
    /\ pc' = "traceback"
    /\ UNCHANGED transfer

Transfer ==
    /\ Request \/ EndOfBody \/ ConnectionLost \/ MalformedAnswer
          \/ \E chunk \in Chunks : ReadChunk(chunk)
    /\ UNCHANGED tool

-----------------------------------------------------------------------------
Verify == (Look \/ Transfer) /\ UNCHANGED <<item, download, expectHead, touched, edits>>

\* Somebody changes an item; the verifier's own arguments and environment, which
\* make up "home", stay.
Edit(i, condition) ==
    /\ edits < MaxEdits
    /\ condition # item[i]
    /\ item' = [item EXCEPT ![i] = condition]
    /\ touched' = touched \cup {i}
    /\ edits' = edits + 1
    /\ UNCHANGED <<download, expectHead, pc, tool, transfer>>

Next == Verify \/ \E i \in Items \ {"home"}, condition \in Conditions : Edit(i, condition)

Spec == Init /\ [][Next]_vars

-----------------------------------------------------------------------------
(* Properties *)

\* The items a result depends on.
Needed == ToolSet \cup {"manifest", "home"}
          \cup (IF download THEN {} ELSE {"archive"}) \cup (IF expectHead THEN {"head"} ELSE {})

\* A download that is accepted is one response, whole: nothing that an attempt
\* before it has left behind counts, and nothing is left out.
DownloadedExact == download /\ pc \in {"head", "valid"} => served = Archive

\* Whatever is changed meanwhile, an item that is left alone and is not as
\* reviewed is refused: no look is left out, however the others end.
StableFlawRefused ==
    pc = "valid" => \A i \in Needed \ touched : item[i] = "reviewed"

\* The verifier refuses for a cause: when nobody changes anything, some item is
\* not as reviewed, or no attempt was offered the archive.  An attempt that
\* failed takes nothing away from the next.
RefusedForCause ==
    pc = "invalid" /\ touched = {} =>
        \/ \E i \in Needed : item[i] # "reviewed"
        \/ item["head"] = "missing"
        \/ download /\ ~offered

\* Whatever the server does and somebody changes, the verifier comes to a result:
\* no attempt is made for ever.
ToolchainDecided == <>(pc \in Results)
=============================================================================
