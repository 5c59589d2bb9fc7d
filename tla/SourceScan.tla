----------------------------- MODULE SourceScan -----------------------------
(***************************************************************************)
(* public_source_scan.py: list the files below a root (by walking the      *)
(* directories, or from git's index), then look at each of them for what   *)
(* must not be in public source, while an editor may still change the      *)
(* files.                                                                  *)
(*                                                                         *)
(* A path is a number: its place in the sorted order of all paths, 0 being *)
(* the root.  A directory's path sorts before the paths below it.  What a  *)
(* symbolic link points to is gone.                                        *)
(***************************************************************************)
EXTENDS Integers, Sequences, FiniteSets

CONSTANTS
    PathCount,      \* how many paths there are
    Parent,         \* the directory of each path
    Fold,           \* each path's normalised, case-folded form (a path of that form)
    Excluded,       \* paths whose last name is in EXCLUDED_DIRECTORIES
    Unsafe,         \* paths that _check_path refuses
    Contents,       \* what files may contain
    InitialTrees,   \* what may be on disk when the scan starts
    Faults,         \* what may fail around the scan: "git", "read"
    MaxFiles, MaxDirectories,   \* the scanner's own limits
    MaxEdits        \* bound on the editor's changes during the scan

Nodes == 1..PathCount

\* Directories on the way from the root to a path: the least set that has the
\* directory of the path, and that of each directory it has.
Ancestors ==
    LET Upward == {S \in SUBSET (0..PathCount) : \A d \in S \cap Nodes : Parent[d] \in S}
    IN  [n \in 0..PathCount |->
            {d \in 0..PathCount : n # 0 /\ \A S \in Upward : Parent[n] \in S => d \in S}]

PathMatches == {"shebang", "devNull", "rooted", "segments", "bare"}

ASSUME ScanAssumption ==
    /\ PathCount \in Nat
    /\ Parent \in [Nodes -> 0..PathCount] /\ \A n \in Nodes : Parent[n] < n
    /\ Fold \in [Nodes -> Nodes]
    /\ Excluded \subseteq Nodes /\ Unsafe \subseteq Nodes
    /\ Contents \subseteq [large : BOOLEAN, flawed : BOOLEAN, paths : Seq(PathMatches)]
    /\ Faults \subseteq {"git", "read"}
    /\ MaxFiles \in Nat /\ MaxDirectories \in Nat /\ MaxEdits \in Nat

Nothing == [kind |-> "none"]
Items == [kind : {"none", "dir", "symlink", "special"}]
         \cup [kind : {"file"}, content : Contents]

ASSUME TreeAssumption == InitialTrees \subseteq [Nodes -> Items]

VARIABLES
    tree,       \* what is at each path
    tracked,    \* --tracked-only
    atTop,      \* with --tracked-only: the root is the top of the git worktree
    index,      \* the paths git tracks below the root
    pc,         \* where the scan is, or its result
    pending,    \* directories still to enumerate
    directories,\* directories enumerated
    listed,     \* the files to scan
    left,       \* those not scanned yet
    seen,       \* seen_casefolded: the first path of each folded form, or 0
    findings,
    touched,    \* paths the editor has changed since the scan started
    edits,
    quiet       \* no edit and no failure so far

vars == <<tree, tracked, atTop, index, pc, pending, directories, listed, left, seen,
          findings, touched, edits, quiet>>
environment == <<tree, tracked, atTop, index, touched, edits>>

Reasons == {"collision", "symlink", "notRegular", "oversized", "unreadable", "content"}
Results == {"ok", "rejected", "invalid"}

\* The scan's variables keep their types; the walk stays within its limits.
TypeOK ==
    /\ tree \in [Nodes -> Items]
    /\ tracked \in BOOLEAN /\ atTop \in BOOLEAN
    /\ index \subseteq Nodes
    /\ pc \in {"list", "scan", "size", "read"} \cup Results
    /\ pending \subseteq 0..PathCount
    /\ directories \in 0..MaxDirectories
    /\ listed \subseteq Nodes
    /\ left \subseteq listed
    /\ seen \in [Nodes -> 0..PathCount]
    /\ findings \subseteq Nodes \X Reasons
    /\ touched \subseteq Nodes
    /\ edits \in 0..MaxEdits
    /\ quiet \in BOOLEAN

Init ==
    /\ tree \in InitialTrees
    /\ tracked \in BOOLEAN
    /\ atTop \in IF tracked THEN BOOLEAN ELSE {FALSE}
    /\ index \in IF tracked THEN SUBSET Nodes ELSE {{}}
    /\ pc = "list"
    /\ pending = {0}
    /\ directories = 0
    /\ listed = {}
    /\ left = {}
    /\ seen = [n \in Nodes |-> 0]
    /\ findings = {}
    /\ touched = {}
    /\ edits = 0
    /\ quiet = TRUE

-----------------------------------------------------------------------------
(* The files *)

Directories == {0} \cup {n \in Nodes : tree[n].kind = "dir"}
Reached(n) == Ancestors[n] \subseteq Directories
Present(n) == Reached(n) /\ tree[n].kind # "none"
IsRegular(n) == Present(n) /\ tree[n].kind = "file"

\* What each of the two POSIX patterns finds, in the order of the text.
MatchedBy == [absolute |-> {"shebang", "rooted", "bare"},
              multiSegment |-> {"shebang", "rooted", "devNull", "segments"}]

\* search() yields a pattern's first match only; it is let pass when it is in
\* the shebang line, or is /dev/null.
PathReported(content, pattern) ==
    LET Matches(m) == m \in MatchedBy[pattern]
        found == SelectSeq(content.paths, Matches)
    IN found # <<>> /\ found[1] \notin {"shebang", "devNull"}

\* Extension, magic, encoding, lines and the other patterns are one flaw.
Judged(content) ==
    content.flawed \/ \E pattern \in DOMAIN MatchedBy : PathReported(content, pattern)

-----------------------------------------------------------------------------
(* Listing the files *)

\* ScanError: the scan ends without findings.
Invalid ==
    /\ pc' = "invalid"
    /\ UNCHANGED <<pending, directories, listed, left, seen, findings>>

\* The list is complete: the scan of the files begins.
Listed(paths) ==
    IF Cardinality(paths) > MaxFiles
      THEN Invalid
      ELSE /\ pc' = "scan" /\ listed' = paths /\ left' = paths
           /\ UNCHANGED <<seen, findings>>

\* A path git lists must begin with the root's own path in the worktree and a
\* slash.  At the top that path is ".", and no path of git's begins with "./".
OutsideRoot(n) == atTop

Refused(n) == OutsideRoot(n) \/ n \in Unsafe

\* git ls-files, and a look at every path it lists.
ListTracked ==
    /\ pc = "list" /\ tracked
    /\ \/ /\ index = {} \/ \E n \in index : Refused(n)
          /\ Invalid /\ UNCHANGED quiet
       \/ /\ index # {} /\ \A n \in index : ~Refused(n)
          /\ Listed(index) /\ UNCHANGED <<pending, directories, quiet>>
       \/ "git" \in Faults /\ Invalid /\ quiet' = FALSE
    /\ UNCHANGED environment

\* The stack's top is always the greatest path on it: the children of a
\* directory are pushed in order, and they sort after everything below them.
Top == CHOOSE d \in pending : \A e \in pending : e <= d

Entries(d) == {n \in Nodes : Parent[n] = d /\ tree[n].kind # "none"}

\* A walk that leaves the links out, and one that goes everywhere.
ToListRegular(entries) == {n \in entries : tree[n].kind = "file"}
ToDescendAll(entries) == {n \in entries : tree[n].kind = "dir"}

ToList(entries) == {n \in entries : tree[n].kind \in {"file", "symlink"}}
ToDescend(entries) == {n \in entries : tree[n].kind = "dir"} \ Excluded

\* The comparison is made one directory too late.
DirectoryLeftLate == directories <= MaxDirectories

\* directories += 1 comes before the comparison.
DirectoryLeft == directories + 1 <= MaxDirectories

\* One turn of the walk: the next directory, with all its entries.
Enumerate ==
    /\ pc = "list" /\ ~tracked /\ pending # {}
    /\ LET entries == Entries(Top) IN
        IF \/ ~DirectoryLeft
           \/ Top \notin Directories \/ ~Reached(Top)
           \/ Cardinality(entries) > MaxFiles
           \/ entries \cap Unsafe # {}
          THEN Invalid
          ELSE /\ directories' = directories + 1
               /\ pending' = (pending \ {Top}) \cup ToDescend(entries)
               /\ listed' = listed \cup ToList(entries)
               /\ UNCHANGED <<pc, left, seen, findings>>
    /\ UNCHANGED environment /\ UNCHANGED quiet

EndWalk ==
    /\ pc = "list" /\ ~tracked /\ pending = {}
    /\ Listed(listed)
    /\ UNCHANGED environment /\ UNCHANGED <<pending, directories, quiet>>

-----------------------------------------------------------------------------
(* Scanning the files, in the order of their paths *)

Current == CHOOSE n \in left : \A m \in left : n <= m

\* A form that keeps the case.
ExactForm(n) == n

FoldedForm(n) == Fold[n]

Collision(n) ==
    IF seen[FoldedForm(n)] # 0 THEN {<<n, "collision">>} ELSE {}

\* The file is done, with the findings it gave.
Report(n, found) ==
    /\ findings' = findings \cup found
    /\ left' = left \ {n}
    /\ pc' = "scan"

\* The collision check, is_symlink and is_file.
Look ==
    /\ pc = "scan" /\ left # {}
    /\ LET n == Current IN
        /\ seen' = IF Collision(n) = {} THEN [seen EXCEPT ![FoldedForm(n)] = n] ELSE seen
        /\ \/ /\ Present(n) /\ tree[n].kind = "symlink"
              /\ Report(n, Collision(n) \cup {<<n, "symlink">>})
           \/ /\ ~(Present(n) /\ tree[n].kind = "symlink") /\ ~IsRegular(n)
              /\ Report(n, Collision(n) \cup {<<n, "notRegular">>})
           \/ /\ IsRegular(n)
              /\ findings' = findings \cup Collision(n)
              /\ pc' = "size"
              /\ UNCHANGED left
    /\ UNCHANGED environment /\ UNCHANGED <<pending, directories, listed, quiet>>

\* stat
Size ==
    /\ pc = "size"
    /\ LET n == Current IN
        \/ ~IsRegular(n) /\ Report(n, {<<n, "unreadable">>})
        \/ IsRegular(n) /\ tree[n].content.large /\ Report(n, {<<n, "oversized">>})
        \/ /\ IsRegular(n) /\ ~tree[n].content.large
           /\ pc' = "read" /\ UNCHANGED <<findings, left>>
    /\ UNCHANGED environment /\ UNCHANGED <<pending, directories, listed, seen, quiet>>

\* read_bytes, and every check of what was read.
Read ==
    /\ pc = "read"
    /\ LET n == Current IN
        \/ /\ ~IsRegular(n)
           /\ Report(n, {<<n, "unreadable">>}) /\ UNCHANGED quiet
        \/ /\ IsRegular(n)
           /\ Report(n, IF Judged(tree[n].content) THEN {<<n, "content">>} ELSE {})
           /\ UNCHANGED quiet
        \/ /\ IsRegular(n) /\ "read" \in Faults
           /\ Report(n, {<<n, "unreadable">>}) /\ quiet' = FALSE
    /\ UNCHANGED environment /\ UNCHANGED <<pending, directories, listed, seen>>

Finish ==
    /\ pc = "scan" /\ left = {}
    /\ pc' = IF findings = {} THEN "ok" ELSE "rejected"
    /\ UNCHANGED environment
    /\ UNCHANGED <<pending, directories, listed, left, seen, findings, quiet>>

-----------------------------------------------------------------------------
\* Somebody changes what is at a path.
Edit(n, item) ==
    /\ pc \notin Results
    /\ edits < MaxEdits /\ item # tree[n]
    /\ tree' = [tree EXCEPT ![n] = item]
    /\ touched' = touched \cup {n}
    /\ edits' = edits + 1
    /\ quiet' = FALSE
    /\ UNCHANGED <<tracked, atTop, index, pc, pending, directories, listed, left, seen, findings>>

Scan == ListTracked \/ Enumerate \/ EndWalk \/ Look \/ Size \/ Read \/ Finish

Next == Scan \/ \E n \in Nodes, item \in Items : Edit(n, item)

Spec == Init /\ [][Next]_vars

-----------------------------------------------------------------------------
(* Properties *)

\* The files a scan is about, said without a walk: what git tracks, or every
\* file and link on a way of directories none of which is excluded.
Source(n) ==
    IF tracked THEN n \in index
    ELSE /\ Present(n) /\ tree[n].kind \in {"file", "symlink"}
         /\ Ancestors[n] \cap Excluded = {}

Walked == {d \in Directories : Reached(d) /\ (Ancestors[d] \cup {d}) \cap Excluded = {}}

OverLimit ==
    LET sources == {n \in Nodes : Source(n)}
        met == {n \in Nodes : Parent[n] \in Walked /\ tree[n].kind # "none"}
    IN \/ Cardinality(sources) > MaxFiles
       \/ tracked /\ (sources = {} \/ sources \cap Unsafe # {})
       \/ ~tracked /\ \/ Cardinality(Walked) > MaxDirectories
                      \/ met \cap Unsafe # {}
                      \/ \E d \in Walked :
                           Cardinality({n \in met : Parent[n] = d}) > MaxFiles

\* What is wrong with a file by itself.
Wrong(n) == ~IsRegular(n) \/ tree[n].content.large \/ Judged(tree[n].content)

Collides(n) == \E m \in Nodes : Source(m) /\ m < n /\ Fold[m] = Fold[n]

\* When nobody changes anything and nothing fails, the scan's result is exactly
\* the result the files deserve: no file is left out, no limit is missed or
\* invented, and every finding is about a file with something wrong.  The one
\* exception is a scan of what git tracks from the top of the worktree, which
\* never gives a result for its files, whatever they are.
ExactWhenQuiet ==
    quiet =>
        /\ pc = "invalid" => OverLimit \/ (tracked /\ atTop)
        /\ pc \in {"ok", "rejected"} =>
            /\ ~OverLimit /\ ~(tracked /\ atTop)
            /\ \A n \in Nodes :
                (\E reason \in Reasons : <<n, reason>> \in findings)
                    <=> Source(n) /\ (Wrong(n) \/ Collides(n))

\* Whatever is changed elsewhere meanwhile, a source file that is left alone,
\* with the directories it is in, does not escape: if there is something wrong
\* with it, the scan does not end well.
StableFlawReported ==
    pc \in {"ok", "rejected"} =>
        \A n \in Nodes :
            (Ancestors[n] \cup {n}) \cap touched = {} /\ Source(n) /\ Wrong(n) =>
                \E reason \in Reasons : <<n, reason>> \in findings

\* Of several listed paths that differ in case only, every one but the first is
\* reported, however the files change meanwhile.
CollisionsReported ==
    pc \in {"ok", "rejected"} =>
        \A m, n \in listed : m < n /\ Fold[m] = Fold[n] => <<n, "collision">> \in findings

\* "Run the source policy self-tests locally with: public_source_scan.py
\* --repo-root . --tracked-only" (README): when what git tracks has nothing wrong
\* with it, is within the limits and is left alone, the scan has an answer for it,
\* from the top of the worktree as from anywhere.
TrackedScanAnswers ==
    quiet /\ tracked /\ ~OverLimit /\ (\A n \in index : ~Wrong(n)) => pc # "invalid"
=============================================================================
