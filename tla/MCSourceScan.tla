---------------------------- MODULE MCSourceScan ----------------------------
(***************************************************************************)
(* Instances of SourceScan for TLC.  The paths, in order, are              *)
(*   1 "A"   2 "A/b"   3 "a"   4 "build"   5 "build/x"   6 "c:"            *)
(* so that 1 and 3 collide, 4 is excluded from a walk and 6 is unsafe.     *)
(***************************************************************************)
EXTENDS SourceScan

MCParent == <<0, 1, 0, 0, 4, 0>>
MCFold == <<1, 2, 1, 4, 5, 6>>

\* A script that passes although it has an absolute path after the shebang, a
\* file with such a path before anything that would mask it, and a large file.
Script == [large |-> FALSE, flawed |-> FALSE, paths |-> <<"shebang", "rooted">>]
Local == [Script EXCEPT !.paths = <<"segments", "devNull">>]
Large == [Script EXCEPT !.large = TRUE]

MCContents == {Script, Local, Large}

\* Anything at 1 and 2; a file or nothing at 3, 5 and 6; a directory or nothing
\* at 4.
MCTrees ==
    LET file(contents) == [kind : {"file"}, content : contents]
    IN {t \in [Nodes -> Items] :
          /\ t[3] \in {Nothing} \cup file(Contents \cap {Script, Local})
          /\ t[4] \in {Nothing, [kind |-> "dir"]}
          /\ t[5] \in {Nothing} \cup file(Contents \cap {Local})
          /\ t[4] = Nothing => t[5] = Nothing
          /\ t[6] \in {Nothing} \cup file({Script})}
=============================================================================
