----------------------------- MODULE MCCiSteps -----------------------------
(* The CI steps with a short workflow, two components and a few builds. *)
EXTENDS CiSteps
LOCAL INSTANCE TLC
LOCAL INSTANCE SequencesExt

\* At most one item is not as reviewed; of those that may not be needed, it is
\* another one.
MCInitialItems ==
    {items \in [Items -> Conditions] :
        /\ Cardinality({i \in Items : items[i] # "reviewed"}) <= 1
        /\ "missing" \notin {items["archive"], items["head"]}}

MCArchive == <<"p", "q">>

-----------------------------------------------------------------------------
Line(indent, dash, key, value) ==
    [indent |-> indent, dash |-> dash, key |-> key, value |-> value,
     colon |-> IF key = "" THEN "" ELSE IF value = "" THEN ":" ELSE ": "]

MCReviewedText ==
    <<Line(0, FALSE, "name", "CI"),
      Line(0, FALSE, "on", ""),
      Line(2, FALSE, "push", ""),
      Line(2, FALSE, "pull_request", ""),
      Line(0, FALSE, "jobs", ""),
      Line(2, FALSE, "timeout-minutes", "30"),
      Line(2, FALSE, "steps", ""),
      Line(4, TRUE, "name", "Set up"),
      Line(6, FALSE, "with", ""),
      Line(8, FALSE, "check-latest", "false"),
      Line(4, TRUE, "name", "Verify"),
      Line(6, FALSE, "run", "|"),
      Line(8, FALSE, "", "verify a"),
      Line(8, FALSE, "verify b", "c")>>

MCWorkflow ==
    Map(<< <<"name", Scalar("CI")>>,
           <<"on", Map(<< <<"push", Map(<<>>)>>, <<"pull_request", Map(<<>>)>> >>)>>,
           <<"jobs", Map(<<
               <<"timeout-minutes", Scalar("integer 30")>>,
               <<"steps", List(<<
                   Map(<< <<"name", Scalar("Set up")>>,
                          <<"with", Map(<< <<"check-latest", Scalar("boolean false")>> >>)>> >>),
                   Map(<< <<"name", Scalar("Verify")>>,
                          <<"run", Text(<<Line(0, FALSE, "", "verify a"),
                                          Line(0, FALSE, "verify b", "c")>>)>> >>)>>)>> >>)>> >>)

\* 030 is an integer, False is not a boolean; what is quoted is not accepted.
MCScalarOf ==
    [v \in {"30", "030"} |-> "integer 30"]
    @@ [v \in {"false"} |-> "boolean false"] @@ [v \in {"true"} |-> "boolean true"]
    @@ [v \in {"CI", "Set up", "Verify", "verify a", "c", "False"} |-> v]

MCUnreadable == {"# comment"}
MCUnsafeCommands == {Line(0, FALSE, "", "bash -c verify a")}

Instead(key, colons, values, new) ==
    [old |-> {<<key, c, v>> : c \in colons, v \in values}, new |-> new]

\* One of each kind of _negative_self_test.
MCMutations ==
    LET name == Line(0, FALSE, "name", "CI")
        true == Line(0, FALSE, "extra", "true")
        spaced == {": "}
    IN  {Instead("name", spaced, {"CI"}, <<name, true>>),
         Instead("on", {":"}, {""}, <<>>),
         Instead("timeout-minutes", {":", ": "}, {"30", "030"}, <<Line(2, FALSE, "timeout", "30")>>),
         Instead("name", spaced, {"CI"}, <<name, name>>),
         Instead("name", spaced, {"Verify"}, <<true, Line(6, FALSE, "name", "Verify")>>),
         Instead("verify b", spaced, {"c"}, <<>>),
         Instead("run", spaced, {"|", "|-"}, <<Line(6, FALSE, "run", ">")>>),
         Instead("name", spaced, {"CI"}, <<Line(0, FALSE, "", "# comment"), name>>),
         Instead("", {""}, {"verify a"}, <<Line(8, FALSE, "", "bash -c verify a")>>)}

Swapped(seq, i) == [seq EXCEPT ![i] = seq[i + 1], ![i + 1] = seq[i]]

\* A line is gone, comes twice, has moved, or is indented otherwise.
Moved(lines) ==
    {RemoveAt(lines, i) : i \in DOMAIN lines}
    \cup {InsertAt(lines, i, lines[i]) : i \in DOMAIN lines}
    \cup {Swapped(lines, i) : i \in 1..(Len(lines) - 1)}
    \cup {[lines EXCEPT ![i].indent = @ + more] : i \in DOMAIN lines, more \in {1, 2}}
    \cup {[lines EXCEPT ![i].indent = @ - 2] : i \in {j \in DOMAIN lines : lines[j].indent >= 2}}
    \cup {[lines EXCEPT ![i].dash = ~@] : i \in DOMAIN lines}

\* A line has another key, another value, or no space after its colon.
Reworded(lines) ==
    {[lines EXCEPT ![i] = Line(@.indent, @.dash, key, @.value)]
        : i \in DOMAIN lines, key \in {"", "name"}}
    \cup {[lines EXCEPT ![i].colon = ":"] : i \in {j \in DOMAIN lines : lines[j].colon = ": "}}
    \cup {[lines EXCEPT ![i] = Line(@.indent, @.dash, @.key, value)]
            : i \in DOMAIN lines,
              value \in {"", "030", "False", "|-", ">", "'30'", "# comment", "bash -c verify a"}}

\* Some line once more at the end, where the parser may have stopped before.
Appended(lines) ==
    {Append(lines, [line EXCEPT !.indent = indent])
        : line \in {lines[1], lines[8], lines[Len(lines)]}, indent \in {0, 2, 4, 6}}
    \cup {Append(lines, [lines[1] EXCEPT !.indent = indent, !.dash = TRUE])
        : indent \in {0, 2, 4, 6}}

MCTexts ==
    {MCReviewedText, InsertAt(MCReviewedText, 2, Blank)} \cup Moved(MCReviewedText) 
    \cup Reworded(MCReviewedText) \cup Appended(MCReviewedText)

-----------------------------------------------------------------------------
MCGraph == (1 :> (1 :> "d1" @@ 2 :> "d2")) @@ (2 :> (1 :> "d3"))

Sha256(value) == [value |-> value, origin |-> "Generated by Gradle", also |-> {}]
Artifact(name, value) == [name |-> name, checksums |-> <<Sha256(value)>>]

MCReviewedMetadata ==
    <<[key |-> 1, artifacts |-> <<Artifact(1, "d1"), Artifact(2, "d2")>>],
      [key |-> 2, artifacts |-> <<Artifact(1, "d3")>>]>>

\* A component, an artifact or a checksum is gone, comes twice, has moved, or is
\* another one.
OtherDocuments(document) ==
    LET places == UNION {{<<i, j>> : j \in DOMAIN document[i].artifacts} : i \in DOMAIN document}
        List1(i) == document[i].artifacts
    IN  {RemoveAt(document, i) : i \in DOMAIN document}
        \cup {InsertAt(document, i, document[i]) : i \in DOMAIN document}
        \cup {Swapped(document, i) : i \in 1..(Len(document) - 1)}
        \cup {[document EXCEPT ![i].key = @ + 1] : i \in DOMAIN document}
        \cup {[document EXCEPT ![p[1]].artifacts = RemoveAt(@, p[2])] : p \in places}
        \cup {[document EXCEPT ![p[1]].artifacts = InsertAt(@, p[2], List1(p[1])[p[2]])]
                : p \in places}
        \cup {[document EXCEPT ![p[1]].artifacts[p[2]].name = @ + 1] : p \in places}
        \cup {[document EXCEPT ![p[1]].artifacts[p[2]].checksums = checksums]
                : p \in places,
                  checksums \in {<<>>, <<Sha256("d1")>>, <<Sha256("bad")>>,
                                 <<Sha256("d1"), Sha256("d2")>>}}

\* A checksum is of another origin and has a child.
OtherOrigins(document) ==
    {[document EXCEPT ![1].artifacts[2].checksums[1] =
        [@ EXCEPT !.origin = origin, !.also = {"zeros"}]]
        : origin \in {"Verified from Maven Central download", "elsewhere"}}

\* All that is one change away; and what is two away if it lists all components
\* and the last artifact of each name has the reviewed digest.
MCDocuments ==
    LET once == OtherDocuments(MCReviewedMetadata)
        Single(document) == \A i \in DOMAIN document :
                               \A artifact \in ToSet(document[i].artifacts) :
                                   Len(artifact.checksums) = 1
    IN  {MCReviewedMetadata} \cup OtherOrigins(MCReviewedMetadata) \cup once
        \cup UNION {{d \in OtherDocuments(u) :
                        /\ Single(d) /\ {d[i].key : i \in DOMAIN d} = DOMAIN MCGraph
                        /\ \A i \in DOMAIN d : Values(d[i].artifacts) = MCGraph[d[i].key]}
                     : u \in once}

-----------------------------------------------------------------------------
\* Suites of up to two cases that declare what they have, or too few failures,
\* or too many.
Suites ==
    {[cases |-> cases, tests |-> tests,
      declared |-> [mark \in Marks |-> IF mark = "failure" THEN failures
                                       ELSE Len(SelectSeq(cases, LAMBDA case : mark \in case))]]
        : cases \in {<<{}, {"skipped"}>>} \cup BoundedSeq({{}, {"failure"}}, 2),
          tests \in 1..2, failures \in 0..1}

\* Files with one suite, or two, and no file at all.
MCReports ==
    LET single == {suite \in Suites : Len(suite.cases) = 1 /\ suite.tests = 1} IN
    {<<>>, << <<>> >>} \cup {<<<<s>>>> : s \in Suites} \cup {<<<<s, t>>>> : s, t \in single}
    \cup {<<<<s>>, <<t>>>> : s, t \in {suite \in single : suite.declared["failure"] = 0}}

Class(regular, size, major, modules) ==
    [regular |-> regular, size |-> size, major |-> major, modules |-> modules]

Sound == Class(TRUE, 2, 61, {"java.base"})

MCOtherClasses ==
    {Class(TRUE, 3, 61, {"java.base"}),
     Class(TRUE, 2, 65, {"java.base"}), Class(TRUE, 2, 61, {"java.base", "java.sql"}),
     Class(FALSE, 2, 61, {"java.base"})}

MCClasses == {<<Sound, Sound, Sound>>} \cup BoundedSeq({Sound} \cup MCOtherClasses, 2)

\* Every report with sound classes, and all classes with a sound report.
MCOutputs ==
    LET pass == [cases |-> <<{}>>, tests |-> 1, declared |-> [mark \in Marks |-> 0]] IN
    {[report |-> r, classes |-> <<Sound>>] : r \in MCReports}
    \cup {[report |-> <<<<pass, pass>>>>, classes |-> c] : c \in MCClasses}
=============================================================================
